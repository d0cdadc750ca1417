---------------------------- MODULE RedisGenProofs ----------------------------
(***************************************************************************)
(* Proofs about RedisGen, for any number of batches, rows, threads and     *)
(* faults, any failure rate and first number.                              *)
(***************************************************************************)
EXTENDS RedisGen, FiniteSetTheorems, TLAPS

Numbered == conf.token \in {"incr", "alias"}
Ends == {"none", "ok", "render", "refused", "lost", "clash"}

Shape ==
  /\ conf \in Confs
  /\ ctr \in Nat \cup {-1} /\ expired \in BOOLEAN
  /\ pc \in [Batches -> Steps]
  /\ base \in [Batches -> Nat \cup {-1}]
  /\ end \in [Batches -> Ends]
  /\ rec \in [Batches -> {"none", "ok", "fail"}]
  /\ queue \subseteq logs /\ logs \subseteq Batches

(* What the place of a batch says of its numbers, its end and its logs. *)
Places ==
  \A b \in Batches :
    /\ pc[b] \in {"new", "seed", "incrby"} => base[b] = -1
    /\ pc[b] \in {"new", "seed", "incrby", "write"} => end[b] = "none"
    /\ pc[b] = "seed" => conf.token = "incr"
    /\ pc[b] = "incrby" => Numbered
    /\ base[b] # -1 => Numbered
    /\ pc[b] = "write" \/ end[b] = "ok" => (Numbered => base[b] # -1)
    /\ rec[b] # "none" => pc[b] = "recorded"
    /\ rec[b] = "ok" => end[b] = "ok"
    /\ b \in logs => rec[b] = "ok"

(* What the stage of the task says of its batches and of the rollback. *)
StageGood ==
  /\ stage \in {"ended", "rolling", "rolled"} => Active = {}
  /\ stage = "rolled" => logs = {}
  /\ IF stage \in {"draft", "rejected"} THEN \A b \in Batches : pc[b] = "new" ELSE Valid
  /\ stage = "rolling" /\ deleted = {} => queue = logs

(* Where the rows of the task are, and why a rollback might miss them. *)
Named(q) == \E a \in logs : q \in KeysOf(a)
RowsKnown ==
  \A q \in Keys : \A r \in store[q].rows \ {Foreign} :
    /\ r[1] \in Batches /\ q \in KeysOf(r[1])
    /\ end[r[1]] \in {"ok", "lost", "clash"}
    /\ \/ ~conf.capture \/ end[r[1]] \in {"lost", "clash"} \/ rec[r[1]] = "none"
       \/ Named(q)

(* A key that counts as looked at is empty, or a log that failed names it. *)
LookedAt ==
  stage = "rolling" =>
    \A q \in deleted \cap Keys :
      store[q].rows = {} \/ \E a \in logs \ queue : q \in KeysOf(a)

(* The numbers handed out so far, and the next one. *)
FirstNumber == IF conf.token = "incr" THEN First ELSE 0
Next0 == FirstNumber + Size * Cardinality(Reserved)
Handed == UNION {Numbers(b) : b \in Reserved}
CounterGood ==
  ~expired =>
    /\ ctr = -1 => Reserved = {}
    /\ ctr # -1 => ctr = IF conf.token = "incr" THEN Next0 - 1 ELSE Next0
    /\ conf.token = "incr" => \A b \in Batches : pc[b] = "incrby" => ctr # -1
    /\ Handed = FirstNumber..(Next0 - 1)
    /\ \A a, b \in Reserved : a # b => Numbers(a) \cap Numbers(b) = {}

(* RowsKept, for batches that are not recorded yet too. *)
Keeps == conf.write = "single_key" \/ Numbered \/ conf.token = "own"
RowsStay ==
  /\ stage \in {"draft", "rejected", "running", "failed", "ended"} /\ deleted = {}
  /\ ~expired /\ Keeps
  => \A b \in Batches, i \in Indexes : end[b] = "ok" => <<b, i>> \in lapsed \/ Held(b, i)

IInv ==
  /\ Shape
  /\ Places
  /\ StageGood
  /\ RowsKnown
  /\ LookedAt
  /\ CounterGood
  /\ RowsStay

-------------------------------------------------------------------------------
BatchStep(b) ==
  \/ StartBatch(b) \/ SeedCounter(b) \/ Reserve(b) \/ RenderFails(b) \/ Write(b)
  \/ WriteFails(b) \/ Record(b) \/ RecordFails(b)
RollStep(b) == RollBack(b) \/ RollBackFails(b)

LEMMA NextParts ==
  Next => \/ Save \/ ExpireCounter \/ Finish \/ StartRollback \/ EndRollback
          \/ \E b \in Batches : BatchStep(b) \/ RollStep(b)
          \/ \E q \in timed : ExpireKey(q)
BY DEF Next, BatchStep, RollStep

LEMMA ShapeStep == ASSUME IInv, Next PROVE Shape'
<1> USE SizesAssumption DEF IInv, Shape, rollVars, lifeVars
<1>1. CASE Save \/ ExpireCounter \/ Finish \/ StartRollback \/ EndRollback
  BY <1>1 DEF Save, ExpireCounter, Finish, StartRollback, EndRollback
<1>2. ASSUME NEW b \in Batches, BatchStep(b) PROVE Shape'
  <2>1. CASE StartBatch(b) BY <2>1 DEF StartBatch, Steps
  <2>2. CASE SeedCounter(b) BY <2>2 DEF SeedCounter, Steps
  <2>3. CASE Reserve(b)
    <3>1. ctr' \in Nat /\ (ctr' - Size \in Nat) /\ base' \in [Batches -> Nat \cup {-1}]
      BY <2>3 DEF Reserve
    <3>2. pc' \in [Batches -> Steps] BY <2>3 DEF Reserve, Steps
    <3> QED BY <2>3, <3>1, <3>2 DEF Reserve
  <2>4. CASE RenderFails(b) BY <2>4 DEF RenderFails, Written, Steps, Ends
  <2>5. CASE Write(b) BY <2>5 DEF Write, Written, Steps, Ends
  <2>6. CASE WriteFails(b) BY <2>6 DEF WriteFails, Written, Steps, Ends
  <2>7. CASE Record(b) BY <2>7 DEF Record, Steps
  <2>8. CASE RecordFails(b) BY <2>8 DEF RecordFails
  <2> QED BY <1>2, <2>1, <2>2, <2>3, <2>4, <2>5, <2>6, <2>7, <2>8 DEF BatchStep
<1>3. ASSUME NEW b \in Batches, RollStep(b) PROVE Shape'
  BY <1>3 DEF RollStep, RollBack, RollBackFails
<1>4. ASSUME NEW q \in timed, ExpireKey(q) PROVE Shape' BY <1>4 DEF ExpireKey
<1> QED BY <1>1, <1>2, <1>3, <1>4, NextParts

LEMMA PlacesStep == ASSUME IInv, Next PROVE Places'
<1> USE SizesAssumption DEF IInv, Shape, Places, Numbered, rollVars, lifeVars
<1>1. CASE Save \/ ExpireCounter \/ Finish \/ StartRollback \/ EndRollback
  BY <1>1 DEF Save, ExpireCounter, Finish, StartRollback, EndRollback
<1>2. ASSUME NEW b \in Batches, BatchStep(b) PROVE Places'
  <2>1. CASE StartBatch(b) BY <2>1 DEF StartBatch
  <2>2. CASE SeedCounter(b) BY <2>2 DEF SeedCounter
  <2>3. CASE Reserve(b) BY <2>3 DEF Reserve
  <2>4. CASE RenderFails(b) BY <2>4 DEF RenderFails, Written
  <2>5. CASE Write(b) BY <2>5 DEF Write, Written
  <2>6. CASE WriteFails(b) BY <2>6 DEF WriteFails, Written
  <2>7. CASE Record(b) BY <2>7 DEF Record
  <2>8. CASE RecordFails(b) BY <2>8 DEF RecordFails
  <2> QED BY <1>2, <2>1, <2>2, <2>3, <2>4, <2>5, <2>6, <2>7, <2>8 DEF BatchStep
<1>3. ASSUME NEW b \in Batches, RollStep(b) PROVE Places'
  BY <1>3 DEF RollStep, RollBack, RollBackFails
<1>4. ASSUME NEW q \in timed, ExpireKey(q) PROVE Places' BY <1>4 DEF ExpireKey
<1> QED BY <1>1, <1>2, <1>3, <1>4, NextParts

LEMMA StageStep == ASSUME IInv, Next PROVE StageGood'
<1> USE DEF IInv, Shape, StageGood, Valid, Active, rollVars, lifeVars
<1>1. CASE Save \/ ExpireCounter \/ Finish \/ StartRollback
  BY <1>1 DEF Save, ExpireCounter, Finish, StartRollback
<1>2. CASE EndRollback BY <1>2 DEF EndRollback
<1>3. ASSUME NEW b \in Batches, BatchStep(b) PROVE StageGood'
  <2>1. CASE StartBatch(b) BY <2>1 DEF StartBatch
  <2>2. CASE SeedCounter(b) BY <2>2 DEF SeedCounter
  <2>3. CASE Reserve(b) BY <2>3 DEF Reserve
  <2>4. CASE RenderFails(b) BY <2>4 DEF RenderFails, Written
  <2>5. CASE Write(b) BY <2>5 DEF Write, Written
  <2>6. CASE WriteFails(b) BY <2>6 DEF WriteFails, Written
  <2>7. CASE Record(b) BY <2>7 DEF Record
  <2>8. CASE RecordFails(b) BY <2>8 DEF RecordFails
  <2> QED BY <1>3, <2>1, <2>2, <2>3, <2>4, <2>5, <2>6, <2>7, <2>8 DEF BatchStep
<1>4. ASSUME NEW b \in Batches, RollStep(b) PROVE StageGood'
  <2>1. deleted' # {}
    <3>1. 0 \in Indexes BY SizesAssumption DEF Indexes
    <3>2. KeyOf(b, 0) \in KeysOf(b) BY <3>1 DEF KeysOf
    <3> QED BY <1>4, <3>2 DEF RollStep, RollBack, RollBackFails
  <2>2. UNCHANGED <<stage, pc, conf>> /\ stage = "rolling"
    BY <1>4 DEF RollStep, RollBack, RollBackFails, Newest
  <2> QED BY <2>1, <2>2
<1>5. ASSUME NEW q \in timed, ExpireKey(q) PROVE StageGood' BY <1>5 DEF ExpireKey
<1> QED BY <1>1, <1>2, <1>3, <1>4, <1>5, NextParts

-------------------------------------------------------------------------------
(* The keys of a batch depend on its numbers only. *)
LEMMA KeysSame ==
  ASSUME UNCHANGED conf, NEW b, base'[b] = base[b]
  PROVE  KeysOf(b)' = KeysOf(b) /\ \A i : KeyOf(b, i)' = KeyOf(b, i)
BY DEF KeysOf, KeyOf

(* A step that leaves the keys alone keeps what is known of their rows, if    *)
(* it keeps the reasons.                                                    *)
LEMMA RowsKnownSame ==
  ASSUME RowsKnown, UNCHANGED <<conf, store>>,
         \A b \in Batches : end[b] \in {"ok", "lost", "clash"} =>
           /\ base'[b] = base[b] /\ end'[b] = end[b]
           /\ \/ rec'[b] = rec[b]
              \/ rec[b] = "none" /\ (end[b] = "ok" /\ conf.capture => b \in logs'),
         \A a \in logs : a \in logs' /\ base'[a] = base[a]
  PROVE  RowsKnown'
<1> SUFFICES ASSUME NEW q \in Keys, NEW r \in store[q].rows \ {Foreign}
             PROVE  /\ r[1] \in Batches /\ q \in KeysOf(r[1])'
                    /\ end'[r[1]] \in {"ok", "lost", "clash"}
                    /\ \/ ~conf.capture \/ end'[r[1]] \in {"lost", "clash"}
                       \/ rec'[r[1]] = "none" \/ Named(q)'
  BY DEF RowsKnown
<1>1. PICK b : b = r[1] OBVIOUS
<1>2. /\ b \in Batches /\ q \in KeysOf(b) /\ end[b] \in {"ok", "lost", "clash"}
      /\ ~conf.capture \/ end[b] \in {"lost", "clash"} \/ rec[b] = "none" \/ Named(q)
  BY <1>1 DEF RowsKnown
<1>3. KeysOf(b)' = KeysOf(b) BY <1>2, KeysSame
<1>4. Named(q) => Named(q)' BY KeysSame DEF Named
<1>5. b \in logs' => Named(q)' BY <1>2, <1>3 DEF Named
<1> QED BY <1>1, <1>2, <1>3, <1>4, <1>5

(* The commands of a batch add rows of that batch only, to its own keys. *)
LEMMA CommandsFacts ==
  ASSUME NEW b \in Batches, store' = Commands(b), NEW q \in Keys
  PROVE  /\ q \notin KeysOf(b) => store'[q] = store[q]
         /\ \A r \in store'[q].rows \ store[q].rows : r[1] = b /\ q \in KeysOf(b)
<1>1. q \notin KeysOf(b) => store'[q] = store[q] BY DEF Commands
<1>2. ASSUME q \in KeysOf(b)
      PROVE  \A r \in store'[q].rows \ store[q].rows : r[1] = b
  <2>1. store'[q] = After(b, q) BY <1>2 DEF Commands
  <2> DEFINE is == {i \in Indexes : KeyOf(b, i) = q}
  <2> DEFINE last == CHOOSE i \in is : \A j \in is : j <= i
  <2>2. CASE ~Replaces /\ store[q].kind = "other" BY <2>1, <2>2 DEF After
  <2>3. CASE ~(~Replaces /\ store[q].kind = "other") /\ conf.write = "single_key"
    <3>1. \A r \in Added(b, store[q].rows) : r[1] = b
      <4> DEFINE same(i) == CHOOSE j \in Indexes : Equal(<<b, j>>, <<b, i>>)
      <4> DEFINE new == {j \in Indexes : \A r \in store[q].rows : ~Equal(r, <<b, j>>)}
      <4>1. Added(b, store[q].rows) = {<<b, same(i)>> : i \in new} BY DEF Added
      <4> HIDE DEF same, new
      <4> QED BY <4>1
    <3>2. \A r \in {<<b, i>> : i \in is} : r[1] = b OBVIOUS
    <3> HIDE DEF is, last
    <3>3. CASE conf.type = "set"
      <4>1. store'[q].rows = store[q].rows \cup Added(b, store[q].rows)
        BY <2>1, <2>3, <3>3 DEF After
      <4> QED BY <3>1, <4>1
    <3>4. CASE conf.type # "set"
      <4>1. store'[q].rows \subseteq store[q].rows \cup {<<b, i>> : i \in is}
        BY <2>1, <2>3, <3>4 DEF After, is
      <4> QED BY <3>2, <4>1
    <3> QED BY <3>3, <3>4
  <2>4. CASE ~(~Replaces /\ store[q].kind = "other") /\ conf.write # "single_key"
    <3>1. store'[q].rows \subseteq {<<b, last>>} \cup store[q].rows
      BY <2>1, <2>4 DEF After
    <3> QED BY <3>1
  <2> QED BY <2>2, <2>3, <2>4
<1> QED BY <1>1, <1>2

LEMMA RowsKnownStep == ASSUME IInv, Next PROVE RowsKnown'
<1> USE SizesAssumption DEF IInv, Shape, rollVars, lifeVars
<1>1. CASE Save \/ ExpireCounter \/ Finish \/ StartRollback \/ EndRollback
  BY <1>1, RowsKnownSame DEF Save, ExpireCounter, Finish, StartRollback, EndRollback
<1>2. ASSUME NEW b \in Batches, BatchStep(b) PROVE RowsKnown'
  <2>1. CASE StartBatch(b) \/ SeedCounter(b) \/ RecordFails(b)
    BY <2>1, RowsKnownSame DEF StartBatch, SeedCounter, RecordFails
  <2>2. CASE Reserve(b)
    <3>1. end[b] = "none" /\ b \notin logs BY <2>2 DEF Reserve, Places
    <3>2. \A a \in Batches \ {b} : base'[a] = base[a] BY <2>2 DEF Reserve
    <3> QED BY <2>2, <3>1, <3>2, RowsKnownSame DEF Reserve
  <2>3. CASE RenderFails(b)
    <3>1. end[b] = "none" BY <2>3 DEF RenderFails, Places
    <3>2. \A a \in Batches \ {b} : end'[a] = end[a] BY <2>3 DEF RenderFails, Written
    <3> QED BY <2>3, <3>1, <3>2, RowsKnownSame DEF RenderFails
  <2>4. CASE Record(b)
    <3>1. \A a \in Batches \ {b} : rec'[a] = rec[a] BY <2>4 DEF Record
    <3>2. rec[b] = "none" BY <2>4 DEF Record, Places
    <3>3. (end[b] = "ok" /\ conf.capture => b \in logs') /\ logs \subseteq logs'
      BY <2>4 DEF Record
    <3> QED BY <2>4, <3>1, <3>2, <3>3, RowsKnownSame DEF Record
  <2>5. CASE Write(b) \/ WriteFails(b)
    <3>1. /\ pc[b] \in {"seed", "incrby", "write"} /\ end[b] = "none" /\ rec[b] = "none"
          /\ UNCHANGED <<conf, base, rec, logs>>
          /\ \A a \in Batches \ {b} : end'[a] = end[a]
      BY <2>5 DEF Write, WriteFails, Written, Execute, Places
    <3>2. CASE store' = store
      BY <3>1, <3>2, RowsKnownSame
    <3>3. CASE store' = Commands(b) /\ end'[b] \in {"ok", "lost", "clash"}
      <4> SUFFICES ASSUME NEW q \in Keys, NEW r \in store'[q].rows \ {Foreign}
                   PROVE  /\ r[1] \in Batches /\ q \in KeysOf(r[1])'
                          /\ end'[r[1]] \in {"ok", "lost", "clash"}
                          /\ \/ ~conf.capture' \/ end'[r[1]] \in {"lost", "clash"}
                             \/ rec'[r[1]] = "none" \/ Named(q)'
        BY DEF RowsKnown
      <4>1. PICK a : a = r[1] OBVIOUS
      <4>2. Named(q)' = Named(q) BY <3>1, KeysSame DEF Named
      <4>3. CASE r \in store[q].rows
        <5>1. /\ a \in Batches /\ q \in KeysOf(a) /\ end[a] \in {"ok", "lost", "clash"}
              /\ ~conf.capture \/ end[a] \in {"lost", "clash"} \/ rec[a] = "none"
                   \/ Named(q)
          BY <4>1, <4>3 DEF RowsKnown
        <5>2. a # b BY <3>1, <5>1
        <5>3. KeysOf(a)' = KeysOf(a) BY <3>1, KeysSame
        <5> QED BY <3>1, <4>1, <4>2, <5>1, <5>2, <5>3
      <4>4. CASE r \notin store[q].rows
        <5>1. a = b /\ q \in KeysOf(b) BY <3>3, <4>1, <4>4, CommandsFacts
        <5>2. KeysOf(b)' = KeysOf(b) BY <3>1, KeysSame
        <5> QED BY <3>1, <3>3, <4>1, <5>1, <5>2
      <4> QED BY <4>3, <4>4
    <3>4. \/ store' = store
          \/ store' = Commands(b) /\ end'[b] \in {"ok", "lost", "clash"}
      BY <2>5 DEF Write, WriteFails, Written, Execute
    <3> QED BY <3>2, <3>3, <3>4
  <2> QED BY <1>2, <2>1, <2>2, <2>3, <2>4, <2>5 DEF BatchStep
<1>3. ASSUME NEW b \in Batches, RollBackFails(b) PROVE RowsKnown'
  BY <1>3, RowsKnownSame DEF RollBackFails
<1>4. ASSUME NEW b \in Batches, RollBack(b) PROVE RowsKnown'
  <2>1. UNCHANGED <<conf, base, end, rec>> /\ logs' = logs \ {b} /\ b \in queue
        /\ stage = "rolling"
    BY <1>4 DEF RollBack, Newest
  <2> SUFFICES ASSUME NEW q \in Keys, NEW r \in store'[q].rows \ {Foreign}
               PROVE  /\ r[1] \in Batches /\ q \in KeysOf(r[1])'
                      /\ end'[r[1]] \in {"ok", "lost", "clash"}
                      /\ \/ ~conf.capture' \/ end'[r[1]] \in {"lost", "clash"}
                         \/ rec'[r[1]] = "none" \/ Named(q)'
    BY DEF RowsKnown
  <2>2. PICK a : a = r[1] OBVIOUS
  <2>3. store'[q] = store[q] /\ q \notin KeysOf(b) \ deleted
    BY <1>4 DEF RollBack, Absent
  <2>4. /\ a \in Batches /\ q \in KeysOf(a) /\ end[a] \in {"ok", "lost", "clash"}
        /\ ~conf.capture \/ end[a] \in {"lost", "clash"} \/ rec[a] = "none" \/ Named(q)
    BY <2>2, <2>3 DEF RowsKnown
  <2>5. KeysOf(a)' = KeysOf(a) BY <2>1, KeysSame
  <2>6. Named(q) => Named(q)'
    <3> SUFFICES ASSUME Named(q) PROVE \E c \in logs' : q \in KeysOf(c)
      BY <2>1, KeysSame DEF Named
    <3>1. PICK c \in logs : q \in KeysOf(c) BY DEF Named
    <3>2. CASE c # b BY <2>1, <3>1, <3>2
    <3>3. CASE c = b
      <4>1. q \in deleted BY <2>3, <3>1, <3>3
      <4>2. \E d \in logs \ queue : q \in KeysOf(d)
        BY <2>1, <2>3, <4>1 DEF LookedAt
      <4> QED BY <2>1, <4>2
    <3> QED BY <3>2, <3>3
  <2> QED BY <2>1, <2>2, <2>4, <2>5, <2>6
<1>5. ASSUME NEW p \in timed, ExpireKey(p) PROVE RowsKnown'
  <2>1. UNCHANGED <<conf, base, end, rec, logs>> BY <1>5 DEF ExpireKey
  <2>3. \A q \in Keys : Named(q)' = Named(q) BY <2>1, KeysSame DEF Named
  <2>4. \A b \in Batches : KeysOf(b)' = KeysOf(b) BY <2>1, KeysSame
  <2>5. \A q \in Keys : store'[q].rows \subseteq store[q].rows
    <3>1. \A q \in Keys : store'[q] = Absent \/ store'[q] = store[q]
      BY <1>5 DEF ExpireKey
    <3> QED BY <3>1 DEF Absent
  <2> QED BY <2>1, <2>3, <2>4, <2>5 DEF RowsKnown
<1> QED BY <1>1, <1>2, <1>3, <1>4, <1>5, NextParts DEF RollStep

LEMMA LookedStep == ASSUME IInv, Next PROVE LookedAt'
<1> USE DEF IInv, Shape, rollVars, lifeVars
<1>1. CASE Save \/ ExpireCounter \/ Finish \/ StartRollback \/ EndRollback
  BY <1>1, KeysSame DEF Save, ExpireCounter, Finish, StartRollback, EndRollback, LookedAt
<1>2. ASSUME NEW b \in Batches, BatchStep(b) PROVE LookedAt'
  <2>1. stage' # "rolling"
    BY <1>2 DEF BatchStep, StartBatch, SeedCounter, Reserve, RenderFails, Write,
       WriteFails, Record, RecordFails, StageGood, Active
  <2> QED BY <2>1 DEF LookedAt
<1>3. ASSUME NEW b \in Batches, RollStep(b) PROVE LookedAt'
  <2>1. /\ UNCHANGED <<conf, base>> /\ stage = "rolling" /\ b \in queue
        /\ queue' = queue \ {b} /\ deleted' = deleted \cup KeysOf(b)
    BY <1>3 DEF RollStep, RollBack, RollBackFails, Newest
  <2> SUFFICES ASSUME NEW q \in deleted' \cap Keys
               PROVE  store'[q].rows = {} \/ \E a \in logs' \ queue' : q \in KeysOf(a)
    BY <2>1, KeysSame DEF LookedAt
  <2>2. CASE RollBack(b)
    <3>1. logs' \ queue' = logs \ queue BY <2>1, <2>2 DEF RollBack
    <3>2. CASE q \in deleted
      <4>1. store'[q] = store[q] BY <2>2, <3>2 DEF RollBack
      <4> QED BY <2>1, <3>1, <3>2, <4>1 DEF LookedAt
    <3>3. CASE q \notin deleted
      BY <2>1, <2>2, <3>3 DEF RollBack, Absent
    <3> QED BY <3>2, <3>3
  <2>3. CASE RollBackFails(b)
    <3>1. UNCHANGED <<store, logs>> /\ b \in logs' \ queue'
      BY <2>1, <2>3 DEF RollBackFails
    <3> QED BY <2>1, <3>1 DEF LookedAt
  <2> QED BY <1>3, <2>2, <2>3 DEF RollStep
<1>4. ASSUME NEW p \in timed, ExpireKey(p) PROVE LookedAt'
  <2>1. UNCHANGED <<conf, base, stage, logs, queue, deleted>> BY <1>4 DEF ExpireKey
  <2>2. \A b \in logs : KeysOf(b)' = KeysOf(b) BY <2>1, KeysSame
  <2>3. \A q \in Keys : store[q].rows = {} => store'[q].rows = {}
    <3>1. \A q \in Keys : store'[q] = Absent \/ store'[q] = store[q]
      BY <1>4 DEF ExpireKey
    <3> QED BY <3>1 DEF Absent
  <2> QED BY <2>1, <2>2, <2>3 DEF LookedAt
<1> QED BY <1>1, <1>2, <1>3, <1>4, NextParts

-------------------------------------------------------------------------------
(* As many batches have numbers as there are, at most. *)
LEMMA ReservedFinite ==
  /\ IsFiniteSet(Reserved) /\ Cardinality(Reserved) \in Nat
  /\ Cardinality(Reserved) <= NB
  /\ \A b \in Batches \ Reserved : Cardinality(Reserved \cup {b}) = Cardinality(Reserved) + 1
  /\ Reserved # {} => Cardinality(Reserved) >= 1
<1>1. IsFiniteSet(Batches) /\ Cardinality(Batches) = NB
  BY SizesAssumption, FS_Interval DEF Batches
<1>2. Reserved \in SUBSET Batches BY DEF Reserved
<1>3. IsFiniteSet(Reserved) /\ Cardinality(Reserved) <= NB BY <1>1, <1>2, FS_Subset
<1>4. Cardinality(Reserved) \in Nat BY <1>3, FS_CardinalityType
<1>5. \A b \in Batches \ Reserved : Cardinality(Reserved \cup {b}) = Cardinality(Reserved) + 1
  BY <1>3, FS_AddElement
<1>6. Reserved # {} => Cardinality(Reserved) # 0 BY <1>3, FS_EmptySet
<1> QED BY <1>3, <1>4, <1>5, <1>6

(* Multiples of the size of a batch. *)
LEMMA Multiples ==
  ASSUME NEW n \in Nat
  PROVE  /\ Size * n \in Nat
         /\ Size * (n + 1) = Size * n + Size
         /\ \A m \in Nat : m <= n => Size * m <= Size * n
<1>1. Size \in Nat BY SizesAssumption
<1>2. Size * n \in Nat BY <1>1
<1>3. Size * (n + 1) = Size * n + Size BY <1>1
<1>4. ASSUME NEW m \in Nat, m <= n PROVE Size * m <= Size * n BY <1>1, <1>4
<1> QED BY <1>2, <1>3, <1>4

(* The next number is where the last range ends. *)
LEMMA NextNumber ==
  /\ FirstNumber \in Nat /\ Next0 \in Nat
  /\ FirstNumber <= Next0 /\ Next0 <= First + Size * NB
  /\ conf.token = "incr" => Next0 >= 1
<1>1. FirstNumber \in Nat /\ FirstNumber <= First /\ (conf.token = "incr" => FirstNumber >= 1)
  BY SizesAssumption DEF FirstNumber
<1>2. Size * Cardinality(Reserved) \in Nat /\ Size * Cardinality(Reserved) <= Size * NB
  BY ReservedFinite, Multiples, SizesAssumption
<1>3. Size * NB \in Nat BY Multiples, SizesAssumption
<1> QED BY <1>1, <1>2, <1>3, SizesAssumption DEF Next0

LEMMA CounterStep == ASSUME IInv, Next PROVE CounterGood'
<1> USE SizesAssumption DEF IInv, Shape, rollVars, lifeVars
<1>1. ASSUME UNCHANGED <<conf, base, ctr, expired>>,
             \A b \in Batches : pc'[b] = "incrby" => pc[b] = "incrby"
      PROVE  CounterGood'
  <2>1. Reserved' = Reserved BY <1>1 DEF Reserved
  <2>2. Next0' = Next0 /\ FirstNumber' = FirstNumber
    BY <1>1, <2>1 DEF Next0, FirstNumber
  <2>3. Handed' = Handed /\ \A b \in Reserved : Numbers(b)' = Numbers(b)
    BY <1>1, <2>1 DEF Handed, Numbers
  <2> QED BY <1>1, <2>1, <2>2, <2>3 DEF CounterGood
<1>2. CASE Save \/ Finish \/ StartRollback \/ EndRollback
  BY <1>1, <1>2 DEF Save, Finish, StartRollback, EndRollback
<1>3. CASE ExpireCounter BY <1>3 DEF ExpireCounter, CounterGood
<1>4. ASSUME NEW b \in Batches, RollStep(b) PROVE CounterGood'
  BY <1>1, <1>4 DEF RollStep, RollBack, RollBackFails
<1>5. ASSUME NEW b \in Batches, BatchStep(b) PROVE CounterGood'
  <2>1. CASE \/ RenderFails(b) \/ Write(b) \/ WriteFails(b) \/ Record(b)
            \/ RecordFails(b)
    BY <1>1, <2>1 DEF RenderFails, Write, WriteFails, Written, Record, RecordFails
  <2>2. CASE StartBatch(b) /\ conf.token # "alias"
    BY <1>1, <2>2 DEF StartBatch
  <2>3. CASE (StartBatch(b) /\ conf.token = "alias") \/ SeedCounter(b)
    <3>1. Reserved' = Reserved
      BY <2>3 DEF StartBatch, SeedCounter, Reserved
    <3>2. Next0' = Next0 /\ FirstNumber' = FirstNumber
      BY <2>3, <3>1 DEF Next0, FirstNumber, StartBatch, SeedCounter
    <3>3. Handed' = Handed /\ \A a \in Reserved : Numbers(a)' = Numbers(a)
      BY <2>3, <3>1 DEF Handed, Numbers, StartBatch, SeedCounter
    <3>4. CASE StartBatch(b) /\ conf.token = "alias"
      BY <3>1, <3>2, <3>3, <3>4 DEF CounterGood, StartBatch
    <3>5. CASE SeedCounter(b)
      <4>1. conf.token = "incr" BY <3>5 DEF SeedCounter, Places
      <4>2. ~expired /\ ctr = -1 => ctr' = Next0 - 1
        <5> SUFFICES ASSUME ~expired, ctr = -1 PROVE ctr' = Next0 - 1 OBVIOUS
        <5>1. Reserved = {} BY DEF CounterGood
        <5>2. Cardinality(Reserved) = 0 BY <5>1, FS_EmptySet
        <5>3. Next0 = First BY <4>1, <5>2 DEF Next0, FirstNumber
        <5> QED BY <3>5, <5>3 DEF SeedCounter
      <4>3. ctr' # -1 /\ (ctr # -1 => ctr' = ctr) BY <3>5 DEF SeedCounter
      <4> QED BY <3>1, <3>2, <3>3, <3>5, <4>1, <4>2, <4>3 DEF CounterGood, SeedCounter
    <3> QED BY <2>3, <3>4, <3>5
  <2>4. CASE Reserve(b)
    <3> SUFFICES ASSUME ~expired PROVE CounterGood'
      BY <2>4 DEF CounterGood, Reserve
    <3> DEFINE n == Cardinality(Reserved)
    <3>1. b \in Batches \ Reserved BY <2>4 DEF Reserve, Places, Reserved
    <3>2. conf.token = "incr" => ctr # -1 BY <2>4 DEF Reserve, CounterGood
    <3>3. Next0 \in Nat BY NextNumber
    <3>4. base'[b] = Next0 /\ ctr' = (IF conf.token = "incr" THEN Next0 - 1 ELSE Next0) + Size
      <4>1. ctr = -1 => Next0 = 0
        <5> SUFFICES ASSUME ctr = -1 PROVE Next0 = 0 OBVIOUS
        <5>1. Cardinality(Reserved) = 0 BY FS_EmptySet DEF CounterGood
        <5>2. FirstNumber = 0 BY <3>2 DEF FirstNumber
        <5> QED BY <5>1, <5>2 DEF Next0
      <4>2. CASE conf.token = "incr"
        <5>1. ctr = Next0 - 1 BY <3>2, <4>2 DEF CounterGood
        <5> QED BY <2>4, <3>2, <3>3, <4>2, <5>1 DEF Reserve
      <4>3. CASE conf.token # "incr"
        <5>1. (IF ctr = -1 THEN 0 ELSE ctr) = Next0 BY <4>1, <4>3 DEF CounterGood
        <5> QED BY <2>4, <3>3, <4>3, <5>1 DEF Reserve
      <4> QED BY <4>2, <4>3
    <3>5. base' = [base EXCEPT ![b] = Next0] BY <2>4, <3>4 DEF Reserve
    <3>6. Reserved' = Reserved \cup {b} BY <3>1, <3>3, <3>5 DEF Reserved
    <3>7. Cardinality(Reserved') = n + 1 BY <3>1, <3>6, ReservedFinite
    <3>8. FirstNumber' = FirstNumber BY <2>4 DEF Reserve, FirstNumber
    <3>9. Next0' = Next0 + Size
      <4>1. Size * (n + 1) = Size * n + Size /\ Size * n \in Nat
        BY ReservedFinite, Multiples
      <4>2. Next0' = FirstNumber + Size * (n + 1) BY <3>7, <3>8 DEF Next0
      <4> QED BY <4>1, <4>2, NextNumber DEF Next0
    <3>10. /\ \A a \in Reserved : Numbers(a)' = Numbers(a)
           /\ Numbers(b)' = Next0..(Next0 + Size - 1)
      BY <3>1, <3>5 DEF Numbers, Reserved
    <3>11. Handed' = FirstNumber..(Next0' - 1)
      <4>1. Handed' = Handed \cup Numbers(b)'
        BY <3>6, <3>10 DEF Handed
      <4>2. Handed = FirstNumber..(Next0 - 1) BY DEF CounterGood
      <4> QED BY <3>9, <3>10, <4>1, <4>2, NextNumber
    <3>12. \A a \in Reserved : Numbers(a)' \cap Numbers(b)' = {}
      <4> SUFFICES ASSUME NEW a \in Reserved PROVE Numbers(a)' \cap Numbers(b)' = {}
        OBVIOUS
      <4>1. Numbers(a) \subseteq FirstNumber..(Next0 - 1) BY DEF CounterGood, Handed
      <4> QED BY <3>10, <4>1, NextNumber
    <3>13. \A a, c \in Reserved' : a # c => Numbers(a)' \cap Numbers(c)' = {}
      BY <3>6, <3>10, <3>12 DEF CounterGood
    <3>14. ctr' = (IF conf.token = "incr" THEN Next0' - 1 ELSE Next0') /\ ctr' # -1
      BY <3>3, <3>4, <3>9
    <3>15. UNCHANGED conf BY <2>4 DEF Reserve
    <3> QED BY <3>8, <3>11, <3>13, <3>14, <3>15 DEF CounterGood
  <2> QED BY <1>5, <2>1, <2>2, <2>3, <2>4 DEF BatchStep
<1>6. ASSUME NEW q \in timed, ExpireKey(q) PROVE CounterGood'
  BY <1>1, <1>6 DEF ExpireKey
<1> QED BY <1>2, <1>3, <1>4, <1>5, <1>6, NextParts

-------------------------------------------------------------------------------
Quiet == stage \in {"draft", "rejected", "running", "failed", "ended"} /\ deleted = {}

(* A step that leaves the keys alone keeps the rows. *)
LEMMA RowsStaySame ==
  ASSUME RowsStay, UNCHANGED <<conf, store, lapsed>>, Quiet' => Quiet,
         expired => expired',
         \A b \in Batches : end'[b] = "ok" => end[b] = "ok" /\ base'[b] = base[b]
  PROVE  RowsStay'
<1> SUFFICES ASSUME Quiet', ~expired', Keeps', NEW b \in Batches, NEW i \in Indexes,
                    end'[b] = "ok"
             PROVE  <<b, i>> \in lapsed' \/ Held(b, i)'
  BY DEF RowsStay, Quiet
<1>1. KeyOf(b, i)' = KeyOf(b, i) BY KeysSame
<1>2. Quiet /\ ~expired /\ Keeps BY DEF Keeps, Numbered
<1>3. Held(b, i)' = Held(b, i) BY <1>1 DEF Held, Equal
<1> QED BY <1>2, <1>3 DEF RowsStay, Quiet

(* The batches of a valid configuration that keeps its rows write to keys   *)
(* that exist; no two rows share one, or the one key grows.                 *)
LEMMA KeysApart ==
  ASSUME Shape, CounterGood, Valid, ~expired, Keeps,
         NEW b \in Batches, Numbered => b \in Reserved, NEW i \in Indexes
  PROVE  /\ KeyOf(b, i) \in Keys
         /\ \/ conf.write = "single_key"
            \/ \A a \in Batches, j \in Indexes :
                 KeyOf(a, j) = KeyOf(b, i) /\ (Numbered => a \in Reserved)
                   => a = b /\ j = i
<1> USE SizesAssumption
<1>1. CASE conf.write = "single_key"
  BY <1>1 DEF Valid, KeyOf, Keys
<1>2. CASE conf.write # "single_key" /\ Numbered
  <2>1. \A a \in Reserved, j \in Indexes : base[a] \in Nat /\ base[a] + j \in Numbers(a)
    BY DEF Shape, Reserved, Numbers, Indexes
  <2>2. base[b] + i \in FirstNumber..(Next0 - 1)
    BY <1>2, <2>1 DEF CounterGood, Handed
  <2>3. base[b] + i \in 0..(First + NB * Size)
    <3>1. Size * NB = NB * Size /\ Size * NB \in Nat BY Multiples
    <3> QED BY <2>2, <3>1, NextNumber
  <2>4. \A a \in Batches, j \in Indexes : KeyOf(a, j) = <<"num", base[a] + j>>
    BY <1>2 DEF KeyOf, Numbered
  <2>5. KeyOf(b, i) \in Keys BY <2>3, <2>4 DEF Keys
  <2>6. ASSUME NEW a \in Reserved, NEW j \in Indexes, KeyOf(a, j) = KeyOf(b, i)
        PROVE  a = b /\ j = i
    <3>1. base[a] + j = base[b] + i BY <2>4, <2>6 DEF Reserved
    <3>2. a = b BY <1>2, <2>1, <3>1 DEF CounterGood
    <3> QED BY <1>2, <2>1, <3>1, <3>2 DEF Indexes
  <2> QED BY <1>2, <2>5, <2>6
<1>3. CASE conf.write # "single_key" /\ ~Numbered
  <2>1. conf.token = "own" BY <1>3 DEF Keeps
  <2>2. \A a \in Batches, j \in Indexes : KeyOf(a, j) = <<"own", (a - 1) * Size + j>>
    BY <2>1 DEF KeyOf
  <2>3. \A a, c \in Batches : a < c => (a - 1) * Size + Size <= (c - 1) * Size
    <3> SUFFICES ASSUME NEW a \in Batches, NEW c \in Batches, a < c
                 PROVE  (a - 1) * Size + Size <= (c - 1) * Size
      OBVIOUS
    <3>1. a - 1 \in Nat /\ a \in Nat /\ c - 1 \in Nat /\ a <= c - 1 BY DEF Batches
    <3>2. Size * ((a - 1) + 1) = Size * (a - 1) + Size BY <3>1, Multiples
    <3>3. Size * a <= Size * (c - 1) BY <3>1, Multiples
    <3>4. (a - 1) + 1 = a BY <3>1
    <3>5. Size * (a - 1) = (a - 1) * Size /\ Size * (c - 1) = (c - 1) * Size BY <3>1
    <3> QED BY <3>2, <3>3, <3>4, <3>5
  <2>4. \A a \in Batches : (a - 1) * Size \in Nat /\ (a - 1) * Size + Size <= NB * Size
    <3> SUFFICES ASSUME NEW a \in Batches
                 PROVE  (a - 1) * Size \in Nat /\ (a - 1) * Size + Size <= NB * Size
      OBVIOUS
    <3>1. a - 1 \in Nat /\ a \in Nat /\ a <= NB BY DEF Batches
    <3>2. Size * ((a - 1) + 1) = Size * (a - 1) + Size /\ Size * (a - 1) \in Nat
      BY <3>1, Multiples
    <3>3. Size * a <= Size * NB BY <3>1, Multiples
    <3>4. (a - 1) + 1 = a BY <3>1
    <3>5. Size * (a - 1) = (a - 1) * Size /\ Size * NB = NB * Size BY <3>1
    <3> QED BY <3>2, <3>3, <3>4, <3>5
  <2>5. i \in Nat /\ i < Size BY DEF Indexes
  <2>6. KeyOf(b, i) \in Keys
    <3>1. (b - 1) * Size + i \in 0..NB * Size BY <2>4, <2>5, Multiples
    <3> QED BY <2>2, <3>1 DEF Keys
  <2>7. ASSUME NEW a \in Batches, NEW j \in Indexes, KeyOf(a, j) = KeyOf(b, i)
        PROVE  a = b /\ j = i
    <3>1. (a - 1) * Size + j = (b - 1) * Size + i BY <2>2, <2>7
    <3>2. j \in Nat /\ j < Size BY DEF Indexes
    <3>3. ~(a < b) BY <2>3, <2>4, <2>5, <3>1, <3>2
    <3>4. ~(b < a) BY <2>3, <2>4, <2>5, <3>1, <3>2
    <3>5. a = b BY <3>3, <3>4 DEF Batches
    <3> QED BY <2>4, <2>5, <3>1, <3>2, <3>5
  <2> QED BY <2>6, <2>7
<1> QED BY <1>1, <1>2, <1>3

(* Each row of a batch is in the set after SADD, or one that it equals. *)
LEMMA AddedFacts ==
  ASSUME NEW b, NEW i \in Indexes, NEW old
  PROVE  \E x \in old \cup Added(b, old) : Equal(x, <<b, i>>)
<1> DEFINE n == CHOOSE j \in Indexes : Equal(<<b, j>>, <<b, i>>)
<1>1. Equal(<<b, i>>, <<b, i>>) BY DEF Equal
<1>2. n \in Indexes /\ Equal(<<b, n>>, <<b, i>>) BY <1>1
<1>3. CASE \A x \in old : ~Equal(x, <<b, i>>)
  <2>1. <<b, n>> \in Added(b, old) BY <1>3 DEF Added
  <2> QED BY <1>2, <2>1
<1> QED BY <1>3

(* A batch that is written without a clash adds its rows and keeps those of *)
(* the others.                                                              *)
LEMMA WriteKeeps ==
  ASSUME IInv, NEW b \in Batches, pc[b] = "write", store' = Commands(b),
         UNCHANGED <<conf, base, expired, stage, deleted, lapsed>>,
         \A a \in Batches \ {b} : end'[a] = end[a],
         end'[b] = "ok" => ~Clashes(b)
  PROVE  RowsStay'
<1> USE SizesAssumption DEF IInv
<1> SUFFICES ASSUME Quiet', ~expired', Keeps', NEW a \in Batches, NEW i \in Indexes,
                    end'[a] = "ok"
             PROVE  <<a, i>> \in lapsed' \/ Held(a, i)'
  BY DEF RowsStay, Quiet
<1>1. KeyOf(a, i)' = KeyOf(a, i) BY KeysSame
<1>2. Quiet /\ ~expired /\ Keeps BY DEF Keeps, Numbered, Quiet
<1>3. Valid BY DEF StageGood
<1>4. Numbered => b \in Reserved BY DEF Places, Reserved
<1>5. Numbered => a \in Reserved
  <2>1. CASE a = b BY <1>4, <2>1
  <2>2. CASE a # b
    <3>1. end[a] = "ok" BY <2>2
    <3> QED BY <3>1 DEF Places, Reserved
  <2> QED BY <2>1, <2>2
<1> DEFINE q == KeyOf(a, i)
<1>0. (\E x \in store'[q].rows : Equal(x, <<a, i>>)) => Held(a, i)'
  BY <1>1 DEF Held, Equal
<1>20. \A x : Equal(x, x) BY DEF Equal
<1>6. q \in Keys BY <1>2, <1>3, <1>5, KeysApart
<1>7. q \in KeysOf(b) => store'[q] = After(b, q) BY <1>6 DEF Commands
<1>8. q \notin KeysOf(b) => store'[q] = store[q] BY <1>6 DEF Commands
<1>9. CASE a = b
  <2>1. q \in KeysOf(b) BY <1>9 DEF KeysOf
  <2>2. ~(~Replaces /\ store[q].kind = "other") BY <1>9, <2>1 DEF Clashes
  <2>3. CASE conf.write = "single_key"
    <3>2. CASE conf.type # "set"
      <4>1. <<b, i>> \in After(b, q).rows BY <1>9, <2>2, <2>3, <3>2 DEF After
      <4> QED BY <1>0, <1>20, <1>7, <1>9, <2>1, <4>1
    <3>3. CASE conf.type = "set"
      <4>1. After(b, q).rows = store[q].rows \cup Added(b, store[q].rows)
        BY <2>2, <2>3, <3>3 DEF After
      <4>2. \E x \in store[q].rows \cup Added(b, store[q].rows) : Equal(x, <<b, i>>)
        BY AddedFacts
      <4> QED BY <1>0, <1>7, <1>9, <2>1, <4>1, <4>2
    <3> QED BY <3>2, <3>3
  <2>4. CASE conf.write # "single_key"
    <3>1. {j \in Indexes : KeyOf(b, j) = q} = {i}
      BY <1>2, <1>3, <1>4, <1>9, <2>4, KeysApart
    <3>2. (CHOOSE k \in {i} : \A j \in {i} : j <= k) = i BY DEF Indexes
    <3>3. <<b, i>> \in After(b, q).rows
      BY <2>2, <2>4, <3>1, <3>2 DEF After
    <3> QED BY <1>0, <1>20, <1>7, <1>9, <2>1, <3>3
  <2> QED BY <2>3, <2>4
<1>10. CASE a # b
  <2>1. <<a, i>> \in lapsed \/ Held(a, i)
    BY <1>2, <1>10 DEF RowsStay, Quiet
  <2>2. CASE <<a, i>> \in lapsed BY <2>2
  <2>3. CASE Held(a, i)
    <3>1. PICK x \in store[q].rows : Equal(x, <<a, i>>) BY <2>3 DEF Held
    <3>2. CASE q \notin KeysOf(b) BY <1>0, <1>8, <3>1, <3>2
    <3>3. CASE q \in KeysOf(b)
      <4>1. conf.write = "single_key"
        <5>1. PICK j \in Indexes : KeyOf(b, j) = KeyOf(a, i) BY <3>3 DEF KeysOf
        <5> QED BY <1>2, <1>3, <1>4, <1>5, <1>10, <5>1, KeysApart
      <4>2. <<a, i>> # Foreign BY DEF Foreign, Batches
      <4>3. x # Foreign BY <3>1, <4>2 DEF Equal
      <4>4. x \in After(b, q).rows BY <3>1, <4>1, <4>3 DEF After
      <4> QED BY <1>0, <1>7, <3>1, <3>3, <4>4
    <3> QED BY <3>2, <3>3
  <2> QED BY <2>1, <2>2, <2>3
<1> QED BY <1>9, <1>10

LEMMA RowsStayStep == ASSUME IInv, Next PROVE RowsStay'
<1> USE DEF IInv, Shape, rollVars, lifeVars
<1>1. CASE Save \/ ExpireCounter \/ Finish \/ StartRollback
  BY <1>1, RowsStaySame DEF Save, ExpireCounter, Finish, StartRollback, Quiet
<1>2. CASE EndRollback
  <2>1. ~Quiet' BY <1>2 DEF EndRollback, Quiet, StageGood
  <2> QED BY <2>1 DEF RowsStay, Quiet
<1>3. ASSUME NEW b \in Batches, RollStep(b) PROVE RowsStay'
  <2>1. ~Quiet' BY <1>3 DEF RollStep, RollBack, RollBackFails, Newest, Quiet
  <2> QED BY <2>1 DEF RowsStay, Quiet
<1>4. ASSUME NEW b \in Batches, BatchStep(b) PROVE RowsStay'
  <2>1. CASE StartBatch(b) \/ SeedCounter(b) \/ Record(b) \/ RecordFails(b)
    BY <2>1, RowsStaySame DEF StartBatch, SeedCounter, Record, RecordFails, Quiet
  <2>2. CASE Reserve(b)
    <3>1. end[b] # "ok" BY <2>2 DEF Reserve, Places
    <3> QED BY <2>2, <3>1, RowsStaySame DEF Reserve, Quiet
  <2>3. CASE RenderFails(b)
    BY <2>3, RowsStaySame DEF RenderFails, Written, Quiet
  <2>4. CASE Write(b)
    BY <2>4, WriteKeeps DEF Write, Written, Execute
  <2>5. CASE WriteFails(b)
    <3>1. end'[b] # "ok" /\ \A a \in Batches \ {b} : end'[a] = end[a]
      BY <2>5 DEF WriteFails, Written
    <3>2. CASE store' = store
      BY <2>5, <3>1, <3>2, RowsStaySame DEF WriteFails, Execute, lifeVars, Quiet
    <3>3. CASE pc[b] = "write" /\ store' = Commands(b)
      BY <2>5, <3>1, <3>3, WriteKeeps DEF WriteFails, Execute, lifeVars
    <3> QED BY <2>5, <3>2, <3>3 DEF WriteFails, Execute
  <2> QED BY <1>4, <2>1, <2>2, <2>3, <2>4, <2>5 DEF BatchStep
<1>5. ASSUME NEW q \in timed, ExpireKey(q) PROVE RowsStay'
  <2>1. /\ UNCHANGED <<conf, base, end, stage, expired, deleted>>
        /\ store' = [store EXCEPT ![q] = Absent] /\ lapsed \subseteq lapsed'
    BY <1>5 DEF ExpireKey
  <2> SUFFICES ASSUME Quiet', ~expired', Keeps', NEW b \in Batches, NEW i \in Indexes,
                      end'[b] = "ok"
               PROVE  <<b, i>> \in lapsed' \/ Held(b, i)'
    BY DEF RowsStay, Quiet
  <2>2. <<b, i>> \in lapsed \/ Held(b, i)
    BY <2>1 DEF RowsStay, Quiet, Keeps, Numbered
  <2>3. KeyOf(b, i)' = KeyOf(b, i) BY <2>1, KeysSame
  <2>4. CASE KeyOf(b, i) = q
    <3>1. <<b, i>> \in Rows BY DEF Rows
    <3>2. <<b, i>> \in lapsed' BY <1>5, <2>1, <2>4, <3>1 DEF ExpireKey
    <3> QED BY <3>2
  <2>5. CASE KeyOf(b, i) # q
    <3>1. store'[KeyOf(b, i)] = store[KeyOf(b, i)] BY <2>1, <2>5
    <3>2. Held(b, i) => Held(b, i)' BY <2>1, <2>3, <3>1 DEF Held, Equal
    <3> QED BY <2>1, <2>2, <3>2
  <2> QED BY <2>4, <2>5
<1> QED BY <1>1, <1>2, <1>3, <1>4, <1>5, NextParts

-------------------------------------------------------------------------------
LEMMA IInit == Init => IInv
<1> SUFFICES ASSUME Init PROVE IInv OBVIOUS
<1> USE SizesAssumption
<1>1. Shape BY DEF Init, Shape, Steps, Ends
<1>2. Places BY DEF Init, Places
<1>3. StageGood BY DEF Init, StageGood, Active
<1>4. RowsKnown
  <2>1. \A q \in Keys : store[q].rows \subseteq {Foreign} BY DEF Init, Absent
  <2> QED BY <2>1 DEF RowsKnown
<1>5. LookedAt BY DEF Init, LookedAt
<1>6. CounterGood
  <2>1. Reserved = {} BY DEF Init, Reserved
  <2>2. Handed = {} BY <2>1 DEF Handed
  <2>3. Next0 = FirstNumber BY <2>1, NextNumber, FS_EmptySet DEF Next0
  <2>4. FirstNumber..(Next0 - 1) = {} BY <2>3, NextNumber
  <2> QED BY <2>1, <2>2, <2>4 DEF Init, CounterGood
<1>7. RowsStay BY DEF Init, RowsStay
<1> QED BY <1>1, <1>2, <1>3, <1>4, <1>5, <1>6, <1>7 DEF IInv

LEMMA IInvNext == IInv /\ [Next]_vars => IInv'
<1>1. ASSUME IInv, Next PROVE IInv'
  BY <1>1, ShapeStep, PlacesStep, StageStep, RowsKnownStep, LookedStep, CounterStep,
     RowsStayStep DEF IInv
<1>2. ASSUME IInv, UNCHANGED vars PROVE IInv'
  <2> USE <1>2 DEF vars, rollVars, lifeVars, IInv
  <2>1. Shape' /\ Places' /\ StageGood'
    BY DEF Shape, Places, Numbered, StageGood, Active, Valid
  <2>2. \A b \in Batches : KeysOf(b)' = KeysOf(b) BY KeysSame
  <2>3. RowsKnown' BY RowsKnownSame DEF Shape
  <2>4. LookedAt' BY <2>2 DEF LookedAt, Shape
  <2>5. CounterGood' BY DEF CounterGood, Handed, Numbers, Next0, FirstNumber, Reserved
  <2>6. RowsStay' BY RowsStaySame DEF Quiet
  <2> QED BY <2>1, <2>3, <2>4, <2>5, <2>6
<1> QED BY <1>1, <1>2

LEMMA Invariance == Spec => []IInv
BY IInit, IInvNext, PTL DEF Spec

-------------------------------------------------------------------------------
(* Whatever the threads do, the numbers of the batches are disjoint and     *)
(* follow on from the first one while the counter lives                     *)
(* (_reserve_incr_base, prefetch_incr_range).                               *)
THEOREM NumbersFollow == Spec => []NumbersFollowOn
<1>1. IInv => NumbersFollowOn
  <2> SUFFICES ASSUME IInv, ~expired
               PROVE  UNION {Numbers(b) : b \in Reserved}
                        = FirstNumber..(FirstNumber + Size * Cardinality(Reserved) - 1)
    BY DEF NumbersFollowOn, FirstNumber
  <2>1. Handed = FirstNumber..(Next0 - 1) BY DEF IInv, CounterGood
  <2>2. FirstNumber + Size * Cardinality(Reserved) - 1 = Next0 - 1
    BY NextNumber, ReservedFinite, Multiples DEF Next0
  <2> QED BY <2>1, <2>2 DEF Handed
<1> QED BY <1>1, Invariance, PTL

(* A batch that was counted as written keeps its rows, or elements equal to *)
(* them in a set, as long as their key lives: no other overwrites them      *)
(* (_RedisBatchWriter).                                                     *)
THEOREM RowsAreKept == Spec => []RowsKept
<1>1. IInv => RowsKept
  <2> SUFFICES ASSUME IInv, stage \in {"running", "failed", "ended"}, deleted = {},
                      ~expired, Keeps, NEW b \in Recorded("ok"), NEW i \in Indexes
               PROVE  <<b, i>> \in lapsed \/ Held(b, i)
    BY DEF RowsKept, Keeps, Numbered
  <2>1. b \in Batches /\ end[b] = "ok" BY DEF Recorded, IInv, Places
  <2> QED BY <2>1 DEF IInv, RowsStay
<1> QED BY <1>1, Invariance, PTL

(* What a rollback that succeeded left behind is of batches that were       *)
(* recorded as failed, or not at all, or whose keys were too many to        *)
(* capture (_record_batch_result, _rollback_redis_log).                     *)
THEOREM LeftoversAreExplained == Spec => []LeftoversExplained
<1>1. IInv => LeftoversExplained
  <2> SUFFICES ASSUME IInv, stage = "rolled", NEW q \in Keys,
                      NEW r \in store[q].rows \ {Foreign}
               PROVE  \/ ~conf.capture \/ end[r[1]] \in {"lost", "clash"}
                      \/ rec[r[1]] = "none"
    BY DEF LeftoversExplained
  <2>1. ~Named(q) BY DEF IInv, StageGood, Named
  <2> QED BY <2>1 DEF IInv, RowsKnown
<1> QED BY <1>1, Invariance, PTL
===============================================================================
