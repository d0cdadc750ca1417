------------------------------ MODULE Generation ------------------------------
(***************************************************************************)
(* From the configuration of a case to rows: what is checked when it is    *)
(* saved (services/engine_service.py, validate_case_config), what is       *)
(* checked and inferred when a worker prepares a task                      *)
(* (engine/executor.py, _prepare_context), the insert order                *)
(* (engine/dep_analyzer.py) and the values of a batch, table by table      *)
(* (_execute_batch, engine/data_generator.py, derived_strategies.py).      *)
(*                                                                         *)
(* The rows of one batch of a table have the same shape: one row stands    *)
(* for all of them.  A value is the place it was first made at: <<table,   *)
(* column, k>> with k the attempt, or the batch for a driving value.       *)
(* Batches run one after the other (BatchRun has their concurrency).       *)
(* Tables of other data sources differ in their engine only.               *)
(***************************************************************************)
EXTENDS Integers, Sequences, FiniteSets, Functions

CONSTANTS Tables,    \* tables known to the data source
          Main,      \* main table of the case
          Cols,      \* Cols[t]: columns of t
          TypeGroup, \* TypeGroup[c]: compatibility group of the type of c
          AutoInc,   \* <<t, c>>: auto-increment columns
          Configs,   \* configurations a client may send
          NB,        \* batches of the task
          MaxFaults, \* bound on inserts that fail for good
          None

VARIABLES conf,    \* the configuration
          synced,  \* tables with columns in df_column_cache
          stage,
          order,   \* insert_order
          k,       \* attempts at a batch so far; NB first ones, then retries
          todo,    \* tables the attempt has yet to insert
          made,    \* rows generated by the attempt
          content, \* rows in the target database, tagged with their attempt
          result,  \* latest log of a table in a batch
          faults

vars == <<conf, synced, stage, order, k, todo, made, content, result, faults>>

(* An attempt that raises, because a sample found no row ("starved") or a  *)
(* call of MySQL or Redis failed ("raised"), ends the run, and the         *)
(* behaviour here.                                                         *)
Stages == {"draft", "rejected", "saved", "broken", "ready", "batch", "starved",
           "raised", "done"}
Results == {"none", "ok", "refused", "failed", "skipped"}

(* "PLAIN" is every strategy that needs nothing but its valid parameters;  *)
(* "LATE" passes validate and raises when it generates (a UUID in a column *)
(* that is too short); "BAD" does not pass validate.                       *)
Strategies == {"PLAIN", "LATE", "BAD", "SKIP", "DERIVED", "ITERATE"}

Columns == UNION {Cols[t] : t \in Tables}

Plain == [strat |-> "PLAIN", src |-> None]

(* A client may name any table and any column anybody knows. *)
Association == [st : Tables, sc : Columns, dt : Tables, dc : Columns]

ASSUME BoundsAssumption == NB \in Nat \ {0} /\ MaxFaults \in Nat /\ Main \in Tables

ASSUME ConfigsAssumption ==
  \A f \in Configs :
    /\ f.assocs \in Seq(Association)
    /\ DOMAIN f.main \subseteq Columns
    /\ \A t \in DOMAIN f.related : DOMAIN f.related[t] \subseteq Columns

Assocs == Range(conf.assocs)

With(fields, s) == {c \in DOMAIN fields : fields[c].strat = s}

-------------------------------------------------------------------------------
(* dep_analyzer.build_insert_order *)

(* What s has at the positions ps, and what of s is in S, in the order of s. *)
Pick(s, ps) ==
  [n \in 1..Cardinality(ps) |->
     s[CHOOSE i \in ps : Cardinality({j \in ps : j <= i}) = n]]

Filter(s, S) == Pick(s, {i \in DOMAIN s : s[i] \in S})

(* The main table, then the source and the target of each association. *)
Names(links) ==
  [i \in 1..(2 * Len(links) + 1) |->
     IF i = 1 THEN Main
     ELSE IF i % 2 = 0 THEN links[i \div 2].st ELSE links[i \div 2].dt]

(* Tables in the order the associations mention them, the main one first. *)
Mentioned(links) ==
  LET names == Names(links)
  IN Pick(names, {i \in DOMAIN names : \A j \in 1..(i - 1) : names[j] # names[i]})

Sources(links, t) == {links[i].st : i \in {j \in DOMAIN links : links[j].dt = t}}

(* Targets whose last source is n, in the order their in-degree reaches 0. *)
Freed(links, placed, n) ==
  LET last == {i \in DOMAIN links :
                 /\ links[i].st = n /\ links[i].dt \notin placed
                 /\ Sources(links, links[i].dt) \subseteq placed
                 /\ \A j \in DOMAIN links :
                      j > i => <<links[j].st, links[j].dt>> # <<n, links[i].dt>>}
  IN Pick([i \in DOMAIN links |-> links[i].dt], last)

Unsourced(links) == Filter(Mentioned(links), {t \in Tables : Sources(links, t) = {}})

(* Mutant: a table is queued with its first source. *)
InsertOrderM(links) ==
  LET sourced == {t \in Tables : Sources(links, t) # {} /\ t \notin Sources(links, t)}
  IN Unsourced(links) \o Filter(Mentioned(links), sourced)

(* The head of the queue is placed and the targets it frees are queued. *)
Place(links, s) ==
  IF s.queue = <<>> THEN s
  ELSE LET out == Append(s.out, Head(s.queue))
       IN [queue |-> Tail(s.queue) \o Freed(links, Range(out), Head(s.queue)),
           out |-> out]

(* Kahn's algorithm; shorter than Mentioned when there is a cycle. *)
InsertOrder(links) ==
  LET kahn[n \in 0..Len(Mentioned(links))] ==
        IF n = 0 THEN [queue |-> Unsourced(links), out |-> <<>>]
                 ELSE Place(links, kahn[n - 1])
  IN kahn[Len(Mentioned(links))].out

Ordered(links) == Len(InsertOrder(links)) = Len(Mentioned(links))

-------------------------------------------------------------------------------
(* Saving: validate_case_config. *)

(* The main table and the targets: tables the task generates rows for. *)
Scope == {Main} \cup {a.dt : a \in Assocs}

AssociationValid(a) ==
  /\ a.st # a.dt
  /\ a.st \in Scope
  /\ a.dt \in synced /\ a.dc \in Cols[a.dt]
  /\ IF a.st = Main
     THEN a.sc \in (DOMAIN conf.main \cup Cols[Main]) \ With(conf.main, "SKIP")
     ELSE a.st \in synced /\ a.sc \in Cols[a.st]
  /\ a.sc \in Cols[a.st] => TypeGroup[a.sc] = TypeGroup[a.dc]

RelatedValid(t) ==
  /\ t \in Scope \ {Main}
  /\ With(conf.related[t], "ITERATE") = {}
  /\ With(conf.related[t], "BAD") = {}

(* Mutant: strategies are not validated. *)
AcceptedM ==
  /\ Main \in synced /\ DOMAIN conf.main # {}
  /\ Cardinality(With(conf.main, "ITERATE")) <= 1
  /\ \A a \in Assocs : AssociationValid(a)
  /\ Ordered(conf.assocs)
  /\ \A t \in DOMAIN conf.related : RelatedValid(t)

Accepted ==
  /\ Main \in synced /\ DOMAIN conf.main # {}
  /\ Cardinality(With(conf.main, "ITERATE")) <= 1
  /\ With(conf.main, "BAD") = {}
  /\ \A a \in Assocs : AssociationValid(a)
  /\ Ordered(conf.assocs)
  /\ \A t \in DOMAIN conf.related : RelatedValid(t)

Save ==
  /\ stage = "draft"
  /\ stage' = IF Accepted THEN "saved" ELSE "rejected"
  /\ UNCHANGED <<conf, synced, order, k, todo, made, content, result, faults>>

(* The table is dropped, and a synchronisation forgets its columns, before *)
(* the case is saved or executed: execution does not validate it again.    *)
Forget(t) ==
  /\ stage \in {"draft", "saved"} /\ t \in synced
  /\ synced' = synced \ {t}
  /\ UNCHANGED <<conf, stage, order, k, todo, made, content, result, faults>>

-------------------------------------------------------------------------------
(* Preparing: _prepare_context. *)

(* executor._infer_strategy.  conf.late: columns that get a UUID they have *)
(* no room for; conf.clash: columns whose default is not a literal of      *)
(* their type, such as CURRENT_TIMESTAMP, and is taken for one.            *)
InferStrategy(t, c) ==
  IF <<t, c>> \in AutoInc THEN "SKIP"
  ELSE IF <<t, c>> \in conf.late THEN "LATE"
  ELSE IF <<t, c>> \in conf.clash THEN "BAD" ELSE "PLAIN"

(* table_field_configs: as configured, or inferred from the column cache. *)
Fields(t) ==
  IF t = Main THEN conf.main
  ELSE IF t \in DOMAIN conf.related THEN conf.related[t]
  ELSE [c \in Cols[t] |-> [strat |-> InferStrategy(t, c), src |-> None]]

SourceUsable(a) ==
  a.sc \in DOMAIN Fields(a.st) \ With(Fields(a.st), "SKIP")

Prepared ==
  /\ \A t \in Scope \ ({Main} \cup DOMAIN conf.related) : t \in synced
  /\ \A a, b \in Assocs : <<a.dt, a.dc>> = <<b.dt, b.dc>>
                             => <<a.st, a.sc>> = <<b.st, b.sc>>
  /\ \A a \in Assocs : SourceUsable(a)
  /\ \A t \in Scope : With(Fields(t), "BAD") = {}

Prepare ==
  /\ stage = "saved"
  /\ IF Prepared
     THEN stage' = "ready" /\ order' = InsertOrder(conf.assocs)
     ELSE stage' = "broken" /\ order' = order
  /\ UNCHANGED <<conf, synced, k, todo, made, content, result, faults>>

-------------------------------------------------------------------------------
(* One attempt at a batch: _execute_batch. *)

Batch == ((k - 1) % NB) + 1

(* Mutant: a retry repeats the whole batch. *)
StartBatchM ==
  /\ stage = "ready" /\ k < 2 * NB
  /\ k' = k + 1
  /\ todo' = order
  /\ made' = <<>>
  /\ stage' = "batch"
  /\ UNCHANGED <<conf, synced, order, content, result, faults>>

(* First all the batches, then, in a retry, those with failed tables. *)
StartBatch ==
  /\ stage = "ready" /\ k < 2 * NB
  /\ k' = k + 1
  /\ todo' = IF k < NB THEN order
             ELSE Filter(order, {t \in Tables : result[k + 1 - NB][t] # "ok"})
  /\ made' = <<>>
  /\ stage' = "batch"
  /\ UNCHANGED <<conf, synced, order, content, result, faults>>

(* The attempt has rows of t in memory. *)
Make(t, row) ==
  made' = [u \in DOMAIN made \cup {t} |-> IF u = t THEN row ELSE made[u]]

Driver == With(conf.main, "ITERATE")

(* Values that are neither driven nor in memory are selected in the table. *)
Sampled(a) == ~(a.st = Main /\ a.sc \in Driver) /\ a.st \notin DOMAIN made

(* Mutant: the source table is always sampled. *)
SourceValuesM(a) == {r.val[a.sc] : r \in content[a.st]}

(* _source_values: the driving value, the rows of this attempt, or any of  *)
(* the source table (_sample_source_values).                               *)
SourceValues(a) ==
  IF a.st = Main /\ a.sc \in Driver THEN {<<Main, a.sc, Batch>>}
  ELSE IF a.st \in DOMAIN made
       THEN {IF a.sc \in DOMAIN made[a.st] THEN made[a.st][a.sc] ELSE None}
  ELSE {r.val[a.sc] : r \in content[a.st]}

Into(t) == {a \in Assocs : a.dt = t}
Injected(t) == {a.dc : a \in Into(t)}

(* What the associations may inject; empty when a sample finds no row. *)
Injections(t) ==
  {inj \in [Injected(t) -> UNION {SourceValues(a) : a \in Into(t)}] :
     \A a \in Into(t) : inj[a.dc] \in SourceValues(a)}

Overridden(t) == IF t = Main THEN Driver ELSE {}
Given(t) == Overridden(t) \cup Injected(t)
Listed(t) == DOMAIN Fields(t) \ With(Fields(t), "SKIP")

(* topo_order_derived: a set of derived columns each computed from another. *)
DerivedCycle(t) ==
  \E cs \in SUBSET With(Fields(t), "DERIVED") :
    cs # {} /\ \A c \in cs : Fields(t)[c].src \in cs

(* generate_rows raises ValueError. *)
Refused(t) ==
  \/ With(Fields(t), "LATE") \ Given(t) # {}
  \/ DerivedCycle(t)
  \/ \E c \in With(Fields(t), "DERIVED") \ Given(t) : Fields(t)[c].src \notin Listed(t)

RowOf(t, inj) ==
  [c \in Listed(t) |-> IF c \in Overridden(t) THEN <<t, c, Batch>>
                       ELSE IF c \in Injected(t) THEN inj[c] ELSE <<t, c, k>>]

(* Mutant: a failed main table does not end the batch. *)
LogM(t, r) ==
  /\ result' = [result EXCEPT ![Batch][t] = r]
  /\ todo' = Tail(todo)

(* A table's log; when it is the main one that failed, the rest is skipped. *)
Log(t, r) ==
  IF t = Main /\ r # "ok"
  THEN /\ result' = [result EXCEPT ![Batch] =
                       [u \in Tables |-> IF u = t THEN r
                                         ELSE IF u \in Range(todo) THEN "skipped"
                                         ELSE @[u]]]
       /\ todo' = <<>>
  ELSE /\ result' = [result EXCEPT ![Batch][t] = r]
       /\ todo' = Tail(todo)

Current(t) == stage = "batch" /\ todo # <<>> /\ t = Head(todo)

(* The sample is taken outside the try: the batch, and its task, raise. *)
SampleEmpty(t) ==
  /\ Current(t) /\ \E a \in Into(t) : SourceValues(a) = {}
  /\ stage' = "starved"
  /\ UNCHANGED <<conf, synced, order, k, todo, made, content, result, faults>>

(* They raise as well when the SELECT of a sample fails, or the INCRBY for  *)
(* a column that may be INCR_FROM: its error is no ValueError, the only one *)
(* that is caught.                                                          *)
CallFails(t) ==
  /\ Current(t)
  /\ \/ \E a \in Into(t) : Sampled(a)
     \/ /\ \A a \in Into(t) : SourceValues(a) # {}
        /\ With(Fields(t), "PLAIN") \ Given(t) # {}
  /\ stage' = "raised"
  /\ UNCHANGED <<conf, synced, order, k, todo, made, content, result, faults>>

GenerateRefused(t) ==
  /\ Current(t) /\ \A a \in Into(t) : SourceValues(a) # {}
  /\ Refused(t)
  /\ Log(t, "refused")
  /\ UNCHANGED <<conf, synced, stage, order, k, made, content, faults>>

(* Without a column there is nothing to insert, which counts as success. *)
Insert(t) ==
  /\ Current(t) /\ ~Refused(t) /\ Listed(t) \subseteq Cols[t]
  /\ \E inj \in Injections(t) :
       /\ Make(t, RowOf(t, inj))
       /\ content' = IF Listed(t) = {} THEN content
                     ELSE [content EXCEPT ![t] =
                             @ \cup {[run |-> k, val |-> RowOf(t, inj)]}]
  /\ Log(t, "ok")
  /\ UNCHANGED <<conf, synced, stage, order, k, faults>>

(* The rows exist in memory, not in the database: a column the table does  *)
(* not have, or an error of the database that outlasts the retries.        *)
InsertFails(t) ==
  /\ Current(t) /\ ~Refused(t) /\ Listed(t) # {}
  /\ IF Listed(t) \subseteq Cols[t] THEN faults < MaxFaults /\ faults' = faults + 1
                                    ELSE faults' = faults
  /\ \E inj \in Injections(t) : Make(t, RowOf(t, inj))
  /\ Log(t, "failed")
  /\ UNCHANGED <<conf, synced, stage, order, k, content>>

EndBatch ==
  /\ stage = "batch" /\ todo = <<>>
  /\ stage' = IF k = 2 * NB THEN "done" ELSE "ready"
  /\ made' = <<>>
  /\ UNCHANGED <<conf, synced, order, k, todo, content, result, faults>>

-------------------------------------------------------------------------------
Init ==
  /\ conf \in Configs
  /\ synced = Tables
  /\ stage = "draft"
  /\ order = <<>> /\ k = 0 /\ todo = <<>> /\ made = <<>>
  /\ content = [t \in Tables |-> {}]
  /\ result = [b \in 1..NB |-> [t \in Tables |-> "none"]]
  /\ faults = 0

Next ==
  \/ Save \/ Prepare \/ StartBatch \/ EndBatch
  \/ \E t \in Tables : \/ Forget(t) \/ SampleEmpty(t) \/ CallFails(t)
                       \/ GenerateRefused(t) \/ Insert(t) \/ InsertFails(t)

Spec == Init /\ [][Next]_vars

-------------------------------------------------------------------------------
Values == Tables \X Columns \X (1..2 * NB)

(* Every row that exists is made of values somebody generated: no column   *)
(* of a row is missing or NULL because its source was (row.get in          *)
(* _source_values), and no table is inserted twice in a batch.             *)
TypeOK ==
  /\ synced \subseteq Tables /\ stage \in Stages
  /\ k \in 0..2 * NB /\ faults \in 0..MaxFaults
  /\ Range(todo) \subseteq Range(order) /\ Range(order) \subseteq Tables
  /\ \A t \in DOMAIN made : t \in Tables /\ \A c \in DOMAIN made[t] :
                                              made[t][c] \in Values
  /\ \A t \in Tables : \A r \in content[t] :
       /\ r.run \in 1..k /\ DOMAIN r.val \subseteq Cols[t]
       /\ \A c \in DOMAIN r.val : r.val[c] \in Values
       /\ \A q \in content[t] : q.run % NB = r.run % NB => q = r
  /\ result \in [1..NB -> [Tables -> Results]]

(* Reference: tables that all have a source among themselves. *)
Cyclic(links) ==
  \E ts \in SUBSET Tables : ts # {} /\ \A t \in ts : Sources(links, t) \cap ts # {}

Position(t) == CHOOSE i \in DOMAIN order : order[i] = t

(* Circular associations are refused and no others are; a prepared task    *)
(* inserts each table of the case once, the main one first (so that its    *)
(* failure spares every other table) and every source before its targets.  *)
OrderIsTopological ==
  /\ stage = "draft" => (Ordered(conf.assocs) <=> ~Cyclic(conf.assocs))
  /\ stage \in {"ready", "batch", "starved", "raised", "done"} =>
       /\ Range(order) = Scope /\ Len(order) = Cardinality(Scope)
       /\ Head(order) = Main
       /\ \A a \in Assocs : Position(a.st) < Position(a.dt)

(* A case that was accepted can be prepared, except where the two checks   *)
(* differ: the columns of a table are no longer known, one column has two  *)
(* sources, a source is a column the main table has but the case does not  *)
(* configure, a source of a related table is not generated, or a default   *)
(* that is no literal is inferred as one.                                  *)
SavedPrepares ==
  stage = "broken" =>
    \/ \E t \in Scope \ synced : t # Main
    \/ \E a, b \in Assocs : /\ <<a.dt, a.dc>> = <<b.dt, b.dc>>
                            /\ <<a.st, a.sc>> # <<b.st, b.sc>>
    \/ \E a \in Assocs : a.st = Main /\ a.sc \notin DOMAIN conf.main
    \/ \E a \in Assocs : a.st # Main /\ a.sc \notin Listed(a.st)
    \/ \E x \in conf.clash : x[1] \in Scope \ DOMAIN conf.related

(* A value injected by an association is in a row of the source table,     *)
(* unless the insert of those rows, of a related table, failed in the same *)
(* attempt or has failed before it.                                        *)
ForeignKeysMatch ==
  \A a \in Assocs : \A r \in content[a.dt] :
    a.dc \in DOMAIN r.val =>
      \/ \E q \in content[a.st] : q.val[a.sc] = r.val[a.dc]
      \/ a.st # Main /\ \/ result[((r.run - 1) % NB) + 1][a.st] = "failed"
                        \/ r.run <= NB /\ k > NB /\ faults > 0

(* Where every call of the database answers, a sample still finds a row:   *)
(* a source is looked for in its table only when this task has put rows    *)
(* there, in this attempt or an earlier one.  The exception is a chain of  *)
(* associations, where the source is a related table none of whose rows    *)
(* can be generated (_source_values).                                      *)
SamplesFindRows ==
  stage = "starved" =>
    \E a \in Into(Head(todo)) : a.st # Main /\ content[a.st] = {} /\ Refused(a.st)
=============================================================================
