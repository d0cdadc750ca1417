----------------------------- MODULE MCGeneration -----------------------------
EXTENDS Generation, TLC

CONSTANTS A, B, C, id, x, y

MCTables == {A, B, C}
MCCols == (A :> {id, x}) @@ (B :> {id, x, y}) @@ (C :> {id, x, y})
MCTypeGroup == (id :> "int") @@ (x :> "int") @@ (y :> "char")
MCAutoInc == {<<B, id>>, <<C, id>>}

As(st, sc, dt, dc) == [st |-> st, sc |-> sc, dt |-> dt, dc |-> dc]
FC(s) == [strat |-> s, src |-> None]
Derived(c) == [strat |-> "DERIVED", src |-> c]

AllAssocs == {As(st, sc, dt, dc) : st \in MCTables, sc \in {id, x},
                                   dt \in MCTables, dc \in {id, x, y}}

PlainMain == (id :> Plain) @@ (x :> Plain)

\* Two associations between any columns; three or four between any tables.
Graphs2 ==
  {[main |-> m, related |-> <<>>, assocs |-> as, late |-> {}, clash |-> {}] :
     m \in {PlainMain, (id :> Plain)},
     as \in {<<a, b>> : a \in AllAssocs, b \in AllAssocs}}

Edges == {As(st, x, dt, x) : st \in MCTables, dt \in MCTables}

Graphs4 ==
  {[main |-> PlainMain, related |-> <<>>, assocs |-> as, late |-> {}, clash |-> {}] :
     as \in [1..3 -> Edges] \cup [1..4 -> {e \in Edges : e.st # e.dt}]}

Shapes == {<<>>, <<As(A, id, B, x)>>, <<As(A, x, B, x)>>,
           <<As(A, x, B, x), As(B, x, C, x)>>, <<As(A, x, B, x), As(B, y, C, y)>>,
           <<As(B, id, C, x), As(A, x, B, id)>>,
           <<As(A, id, C, x), As(A, x, B, x), As(B, x, C, x)>>}

Anyhow == {FC("PLAIN"), FC("LATE"), FC("BAD"), FC("SKIP"), FC("ITERATE"),
           Derived(id), Derived(x), Derived(y)}

Partial(cs, S) == UNION {[d -> S] : d \in SUBSET cs}

\* Any strategies in the main table, with a few associations.
Mains ==
  {[main |-> m, related |-> <<>>, assocs |-> as, late |-> {}, clash |-> {}] :
     m \in Partial({id, x}, Anyhow), as \in Shapes}

\* Any strategies in a related table, or inferred ones.
Relateds ==
  {[main |-> PlainMain, related |-> (t :> f), assocs |-> as, late |-> {}, clash |-> {}] :
     t \in {A, B, C}, f \in Partial({x, y}, Anyhow), as \in Shapes}
  \cup
  {[main |-> (id :> Plain) @@ (x :> FC("ITERATE")), related |-> <<>>, assocs |-> as,
    late |-> l, clash |-> d] :
     as \in Shapes, l \in SUBSET {<<B, x>>, <<B, y>>}, d \in {{}, {<<C, y>>}}}

MCConfigs == Graphs2 \cup Graphs4 \cup Mains \cup Relateds
=============================================================================
