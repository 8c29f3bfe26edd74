-------------------------- MODULE QueryEvaluation --------------------------
(***************************************************************************)
(* What a registered query shows its subscribers: the rows of its initial  *)
(* snapshot, its aggregates, the delta one transaction brings, and the     *)
(* validation of projections, aggregates and windows.  Result is the       *)
(* reference the evaluators are checked against: the query's meaning on    *)
(* given tables, with no index, no delta and no candidate pruning.         *)
(***************************************************************************)
EXTENDS DeltaEvaluation

CONSTANTS
    MaxMultiJoinRelations,
    MaxMultiJoinRowsPerRelation,
    OrderedWindowMaxRows

Failed == [err |-> TRUE, ins |-> EmptyBag, del |-> EmptyBag]
Evaluated(d) == [err |-> d.charge > MaxDeltaRows,
                 ins |-> IF d.charge > MaxDeltaRows THEN EmptyBag ELSE d.ins,
                 del |-> IF d.charge > MaxDeltaRows THEN EmptyBag ELSE d.del]
SingleTable(p) == CHOOSE t \in PredicateTables(p) : TRUE

-----------------------------------------------------------------------------
\* Aggregates.  A contribution is a row, a pair or a tuple; value maps each to
\* its argument.  COUNT and SUM skip NULL, and a SUM over nothing is NULL when its
\* column is nullable.

accumulate(agg, value) ==
    LET seen == {x \in DOMAIN value : value[x] # NULL}
        total == MapThenSumSet(LAMBDA x : value[x], seen)
    IN  CASE agg.func = "COUNT" /\ agg.arg = Nil -> Cardinality(DOMAIN value)
          [] agg.func = "COUNT" /\ agg.arg # Nil /\ agg.distinct -> Cardinality({value[x] : x \in seen})
          [] agg.func = "COUNT" /\ agg.arg # Nil /\ ~agg.distinct -> Cardinality(seen)
          [] agg.func = "SUM" ->
                IF seen = {} /\ <<agg.arg.t, agg.arg.c>> \in Nullable THEN NULL
                ELSE IF total > MaxSum THEN Overflow ELSE total

aggregateRowsValue(rows, p, agg) ==
    LET t == SingleTable(p)
    IN  accumulate(agg, [r \in {x \in rows : MatchRow(p, t, x)} |-> IF agg.arg = Nil THEN 0 ELSE r[agg.arg.c]])

relationPairAggregateArgumentValue(j, arg, pair) ==
    IF arg = Nil THEN 0
    ELSE IF arg.t = j.left /\ (j.left = j.right => arg.a = j.la) THEN pair[1][arg.c] ELSE pair[2][arg.c]

aggregatePairsValue(j, pairs, agg) ==
    accumulate(agg, [x \in pairs |-> relationPairAggregateArgumentValue(j, agg.arg, x)])

joinPairs(j, left, right) ==
    {x \in left \X right : x[1][j.lc] = x[2][j.rc] /\ joinPairMatches(j, x[1], x[2])}

\* Committed pairs: scan one side, probe the index of the other.
visitJoinCommittedPairs(view, j) ==
    LET driveIsLeft == HasIndex(j.right, j.rc)
        found == IF driveIsLeft
                 THEN UNION {{<<l, r>> : r \in IndexSeek(view, j.right, j.rc, l[j.lc])} : l \in view[j.left]}
                 ELSE UNION {{<<l, r>> : l \in IndexSeek(view, j.left, j.lc, r[j.rc])} : r \in view[j.right]}
    IN  {x \in found : joinPairMatches(j, x[1], x[2])}

aggregateMultiJoinRowsValue(p, rows, agg) ==
    LET value(x) ==
            IF agg.arg = Nil THEN 0
            ELSE x[CHOOSE k \in DOMAIN p.rels : p.rels[k] = [t |-> agg.arg.t, a |-> agg.arg.a]][agg.arg.c]
    IN  accumulate(agg, [tuple \in visitMultiJoinTuples(p, rows) |-> value(tuple)])

\* The value over given rows of every table (rows is a function of the table).
aggregateOver(p, agg, rows) ==
    CASE p.op = "join" -> aggregatePairsValue(p, joinPairs(p, rows[p.left], rows[p.right]), agg)
      [] p.op = "cross" -> aggregatePairsValue(p, crossJoinPairs(p, rows[p.left], rows[p.right]), agg)
      [] p.op = "multi" -> aggregateMultiJoinRowsValue(p, [i \in DOMAIN p.rels |-> rows[p.rels[i].t]], agg)
      [] OTHER -> aggregateRowsValue(rows[SingleTable(p)], p, agg)

aggregateCommittedValue(view, p, agg) ==
    IF p.op = "join" THEN aggregatePairsValue(p, visitJoinCommittedPairs(view, p), agg)
    ELSE aggregateOver(p, agg, view)

aggregateAfterValue(dv, p, agg) ==
    IF PredicateTables(p) \cap EventTables = {} THEN aggregateCommittedValue(dv.view, p, agg)
    ELSE aggregateOver(p, agg, [t \in Tables |-> tableRowsAfter(dv, t)])

aggregateRowContributes(r, p, agg) ==
    MatchRow(p, SingleTable(p), r) /\ (agg.arg # Nil => r[agg.arg.c] # NULL)

\* The count before the transaction, from the count after it.
countAggregateBeforeValue(dv, p, agg, after) ==
    LET t == SingleTable(p)
        count(rows) == Cardinality({r \in rows : aggregateRowContributes(r, p, agg)})
        before == after + count(dv.del[t]) - count(dv.ins[t])
    IN  IF before < 0 THEN 0 ELSE before

evalAggregateQuery(dv, q) ==
    LET after == aggregateAfterValue(dv, q.pred, q.agg)
        before == IF ~IsJoinLike(q.pred) /\ q.agg.func = "COUNT" /\ ~q.agg.distinct
                  THEN countAggregateBeforeValue(dv, q.pred, q.agg, after)
                  ELSE aggregateOver(q.pred, q.agg, [t \in Tables |-> projectedRowsBefore(dv, t)])
    IN  IF Overflow \in {after, before} THEN Failed
        ELSE IF before = after THEN Evaluated([ins |-> EmptyBag, del |-> EmptyBag, charge |-> 0])
        ELSE Evaluated([ins |-> SetToBag({<<after>>}), del |-> SetToBag({<<before>>}), charge |-> 2])

-----------------------------------------------------------------------------
\* The delta of a query.

checkMultiJoinDeltaLimits(dv, p) ==
    p.op = "multi" =>
        /\ Len(p.rels) <= MaxMultiJoinRelations
        /\ \A i \in DOMAIN p.rels :
              /\ rowCountAfter(dv, p.rels[i].t) <= MaxMultiJoinRowsPerRelation
              /\ rowCountBefore(dv, p.rels[i].t) <= MaxMultiJoinRowsPerRelation

evalQuery(dv, q) ==
    LET p == q.pred
        t == SingleTable(p)
    IN  CASE q.agg # NoAggregate -> evalAggregateQuery(dv, q)
          [] q.agg = NoAggregate /\ p.op = "join" -> Evaluated(evalJoinDelta(dv, q))
          [] q.agg = NoAggregate /\ p.op = "cross" ->
                Evaluated(projectDeltaRows(evalCrossJoinDelta(dv, p), q.proj, q.proj # <<>>))
          [] q.agg = NoAggregate /\ p.op = "multi" -> Evaluated(evalMultiJoinDelta(dv, p, q.proj))
          [] q.agg = NoAggregate /\ ~IsJoinLike(p) ->
                IF maintainsWindowedSingleTableDelta(q, t)
                THEN Evaluated(evalWindowedSingleTableDelta(dv, q, t))
                ELSE Evaluated(projectDeltaRows(evalSingleTableDelta(dv, p, t), q.proj, TRUE))

evalQuerySafe(dv, q) ==
    IF \/ ~checkMultiJoinDeltaLimits(dv, q.pred)
       \/ q.agg = NoAggregate /\ q.pred.op = "join" /\ deltaIndexPanics(dv, q.pred)
    THEN Failed ELSE evalQuery(dv, q)

-----------------------------------------------------------------------------
\* The initial snapshot.

\* The first conjunct that equates (or bounds) an indexed column of t.
RECURSIVE initialIndexedLeaf(_, _, _)
initialIndexedLeaf(p, t, op) ==
    IF p.op = op /\ p.t = t /\ p.a = 0 /\ HasIndex(t, p.c) THEN p
    ELSE IF p.op = "and"
    THEN LET l == initialIndexedLeaf(p.l, t, op)
         IN  IF l # Nil THEN l ELSE initialIndexedLeaf(p.r, t, op)
    ELSE Nil

initialIndexedEquality(p, t) == initialIndexedLeaf(p, t, "eq")
initialIndexedRange(p, t) == initialIndexedLeaf(p, t, "range")

\* The rows of t an index admits, and whether one does.
initialIndexedFilterRowIDs(view, p, t) ==
    LET eq == initialIndexedEquality(p, t)
        range == initialIndexedRange(p, t)
    IN  IF p = Nil THEN [rows |-> view[t], filtered |-> FALSE]
        ELSE IF eq # Nil THEN [rows |-> IndexSeek(view, t, eq.c, eq.v), filtered |-> TRUE]
        ELSE IF range # Nil
        THEN [rows |-> {r \in view[t] : matchBounds(r[range.c], range.lo, range.hi)}, filtered |-> TRUE]
        ELSE [rows |-> view[t], filtered |-> FALSE]

initialRowsForTable(view, p, t) ==
    {r \in initialIndexedFilterRowIDs(view, p, t).rows : MatchRow(p, t, r)}

initialJoinScanCost(candidates) == Cardinality(candidates.rows)

\* Scan the projected side and probe the other's index, or the reverse,
\* whichever index exists and has the smaller scan; both keep only rows the
\* filter's indexed conjunct admits.
appendProjectedJoinRows(view, j) ==
    LET proj == IF j.projectRight THEN [t |-> j.right, c |-> j.rc] ELSE [t |-> j.left, c |-> j.lc]
        other == IF j.projectRight THEN [t |-> j.left, c |-> j.lc] ELSE [t |-> j.right, c |-> j.rc]
        projected == initialIndexedFilterRowIDs(view, j.filter, proj.t)
        others == initialIndexedFilterRowIDs(view, j.filter, other.t)
        fromProjectedIndex ==
            \/ ~HasIndex(other.t, other.c)
            \/ HasIndex(proj.t, proj.c) /\ initialJoinScanCost(others) < initialJoinScanCost(projected)
        found == IF fromProjectedIndex
                 THEN UNION {{<<x, o>> : x \in IndexSeek(view, proj.t, proj.c, o[other.c]) \cap projected.rows} : o \in others.rows}
                 ELSE UNION {{<<x, o>> : o \in IndexSeek(view, other.t, other.c, x[proj.c]) \cap others.rows} : x \in projected.rows}
        matches(x) == IF j.projectRight THEN joinPairMatches(j, x[2], x[1]) ELSE joinPairMatches(j, x[1], x[2])
        row(x) == x[1]
    IN  BagOver({x \in found : matches(x)}, row)

appendProjectedCrossJoinRows(view, p) ==
    IF p.filter # Nil THEN crossJoinProjectedRows(p, view[p.left], view[p.right])
    ELSE LET n == Cardinality(view[crossJoinOtherTable(p)])
         IN  IF n = 0 THEN EmptyBag ELSE [r \in view[ProjectedTable(p)] |-> n]

checkMultiJoinLimits(view, p) ==
    p.op = "multi" =>
        /\ Len(p.rels) <= MaxMultiJoinRelations
        /\ \A i \in DOMAIN p.rels : Cardinality(view[p.rels[i].t]) <= MaxMultiJoinRowsPerRelation

\* orderedKeepLimit: the rows an ordered window retains; 0 means every row.
orderedKeepLimit(q, remaining) ==
    LET offset == IF q.offset = None THEN 0 ELSE q.offset
        output == IF q.limit = None THEN remaining
                  ELSE IF remaining > 0 /\ remaining < q.limit THEN remaining ELSE q.limit
        tooFar == offset > OrderedWindowMaxRows
        tooWide == offset + output > OrderedWindowMaxRows
    IN  CASE q.orderBy = <<>> -> [err |-> FALSE, keep |-> 0]
          [] q.orderBy # <<>> /\ tooFar -> [err |-> TRUE, keep |-> 0]
          [] q.orderBy # <<>> /\ ~tooFar /\ output = 0 ->
                [err |-> FALSE, keep |-> IF q.limit # None THEN 0 ELSE OrderedWindowMaxRows]
          [] q.orderBy # <<>> /\ ~tooFar /\ output # 0 /\ tooWide ->
                [err |-> q.limit # None, keep |-> OrderedWindowMaxRows]
          [] OTHER -> [err |-> FALSE, keep |-> offset + output]

\* More rows match than an ordered window may retain.
orderedRetentionOverflow(q, matching, keep, remaining) ==
    LET skipped == IF q.offset = None THEN matching ELSE IF matching <= q.offset THEN 0 ELSE matching - q.offset
        output == IF q.limit # None /\ skipped > q.limit THEN q.limit ELSE skipped
    IN  keep > 0 /\ matching > keep /\ (output > remaining \/ q.limit = None)

\* initialUpdates: the rows of the snapshot, or an error when a limit is hit.
initialUpdates(view, q, remaining) ==
    LET p == q.pred
        t == SingleTable(p)
        value == aggregateCommittedValue(view, p, q.agg)
        joined == CASE p.op = "join" -> projectBag(appendProjectedJoinRows(view, p), q.proj)
                    [] p.op = "cross" -> projectBag(appendProjectedCrossJoinRows(view, p), q.proj)
                    [] p.op = "multi" ->
                        collectMultiJoinProjectedRows(p, [i \in DOMAIN p.rels |-> view[p.rels[i].t]], q.proj)
        matching == initialRowsForTable(view, p, t)
        keep == orderedKeepLimit(q, remaining)
        rows == IF IsWindow(q) THEN applyWindow(matching, q) ELSE matching
        Rows(bag) == [err |-> BagCardinality(bag) > remaining, rows |-> bag]
        Error == [err |-> TRUE, rows |-> EmptyBag]
    IN  CASE q.agg # NoAggregate ->
                IF ~checkMultiJoinLimits(view, p) \/ value = Overflow THEN Error
                ELSE [err |-> FALSE, rows |-> SetToBag({<<value>>})]
          [] q.agg = NoAggregate /\ q.limit = 0 -> [err |-> FALSE, rows |-> EmptyBag]
          [] q.agg = NoAggregate /\ q.limit # 0 /\ IsJoinLike(p) ->
                IF checkMultiJoinLimits(view, p) THEN Rows(joined) ELSE Error
          [] q.agg = NoAggregate /\ q.limit # 0 /\ ~IsJoinLike(p) ->
                IF keep.err \/ orderedRetentionOverflow(q, Cardinality(matching), keep.keep, remaining)
                THEN Error ELSE Rows(projectBag(SetToBag(rows), q.proj))
-----------------------------------------------------------------------------
\* Validation of a query's options, after its predicate.

RECURSIVE multiJoinProjectionFilterIsEquality(_)
multiJoinProjectionFilterIsEquality(p) ==
    \/ p.op \in {"nil", "eq", "eqcol"}
    \/ p.op = "and" /\ multiJoinProjectionFilterIsEquality(p.l) /\ multiJoinProjectionFilterIsEquality(p.r)

projectionColumnMatchesEmittedRelation(p, col) ==
    CASE p.op \in {"join", "cross"} ->
            /\ col.t = ProjectedTable(p)
            /\ p.left = p.right => col.a = (IF p.projectRight THEN p.ra ELSE p.la)
      [] p.op = "multi" -> \E i \in DOMAIN p.rels : p.rels[i] = [t |-> col.t, a |-> col.a]
      [] OTHER -> PredicateTables(p) = {col.t} /\ col.a = 0

validateProjectionColumns(p, proj) ==
    proj # <<>> =>
        /\ p.op = "multi" => multiJoinProjectionFilterIsEquality(p.filter)
        /\ \A i \in DOMAIN proj :
              projectionColumnMatchesEmittedRelation(p, proj[i]) /\ ColumnExists(proj[i].t, proj[i].c)

validateAggregateArgument(p, arg) ==
    /\ CASE p.op \in {"join", "cross"} ->
                \/ arg.t = p.left /\ (p.left = p.right => arg.a = p.la)
                \/ arg.t = p.right /\ (p.left = p.right => arg.a = p.ra)
         [] p.op = "multi" -> \E i \in DOMAIN p.rels : p.rels[i] = [t |-> arg.t, a |-> arg.a]
         [] OTHER -> PredicateTables(p) = {arg.t} /\ arg.a = 0
    /\ ColumnExists(arg.t, arg.c)

ValidateAggregate(p, agg) ==
    agg # NoAggregate =>
        /\ IsJoinLike(p) \/ Cardinality(PredicateTables(p)) = 1
        /\ agg.arg = Nil => agg.func = "COUNT" /\ ~agg.distinct
        /\ agg.arg # Nil => validateAggregateArgument(p, agg.arg)
        /\ agg.func = "SUM" => ~agg.distinct /\ ColumnType[agg.arg.t][agg.arg.c] = "int"

validateWindowSingleTable(p, agg) ==
    agg = NoAggregate /\ ~IsJoinLike(p) /\ Cardinality(PredicateTables(p)) = 1

validateOrderByColumns(p, orderBy, agg) ==
    orderBy # <<>> =>
        /\ validateWindowSingleTable(p, agg)
        /\ \A i \in DOMAIN orderBy : ColumnExists(SingleTable(p), orderBy[i].c)

\* The checks of a registration, on the canonical predicate.
ValidQuery(view, q) ==
    /\ checkMultiJoinLimits(view, q.pred)
    /\ validateProjectionColumns(q.pred, q.proj)
    /\ q.proj = <<>> \/ q.agg = NoAggregate
    /\ ValidateAggregate(q.pred, q.agg)
    /\ validateOrderByColumns(q.pred, q.orderBy, q.agg)
    /\ q.limit # None => validateWindowSingleTable(q.pred, q.agg)
    /\ q.offset # None => validateWindowSingleTable(q.pred, q.agg)
    /\ q.limit # 0 => ~orderedKeepLimit(q, MaxDeltaRows).err

-----------------------------------------------------------------------------
\* The meaning of a query: what it returns on given tables (a function from
\* tables to sets of rows).  Every evaluator above is checked against it.

QueryRelations(p) ==
    CASE p.op \in {"join", "cross"} -> <<[t |-> p.left, a |-> p.la], [t |-> p.right, a |-> p.ra]>>
      [] p.op = "multi" -> p.rels
      [] OTHER -> <<[t |-> SingleTable(p), a |-> 0]>>

QueryTuples(p, tables) ==
    LET rels == QueryRelations(p)
        all == FoldLeft(LAMBDA xs, rel : {Append(x, r) : x \in xs, r \in tables[rel.t]}, {<<>>}, rels)
        equated(x) ==
            CASE p.op = "join" -> x[1][p.lc] = x[2][p.rc]
              [] p.op = "multi" -> \A i \in DOMAIN p.conds : multiJoinConditionValuesEqual(p.conds[i], x)
              [] OTHER -> TRUE
        filter == IF IsJoinLike(p) THEN p.filter ELSE p
    IN  {x \in all : equated(x) /\ matchMultiJoinTuple(filter, rels, x)}

QueryColumn(p, col, tuple) ==
    tuple[CHOOSE i \in RelationIndex(QueryRelations(p), col.t, col.a) : TRUE][col.c]

QueryRow(q, tuple) ==
    IF q.proj # <<>> THEN [i \in DOMAIN q.proj |-> QueryColumn(q.pred, q.proj[i], tuple)]
    ELSE IF q.pred.op = "multi" THEN tuple[q.pred.projected]
    ELSE IF q.pred.op \in {"join", "cross"} /\ q.pred.projectRight THEN tuple[2] ELSE tuple[1]

QueryAggregate(q, tuples) ==
    LET value(x) == QueryColumn(q.pred, q.agg.arg, x)
        known == {x \in tuples : value(x) # NULL}
    IN  IF q.agg.arg = Nil THEN Cardinality(tuples)
        ELSE IF q.agg.func = "SUM"
        THEN IF known = {} /\ <<q.agg.arg.t, q.agg.arg.c>> \in Nullable THEN NULL ELSE MapThenSumSet(value, known)
        ELSE IF q.agg.distinct THEN Cardinality({value(x) : x \in known}) ELSE Cardinality(known)

QueryWindow(q, tuples) ==
    LET before(x, y) == compareOrderedRows(q.orderBy, x[1], y[1])
        sorted == SetToSortSeq(tuples, before)
        first == IF q.offset = None THEN 1 ELSE q.offset + 1
        last == IF q.limit = None THEN Len(sorted) ELSE first + q.limit - 1
    IN  {sorted[i] : i \in {j \in DOMAIN sorted : first <= j /\ j <= last}}

Result(q, tables) ==
    LET tuples == QueryTuples(q.pred, tables)
        row(x) == QueryRow(q, x)
    IN  IF q.agg # NoAggregate THEN SetToBag({<<QueryAggregate(q, tuples)>>})
        ELSE BagOver(IF IsWindow(q) THEN QueryWindow(q, tuples) ELSE tuples, row)
=============================================================================
