----------------------------- MODULE OneOffQuery -----------------------------
(***************************************************************************)
(* Execution of a compiled query against a committed snapshot: one-off and *)
(* declared queries.  A view gives, for every table, its rows in row-ID    *)
(* order (view.ids, the order of an index seek) and in the order its scan  *)
(* visits them (view.scan, the order of a Go map).  Rows are visited one   *)
(* after another, and a collector that is full ends the visit, so what is  *)
(* visited is a sequence.  Work and byte budgets are left out.             *)
(***************************************************************************)
EXTENDS SQLCompile

CONSTANT MaxRows   \* SQLQueryLimits.MaxRows after NormalizeSQLQueryLimits

QueryError == [err |-> TRUE, rows |-> <<>>]
Rows(rows) == [err |-> FALSE, rows |-> rows]

\* A view's index visits: seek in row-ID order, range in key order.
SeekIndex(view, t, c, v) == SelectSeq(view.ids[t], LAMBDA r : r[c] = v)
RangeIndex(view, t, c, lo, hi) ==
    SortSeq(SelectSeq(view.ids[t], LAMBDA r : matchBounds(r[c], lo, hi)), LAMBDA r, s : r[c] < s[c])

-----------------------------------------------------------------------------
\* Row limits.  An absent limit is -1.

oneOffRowLimit(q) == IF q.limit = None THEN -1 ELSE q.limit
oneOffRowOffset(q) == IF q.offset = None THEN 0 ELSE q.offset
\* One row past the host's limit tells an over-long result from a full one.
oneOffExecutionRowLimit(q) ==
    LET limit == oneOffRowLimit(q)
    IN  IF limit = 0 THEN 0 ELSE IF limit < 0 \/ limit > MaxRows + 1 THEN MaxRows + 1 ELSE limit
\* Mutant: the ordered collector is sized without the rows OFFSET skips.
ScanLimitForgetsOffset(q) == oneOffExecutionRowLimit(q)
oneOffScanLimit(q) ==
    LET limit == oneOffExecutionRowLimit(q) IN IF limit <= 0 THEN limit ELSE oneOffRowOffset(q) + limit

oneOffWindowBounds(n, offset, limit) ==
    LET start == IF offset > n THEN n ELSE offset
    IN  [start |-> start, end |-> IF limit >= 0 /\ limit < n - start THEN start + limit ELSE n]
sliceOneOffRows(rows, offset, limit) ==
    LET w == oneOffWindowBounds(Len(rows), offset, limit) IN SubSeq(rows, w.start + 1, w.end)

\* The plain collector skips OFFSET rows and stops when it holds its limit.
oneOffResultCollector(visited, q) == sliceOneOffRows(visited, oneOffRowOffset(q), oneOffExecutionRowLimit(q))

\* The ordered collector keeps the best rows its capacity allows; items are
\* [row, key, ord], and ties go to the row visited first.
compareOrderedOneOffRows(orderBy, x, y) ==
    LET differs == {i \in DOMAIN orderBy : x.key[i] # y.key[i]}
        first == CHOOSE i \in differs : \A j \in differs : i <= j
    IN  IF differs = {} THEN x.ord < y.ord
        ELSE IF orderBy[first].desc THEN x.key[first] > y.key[first] ELSE x.key[first] < y.key[first]
orderedOneOffCollectorAdd(kept, item, orderBy, capacity) ==
    LET worst == CHOOSE i \in DOMAIN kept : \A j \in DOMAIN kept \ {i} : compareOrderedOneOffRows(orderBy, kept[j], kept[i])
    IN  IF capacity = 0 THEN kept
        ELSE IF capacity < 0 \/ Len(kept) < capacity THEN Append(kept, item)
        ELSE IF compareOrderedOneOffRows(orderBy, item, kept[worst]) THEN [kept EXCEPT ![worst] = item]
        ELSE kept
SortedRows(kept, orderBy) == SortSeq(kept, LAMBDA x, y : compareOrderedOneOffRows(orderBy, x, y))

\* visited: items [row, key]; capacity as oneOffScanLimit has it.
collectOrdered(visited, q) ==
    LET numbered == [i \in DOMAIN visited |-> [row |-> visited[i].row, key |-> visited[i].key, ord |-> i]]
        kept == FoldLeft(LAMBDA k, item : orderedOneOffCollectorAdd(k, item, q.orderBy, oneOffScanLimit(q)), <<>>, numbered)
        sorted == SortedRows(kept, q.orderBy)
    IN  sliceOneOffRows([i \in DOMAIN sorted |-> sorted[i].row], oneOffRowOffset(q), oneOffRowLimit(q))

-----------------------------------------------------------------------------
\* One table.

RECURSIVE oneOffIndexableLeaf(_, _)
oneOffIndexableLeaf(p, op) ==
    CASE p.op = op -> IF p.a = 0 THEN p ELSE Nil
      [] p.op = "and" -> LET l == oneOffIndexableLeaf(p.l, op) IN IF l # Nil THEN l ELSE oneOffIndexableLeaf(p.r, op)
      [] OTHER -> Nil
oneOffIndexableEquality(p) == oneOffIndexableLeaf(p, "eq")
oneOffIndexableRange(p) == oneOffIndexableLeaf(p, "range")

\* Only the first equality and the first range of the conjunction are tried.
visitOneOffSingleTableRows(view, t, p) ==
    LET eq == oneOffIndexableEquality(p)
        range == oneOffIndexableRange(p)
        candidates == IF eq # Nil /\ HasIndex(t, eq.c) THEN SeekIndex(view, t, eq.c, eq.v)
                      ELSE IF range # Nil /\ HasIndex(t, range.c) THEN RangeIndex(view, t, range.c, range.lo, range.hi)
                      ELSE view.scan[t]
    IN  SelectSeq(candidates, LAMBDA r : MatchRow(p, t, r))

projectOneOffRow(row, proj) == IF proj = <<>> THEN row ELSE [i \in DOMAIN proj |-> row[proj[i].c]]

\* Single-column indexes are the ones modelled.
oneOffSingleTableOrderIndex(q) == Len(q.orderBy) = 1 /\ HasIndex(q.orderBy[1].t, q.orderBy[1].c)

OrderedItems(rows, q) ==
    [i \in DOMAIN rows |-> [row |-> projectOneOffRow(rows[i], q.proj),
                            key |-> [k \in DOMAIN q.orderBy |-> rows[i][q.orderBy[k].c]]]]
evaluateOneOffSingleTableOrdered(view, t, q) ==
    collectOrdered(OrderedItems(visitOneOffSingleTableRows(view, t, q.pred), q), q)
\* Ascending: the index visits the rows in order and the visit may stop early.
evaluateOneOffSingleTableOrderedByIndex(view, t, q) ==
    LET rows == SelectSeq(RangeIndex(view, t, q.orderBy[1].c, Unbounded, Unbounded), LAMBDA r : MatchRow(q.pred, t, r))
    IN  IF q.orderBy[1].desc THEN collectOrdered(OrderedItems(rows, q), q)
        ELSE oneOffResultCollector([i \in DOMAIN rows |-> projectOneOffRow(rows[i], q.proj)], q)

evaluateOneOffSingleTable(view, t, q) ==
    LET rows == visitOneOffSingleTableRows(view, t, q.pred)
    IN  IF oneOffSingleTableOrderIndex(q) THEN evaluateOneOffSingleTableOrderedByIndex(view, t, q)
        ELSE IF q.orderBy # <<>> THEN evaluateOneOffSingleTableOrdered(view, t, q)
        ELSE oneOffResultCollector([i \in DOMAIN rows |-> projectOneOffRow(rows[i], q.proj)], q)

-----------------------------------------------------------------------------
\* Two tables.  Pairs are <<left, right>>, visited outer row by outer row.

NestedPairs(outer, Inner(_), projectRight) ==
    FlattenSeq([i \in DOMAIN outer |->
        LET inner == Inner(outer[i])
        IN  [j \in DOMAIN inner |-> IF projectRight THEN <<inner[j], outer[i]>> ELSE <<outer[i], inner[j]>>]])

oneOffJoinPairMatches(j, l, r) == l[j.lc] = r[j.rc] /\ MatchJoinPair(j.filter, j, l, r)

visitOneOffJoinPairs(view, j) ==
    LET outer == IF j.projectRight THEN [t |-> j.right, c |-> j.rc] ELSE [t |-> j.left, c |-> j.lc]
        inner == IF j.projectRight THEN [t |-> j.left, c |-> j.lc] ELSE [t |-> j.right, c |-> j.rc]
        candidates(row) == IF HasIndex(inner.t, inner.c) THEN SeekIndex(view, inner.t, inner.c, row[outer.c])
                           ELSE view.scan[inner.t]
    IN  SelectSeq(NestedPairs(view.scan[outer.t], candidates, j.projectRight),
                  LAMBDA x : oneOffJoinPairMatches(j, x[1], x[2]))

visitOneOffCrossJoinPairs(view, x, projectedSideOuter) ==
    LET rightOuter == projectedSideOuter /\ x.projectRight
        candidates(row) == IF rightOuter THEN view.scan[x.left] ELSE view.scan[x.right]
    IN  SelectSeq(NestedPairs(IF rightOuter THEN view.scan[x.right] ELSE view.scan[x.left], candidates, rightOuter),
                  LAMBDA pair : MatchJoinPair(x.filter, x, pair[1], pair[2]))

classifyOneOffPairColumnSource(j, col) ==
    IF j.left = j.right THEN IF col.a = j.la THEN 1 ELSE 2
    ELSE IF col.t = j.left THEN 1 ELSE 2
projectOneOffJoinPair(j, pair, proj) ==
    IF proj = <<>> THEN IF j.projectRight THEN pair[2] ELSE pair[1]
    ELSE [i \in DOMAIN proj |-> pair[classifyOneOffPairColumnSource(j, proj[i])][proj[i].c]]

collectOneOffPairProjections(pairs, q) ==
    oneOffResultCollector([i \in DOMAIN pairs |-> projectOneOffJoinPair(q.pred, pairs[i], q.proj)], q)
collectOrderedOneOffPairProjections(pairs, q) ==
    collectOrdered([i \in DOMAIN pairs |->
        [row |-> projectOneOffJoinPair(q.pred, pairs[i], q.proj),
         key |-> [k \in DOMAIN q.orderBy |->
                    pairs[i][classifyOneOffPairColumnSource(q.pred, q.orderBy[k])][q.orderBy[k].c]]]], q)

evaluateOneOffJoin(view, q) ==
    IF q.orderBy # <<>> THEN collectOrderedOneOffPairProjections(visitOneOffJoinPairs(view, q.pred), q)
    ELSE collectOneOffPairProjections(visitOneOffJoinPairs(view, q.pred), q)

\* Without a filter a row is repeated once for every row of the other table.
evaluateOneOffCrossJoin(view, q) ==
    LET x == q.pred
        projected == view.scan[IF x.projectRight THEN x.right ELSE x.left]
        other == IF x.projectRight THEN x.left ELSE x.right
        otherCount == Len(view.ids[other])
    IN  IF q.orderBy # <<>> THEN collectOrderedOneOffPairProjections(visitOneOffCrossJoinPairs(view, x, TRUE), q)
        ELSE IF q.proj # <<>> \/ x.filter # Nil
        THEN collectOneOffPairProjections(visitOneOffCrossJoinPairs(view, x, TRUE), q)
        ELSE oneOffResultCollector(
                FlattenSeq([i \in DOMAIN projected |-> [k \in 1 .. otherCount |-> projected[i]]]), q)

-----------------------------------------------------------------------------
\* Three tables and more: a depth-first walk over the relations.

\* The first condition that ties relation d to an earlier one by an indexed
\* column of d, as [c, known].
multiJoinIndexedProbeForDepth(multi, d) ==
    LET tied(cond) ==
            CASE cond.left.rel = d /\ cond.right.rel < d /\ HasIndex(multi.rels[d].t, cond.left.c) ->
                    {[c |-> cond.left.c, known |-> cond.right]}
              [] cond.right.rel = d /\ cond.left.rel < d /\ HasIndex(multi.rels[d].t, cond.right.c) ->
                    {[c |-> cond.right.c, known |-> cond.left]}
              [] OTHER -> {}
        first == {i \in DOMAIN multi.conds : tied(multi.conds[i]) # {} /\ \A j \in 1 .. i - 1 : tied(multi.conds[j]) = {}}
    IN  UNION {tied(multi.conds[i]) : i \in first}

visitOneOffMultiJoinCandidateRows(view, multi, prefix) ==
    LET d == Len(prefix) + 1
        probe == multiJoinIndexedProbeForDepth(multi, d)
        by == CHOOSE x \in probe : TRUE
    IN  IF probe = {} THEN view.scan[multi.rels[d].t]
        ELSE SeekIndex(view, multi.rels[d].t, by.c, prefix[by.known.rel][by.known.c])

multiJoinPrefixConditionsMatch(multi, tuple) ==
    \A i \in DOMAIN multi.conds :
        multi.conds[i].left.rel <= Len(tuple) /\ multi.conds[i].right.rel <= Len(tuple)
            => multiJoinConditionValuesEqual(multi.conds[i], tuple)

RECURSIVE matchCompiledSQLMultiPredicate(_, _, _)
matchCompiledSQLMultiPredicate(p, rels, tuple) ==
    CASE p.op \in {"nil", "true"} -> TRUE
      [] p.op = "false" -> FALSE
      [] p.op = "and" -> matchCompiledSQLMultiPredicate(p.l, rels, tuple) /\ matchCompiledSQLMultiPredicate(p.r, rels, tuple)
      [] p.op = "or" -> matchCompiledSQLMultiPredicate(p.l, rels, tuple) \/ matchCompiledSQLMultiPredicate(p.r, rels, tuple)
      [] OTHER -> matchMultiJoinTuple(p, rels, tuple)

RECURSIVE walkOneOffMultiJoin(_, _, _)
walkOneOffMultiJoin(view, multi, prefix) ==
    LET rel == multi.rels[Len(prefix) + 1]
        rows == SelectSeq(visitOneOffMultiJoinCandidateRows(view, multi, prefix), LAMBDA row :
                    /\ rel.vis # Nil => MatchRowSide(rel.vis, rel.t, rel.a, row)
                    /\ multiJoinPrefixConditionsMatch(multi, Append(prefix, row)))
    IN  IF Len(prefix) = Len(multi.rels) THEN <<prefix>>
        ELSE FlattenSeq([i \in DOMAIN rows |-> walkOneOffMultiJoin(view, multi, Append(prefix, rows[i]))])
visitOneOffMultiJoinTuples(view, multi) ==
    SelectSeq(walkOneOffMultiJoin(view, multi, <<>>), LAMBDA tuple :
        matchCompiledSQLMultiPredicate(multi.filter, multi.rels, tuple))

projectOneOffMultiJoinTuple(multi, tuple, proj) ==
    IF proj = <<>> THEN tuple[multi.projected] ELSE [i \in DOMAIN proj |-> tuple[proj[i].rel][proj[i].c]]
orderKeysFromMultiJoinTuple(tuple, orderBy) == [k \in DOMAIN orderBy |-> tuple[orderBy[k].rel][orderBy[k].c]]

-----------------------------------------------------------------------------
\* Aggregates, and the whole execution.

evaluateOneOffAggregate(view, t, q) ==
    LET rowValue(row) == IF q.agg.arg = Nil THEN 0 ELSE row[q.agg.arg.c]
        pairValue(pair) ==
            IF q.agg.arg = Nil THEN 0 ELSE pair[classifyOneOffPairColumnSource(q.pred, q.agg.arg)][q.agg.arg.c]
    IN  accumulate(q.agg,
            CASE q.pred.op = "join" -> [x \in ToSet(visitOneOffJoinPairs(view, q.pred)) |-> pairValue(x)]
              [] q.pred.op = "cross" -> [x \in ToSet(visitOneOffCrossJoinPairs(view, q.pred, FALSE)) |-> pairValue(x)]
              [] OTHER -> [r \in ToSet(visitOneOffSingleTableRows(view, t, q.pred)) |-> rowValue(r)])
evaluateOneOffMultiJoinAggregate(view, q) ==
    accumulate(q.agg, [tuple \in ToSet(visitOneOffMultiJoinTuples(view, q.multi)) |->
                          IF q.agg.arg = Nil THEN 0 ELSE tuple[q.agg.arg.rel][q.agg.arg.c]])

AggregateRow(value, q) ==
    IF value = Overflow THEN QueryError ELSE Rows(sliceOneOffRows(<<<<value>>>>, oneOffRowOffset(q), oneOffRowLimit(q)))

executeCompiledSQLMultiJoin(view, q) ==
    LET tuples == visitOneOffMultiJoinTuples(view, q.multi)
        rows == [i \in DOMAIN tuples |-> projectOneOffMultiJoinTuple(q.multi, tuples[i], q.proj)]
    IN  IF q.agg # NoAggregate THEN AggregateRow(evaluateOneOffMultiJoinAggregate(view, q), q)
        ELSE IF q.limit = 0 THEN Rows(<<>>)
        ELSE IF q.orderBy = <<>> THEN Rows(oneOffResultCollector(rows, q))
        ELSE Rows(collectOrdered([i \in DOMAIN rows |->
                [row |-> rows[i], key |-> orderKeysFromMultiJoinTuple(tuples[i], q.orderBy)]], q))

validateSQLQueryResultRowLimit(result) == IF Len(result.rows) > MaxRows THEN QueryError ELSE result

executeCompiledSQLQuery(view, q) ==
    LET t == q.table
    IN  IF q.multi # Nil THEN executeCompiledSQLMultiJoin(view, q)
        ELSE IF ~ValidateQueryPredicate(q.pred) THEN QueryError
        ELSE validateSQLQueryResultRowLimit(
            CASE q.agg # NoAggregate -> AggregateRow(evaluateOneOffAggregate(view, t, q), q)
              [] q.agg = NoAggregate /\ q.limit = 0 -> Rows(<<>>)
              [] q.agg = NoAggregate /\ q.limit # 0 ->
                    CASE q.pred.op = "join" -> Rows(evaluateOneOffJoin(view, q))
                      [] q.pred.op = "cross" -> Rows(evaluateOneOffCrossJoin(view, q))
                      [] OTHER -> Rows(evaluateOneOffSingleTable(view, t, q)))
=============================================================================
