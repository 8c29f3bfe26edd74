-------------------------- MODULE DeltaEvaluation --------------------------
(***************************************************************************)
(* How package subscription turns the changeset of one transaction into    *)
(* the rows a query gains and loses: single-table filters, live windows,   *)
(* the eight fragments of a two-table join, cross joins, multi-way joins   *)
(* and aggregates.                                                         *)
(*                                                                         *)
(* A delta view `dv` holds the committed rows AFTER the transaction        *)
(* (dv.view, sets of rows: the store admits no duplicate row), the rows it *)
(* inserted and deleted, and the columns that have a delta index.  What a  *)
(* query returns is a bag of rows.  An evaluation is a record of the       *)
(* inserted and deleted bags and of the rows charged to the delta budget.  *)
(***************************************************************************)
EXTENDS Predicate, Bags

CONSTANTS
    Nullable,      \* the columns <<t, c>> that admit NULL
    MaxSum,        \* the largest SUM its result kind can hold
    MaxDeltaRows   \* Manager.InitialRowLimit, shared by snapshots and deltas

Overflow == -3     \* the error of a SUM that does not fit

NoAggregate == [func |-> "none"]
\* A registered query: predicate, projection columns [t, c, a], aggregate
\* [func, distinct, arg], ORDER BY columns [c, desc], LIMIT and OFFSET.
IsWindow(q) == q.orderBy # <<>> \/ q.limit # None \/ q.offset # None

BagOver(S, F(_)) == [x \in {F(s) : s \in S} |-> Cardinality({s \in S : F(s) = x})]

-----------------------------------------------------------------------------
\* The delta view.

IsEventTable(t) == t \in EventTables
hasDeltaIndex(dv, t, c) == <<t, c>> \in dv.cols

DeltaIndexScan(dv, t, c, v, inserted) ==
    {r \in (IF inserted THEN dv.ins[t] ELSE dv.del[t]) : r[c] = v}

IndexSeek(view, t, c, v) == {r \in view[t] : r[c] = v}

tableRowsAfter(dv, t) == dv.view[t] \cup (IF IsEventTable(t) THEN dv.ins[t] ELSE {})
projectedRowsBefore(dv, t) == (tableRowsAfter(dv, t) \ dv.ins[t]) \cup dv.del[t]
rowCountAfter(dv, t) == Cardinality(tableRowsAfter(dv, t))
rowCountBefore(dv, t) ==
    LET n == rowCountAfter(dv, t) - Cardinality(dv.ins[t]) + Cardinality(dv.del[t])
    IN  IF n < 0 THEN 0 ELSE n

\* Bag cancellation of what was inserted against what was deleted.
reconcileJoinDelta(ins, del, charge) ==
    LET i == ins (-) del
        d == del (-) ins
    IN  [ins |-> i, del |-> d, charge |-> charge + BagCardinality(i) + BagCardinality(d)]

projectRow(row, proj) == [i \in DOMAIN proj |-> row[proj[i].c]]
projectBag(rows, proj) ==
    LET F(row) == projectRow(row, proj) IN IF proj = <<>> THEN rows ELSE BagOfAll(F, rows)

\* Project a delta; `reconcile` cancels rows the projection made equal.
projectDeltaRows(d, proj, reconcile) ==
    LET i == projectBag(d.ins, proj)
        e == projectBag(d.del, proj)
        charge == d.charge + (IF proj = <<>> THEN 0 ELSE BagCardinality(i) + BagCardinality(e))
    IN  IF ~reconcile \/ i = EmptyBag \/ e = EmptyBag
        THEN [ins |-> i, del |-> e, charge |-> charge]
        ELSE reconcileJoinDelta(i, e, charge)

-----------------------------------------------------------------------------
\* One table.

evalSingleTableDelta(dv, p, t) ==
    LET i == {r \in dv.ins[t] : MatchRow(p, t, r)}
        d == {r \in dv.del[t] : MatchRow(p, t, r)}
    IN  [ins |-> SetToBag(i), del |-> SetToBag(d), charge |-> Cardinality(i) + Cardinality(d)]

\* ORDER BY columns first, then the encoding of the whole row: a total order.
RECURSIVE LexLess(_, _)
LexLess(r, s) ==
    /\ s # <<>>
    /\ \/ r = <<>>
       \/ Head(r) < Head(s)
       \/ Head(r) = Head(s) /\ LexLess(Tail(r), Tail(s))

compareOrderedRows(orderBy, r, s) ==
    LET differs == {i \in DOMAIN orderBy : r[orderBy[i].c] # s[orderBy[i].c]}
    IN  IF differs = {} THEN LexLess(r, s)
        ELSE LET o == orderBy[CHOOSE i \in differs : \A j \in differs : i <= j]
             IN  IF o.desc THEN r[o.c] > s[o.c] ELSE r[o.c] < s[o.c]

\* initialRowWindow.apply: sort, skip OFFSET rows, keep LIMIT rows.
applyWindow(rows, q) ==
    LET rank(r) == Cardinality({s \in rows : compareOrderedRows(q.orderBy, s, r)})
        first == IF q.offset = None THEN 0 ELSE q.offset
    IN  {r \in rows : rank(r) >= first /\ (q.limit # None => rank(r) < first + q.limit)}

maintainsWindowedSingleTableDelta(q, t) ==
    q.agg = NoAggregate /\ ~IsEventTable(t) /\ IsWindow(q)

evalWindowedSingleTableDelta(dv, q, t) ==
    LET after == {r \in dv.view[t] : MatchRow(q.pred, t, r)}
        before == {r \in (dv.view[t] \ dv.ins[t]) \cup dv.del[t] : MatchRow(q.pred, t, r)}
    IN  projectDeltaRows(
            reconcileJoinDelta(SetToBag(applyWindow(after, q)), SetToBag(applyWindow(before, q)), 0),
            q.proj, q.proj # <<>>)

-----------------------------------------------------------------------------
\* Two-table joins: the rows of a fragment are pairs <<left, right>>.

projectedSide(j, pair) == IF j.projectRight THEN pair[2] ELSE pair[1]

\* Drive with delta rows of one side, probe the committed rows of the other:
\* by the probe column's index, by the delta index, or by a nested scan.
joinDriveCommittedRows(dv, driving, inserted, j, driveIsLeft) ==
    LET dt == IF driveIsLeft THEN j.left ELSE j.right
        dc == IF driveIsLeft THEN j.lc ELSE j.rc
        pt == IF driveIsLeft THEN j.right ELSE j.left
        pc == IF driveIsLeft THEN j.rc ELSE j.lc
        eventRows(v) == IF IsEventTable(pt) THEN DeltaIndexScan(dv, pt, pc, v, TRUE) ELSE {}
        byProbeIndex ==
            UNION {{<<d, p>> : p \in IndexSeek(dv.view, pt, pc, d[dc]) \cup eventRows(d[dc])} : d \in driving}
        byDeltaIndex ==
            UNION {{<<d, p>> : d \in DeltaIndexScan(dv, dt, dc, p[pc], inserted)} : p \in tableRowsAfter(dv, pt)}
        byNestedScan ==
            {x \in driving \X tableRowsAfter(dv, pt) : x[1][dc] = x[2][pc]}
        found == IF HasIndex(pt, pc) THEN byProbeIndex
                 ELSE IF hasDeltaIndex(dv, dt, dc) THEN byDeltaIndex ELSE byNestedScan
        pairs == {IF driveIsLeft THEN x ELSE <<x[2], x[1]>> : x \in found}
    IN  {x \in pairs : joinPairMatches(j, x[1], x[2])}

joinDriveDelta(dv, driving, j, probeInserts) ==
    {x \in UNION {{<<l, r>> : r \in DeltaIndexScan(dv, j.right, j.rc, l[j.lc], probeInserts)} : l \in driving} :
        joinPairMatches(j, x[1], x[2])}

evalJoinDeltaFragments(dv, j) ==
    LET insL == dv.ins[j.left]
        delL == dv.del[j.left]
        insR == dv.ins[j.right]
        delR == dv.del[j.right]
    IN  [ins |-> << joinDriveCommittedRows(dv, insL, TRUE, j, TRUE),
                    joinDriveCommittedRows(dv, insR, TRUE, j, FALSE),
                    joinDriveDelta(dv, insL, j, FALSE),
                    joinDriveDelta(dv, delL, j, TRUE) >>,
         del |-> << joinDriveCommittedRows(dv, delL, FALSE, j, TRUE),
                    joinDriveCommittedRows(dv, delR, FALSE, j, FALSE),
                    joinDriveDelta(dv, insL, j, TRUE),
                    joinDriveDelta(dv, delL, j, FALSE) >>]

RECURSIVE BagSumSeq(_)
BagSumSeq(bags) == IF bags = <<>> THEN EmptyBag ELSE Head(bags) (+) BagSumSeq(Tail(bags))

evalJoinDelta(dv, q) ==
    LET j == q.pred
        side(x) == projectedSide(j, x)
        f == evalJoinDeltaFragments(dv, j)
        ins == BagSumSeq([i \in DOMAIN f.ins |-> BagOver(f.ins[i], side)])
        del == BagSumSeq([i \in DOMAIN f.del |-> BagOver(f.del[i], side)])
    IN  projectDeltaRows(
            reconcileJoinDelta(ins, del, BagCardinality(ins) + BagCardinality(del)),
            q.proj, q.proj # <<>>)

\* A fragment between two delta sides reads the delta index of the right join
\* column, and panics when that index was not built.
deltaIndexPanics(dv, j) ==
    /\ dv.ins[j.left] \cup dv.del[j.left] # {}
    /\ dv.ins[j.right] \cup dv.del[j.right] # {}
    /\ ~hasDeltaIndex(dv, j.right, j.rc)

-----------------------------------------------------------------------------
\* Cross joins.

crossJoinOtherTable(p) == IF ProjectedTable(p) = p.left THEN p.right ELSE p.left

crossJoinPairs(p, left, right) == {x \in left \X right : MatchJoinPair(p.filter, p, x[1], x[2])}

crossJoinProjectedRows(p, left, right) ==
    LET side(x) == projectedSide(p, x) IN BagOver(crossJoinPairs(p, left, right), side)

\* Filtered, distinct tables: four fragments, each pair counted once.
evalFilteredCrossJoinDelta(dv, p) ==
    LET L == p.left
        R == p.right
        ins == crossJoinProjectedRows(p, dv.ins[L], tableRowsAfter(dv, R))
               (+) crossJoinProjectedRows(p, tableRowsAfter(dv, L) \ dv.ins[L], dv.ins[R])
        del == crossJoinProjectedRows(p, dv.del[L], projectedRowsBefore(dv, R))
               (+) crossJoinProjectedRows(p, projectedRowsBefore(dv, L) \ dv.del[L], dv.del[R])
    IN  reconcileJoinDelta(ins, del, BagCardinality(ins) + BagCardinality(del))

diffProjectedRowsWithMultiplicity(before, m, after, n, charge) ==
    LET times(rows, k) == IF k <= 0 THEN EmptyBag ELSE [r \in rows |-> k]
    IN  reconcileJoinDelta(times(after, n), times(before, m), charge)

evalCrossJoinDelta(dv, p) ==
    IF p.filter # Nil
    THEN IF p.left # p.right THEN evalFilteredCrossJoinDelta(dv, p)
         ELSE LET b == projectedRowsBefore(dv, p.left)
                  a == tableRowsAfter(dv, p.left)
                  before == crossJoinProjectedRows(p, b, b)
                  after == crossJoinProjectedRows(p, a, a)
              IN  reconcileJoinDelta(after, before, BagCardinality(after) + BagCardinality(before))
    ELSE diffProjectedRowsWithMultiplicity(
            projectedRowsBefore(dv, ProjectedTable(p)), rowCountBefore(dv, crossJoinOtherTable(p)),
            tableRowsAfter(dv, ProjectedTable(p)), rowCountAfter(dv, crossJoinOtherTable(p)), 0)

-----------------------------------------------------------------------------
\* Multi-way joins.

multiJoinConditionsMatchPrefix(p, tuple) ==
    \A i \in DOMAIN p.conds :
        LET c == p.conds[i]
        IN  (c.left.rel <= Len(tuple) /\ c.right.rel <= Len(tuple)) => multiJoinConditionValuesEqual(c, tuple)

\* The tuples of the first n relations, each prefix checked as it grows.
RECURSIVE MultiJoinPrefixes(_, _, _)
MultiJoinPrefixes(p, rows, n) ==
    IF n = 0 THEN {<<>>}
    ELSE {t \in {Append(x, r) : x \in MultiJoinPrefixes(p, rows, n - 1), r \in rows[n]} :
            multiJoinConditionsMatchPrefix(p, t)}

visitMultiJoinTuples(p, rows) ==
    {t \in MultiJoinPrefixes(p, rows, Len(p.rels)) : matchMultiJoinTuple(p.filter, p.rels, t)}

projectMultiJoinTuple(p, proj, tuple) ==
    IF proj = <<>> THEN tuple[p.projected]
    ELSE [i \in DOMAIN proj |->
            tuple[CHOOSE k \in DOMAIN p.rels : p.rels[k] = [t |-> proj[i].t, a |-> proj[i].a]][proj[i].c]]

collectMultiJoinProjectedRows(p, rows, proj) ==
    LET row(tuple) == projectMultiJoinTuple(p, proj, tuple)
    IN  BagOver(visitMultiJoinTuples(p, rows), row)

multiJoinRowsByRelationBefore(dv, p) == [i \in DOMAIN p.rels |-> projectedRowsBefore(dv, p.rels[i].t)]
multiJoinRowsByRelationAfter(dv, p) == [i \in DOMAIN p.rels |-> tableRowsAfter(dv, p.rels[i].t)]

\* Mutant: every other relation is read after the transaction, so tuples with
\* two changed rows are counted twice.
MultiJoinDeltaRowsAfter(before, after, relation, delta, insert) ==
    [i \in DOMAIN before |-> IF i = relation THEN delta ELSE after[i]]

\* Relations before the changed one are read on one side of the transaction,
\* relations after it on the other: no tuple is counted twice.
multiJoinDeltaRowsByRelation(before, after, relation, delta, insert) ==
    [i \in DOMAIN before |->
        IF i = relation THEN delta
        ELSE IF insert = (i < relation) THEN after[i] ELSE before[i]]

evalMultiJoinDelta(dv, p, proj) ==
    LET before == multiJoinRowsByRelationBefore(dv, p)
        after == multiJoinRowsByRelationAfter(dv, p)
        rows(i, delta, insert) ==
            collectMultiJoinProjectedRows(p, multiJoinDeltaRowsByRelation(before, after, i, delta, insert), proj)
        ins == IF proj # <<>> THEN collectMultiJoinProjectedRows(p, after, proj)
               ELSE BagSumSeq([i \in DOMAIN p.rels |-> rows(i, dv.ins[p.rels[i].t], TRUE)])
        del == IF proj # <<>> THEN collectMultiJoinProjectedRows(p, before, proj)
               ELSE BagSumSeq([i \in DOMAIN p.rels |-> rows(i, dv.del[p.rels[i].t], FALSE)])
    IN  reconcileJoinDelta(ins, del, BagCardinality(ins) + BagCardinality(del))
=============================================================================
