----------------------------- MODULE Predicate -----------------------------
(***************************************************************************)
(* The predicates of package subscription, what it means for rows to       *)
(* satisfy one, and the validation a query passes before it is registered. *)
(*                                                                         *)
(* Tables are numbers, a row is the sequence of its column values and      *)
(* columns are counted from 1.  A value is a number; NULL sorts below      *)
(* every other value, as Value.Compare has it.  A missing sub-predicate    *)
(* (nil in the code) is Nil.                                               *)
(***************************************************************************)
EXTENDS Integers, Sequences, FiniteSets, SequencesExt

CONSTANTS
    ColumnType,   \* ColumnType[t] is the sequence of the kinds of t's columns
    EventTables,  \* the tables whose rows exist only in their transaction
    Indexed       \* the pairs <<table, column>> with a single-column index

NULL == -1
None == -2        \* an absent limit or offset (a nil pointer in the code)
MaxAlias == 2

Tables == DOMAIN ColumnType
ColumnExists(t, c) == t \in Tables /\ c \in DOMAIN ColumnType[t]
HasIndex(t, c) == <<t, c>> \in Indexed

Nil == [op |-> "nil"]
Unbounded == [unb |-> TRUE, incl |-> FALSE, v |-> 0]
Inclusive(v) == [unb |-> FALSE, incl |-> TRUE, v |-> v]
Exclusive(v) == [unb |-> FALSE, incl |-> FALSE, v |-> v]
ColEq(t, c, a, v) == [op |-> "eq", t |-> t, c |-> c, a |-> a, v |-> v]
ColNe(t, c, a, v) == [op |-> "ne", t |-> t, c |-> c, a |-> a, v |-> v]
ColRange(t, c, a, lo, hi) ==
    [op |-> "range", t |-> t, c |-> c, a |-> a, lo |-> lo, hi |-> hi]
ColEqCol(t, c, a, rt, rc, ra) ==
    [op |-> "eqcol", t |-> t, c |-> c, a |-> a, rt |-> rt, rc |-> rc, ra |-> ra]
And(l, r) == [op |-> "and", l |-> l, r |-> r]
Or(l, r) == [op |-> "or", l |-> l, r |-> r]
AllRows(t) == [op |-> "all", t |-> t]
NoRows(t) == [op |-> "no", t |-> t]
\* Joins: tables `left` and `right`, aliases la and ra, the projected side and
\* a filter.  A Join also equates column lc of the left with rc of the right.
Join(l, lc, r, rc, right, f) ==
    [op |-> "join", left |-> l, right |-> r, lc |-> lc, rc |-> rc, la |-> 0,
     ra |-> IF l = r THEN 1 ELSE 0, projectRight |-> right, filter |-> f]
CrossJoin(l, r, right, f) ==
    [op |-> "cross", left |-> l, right |-> r, la |-> 0,
     ra |-> IF l = r THEN 1 ELSE 0, projectRight |-> right, filter |-> f]
\* A MultiJoin has three or more relations [t, a]; a condition equates two
\* columns [rel, c] of different relations.
MultiJoin(rels, conds, projected, f) ==
    [op |-> "multi", rels |-> rels, conds |-> conds, projected |-> projected,
     filter |-> f]

IsLeaf(p) == p.op \in {"eq", "ne", "range", "eqcol"}
IsLogical(p) == p.op \in {"and", "or"}
IsJoinLike(p) == p.op \in {"join", "cross", "multi"}

ProjectedTable(p) ==
    IF p.op = "multi" THEN p.rels[p.projected].t
    ELSE IF p.projectRight THEN p.right ELSE p.left

RECURSIVE PredicateTables(_)
PredicateTables(p) ==
    CASE p.op = "nil" -> {}
      [] p.op = "eqcol" -> {p.t, p.rt}
      [] IsLogical(p) -> PredicateTables(p.l) \cup PredicateTables(p.r)
      [] p.op \in {"join", "cross"} -> {p.left, p.right}
      [] p.op = "multi" -> {p.rels[i].t : i \in DOMAIN p.rels}
      [] OTHER -> {p.t}

-----------------------------------------------------------------------------
\* When rows satisfy a predicate.

matchBounds(v, lo, hi) ==
    /\ lo.unb \/ v > lo.v \/ (lo.incl /\ v = lo.v)
    /\ hi.unb \/ v < hi.v \/ (hi.incl /\ v = hi.v)

ColumnHolds(p, v) ==
    CASE p.op = "eq" -> v = p.v
      [] p.op = "ne" -> v # p.v
      [] p.op = "range" -> matchBounds(v, p.lo, p.hi)

\* `rows` binds relations <<table, alias>> to rows.  A leaf about a relation
\* that is not bound has the value `unbound`.
RECURSIVE Satisfies(_, _, _)
Satisfies(p, rows, unbound) ==
    CASE p.op \in {"eq", "ne", "range"} ->
            IF <<p.t, p.a>> \in DOMAIN rows
            THEN ColumnHolds(p, rows[<<p.t, p.a>>][p.c]) ELSE unbound
      [] p.op = "eqcol" ->
            IF {<<p.t, p.a>>, <<p.rt, p.ra>>} \subseteq DOMAIN rows
            THEN rows[<<p.t, p.a>>][p.c] = rows[<<p.rt, p.ra>>][p.rc]
            ELSE unbound
      [] p.op = "and" -> Satisfies(p.l, rows, unbound) /\ Satisfies(p.r, rows, unbound)
      [] p.op = "or" -> Satisfies(p.l, rows, unbound) \/ Satisfies(p.r, rows, unbound)
      [] OTHER -> p.op # "no"

\* One side of a query: leaves about other relations constrain nothing.
MatchRowSide(p, t, a, row) == Satisfies(p, [x \in {<<t, a>>} |-> row], TRUE)
MatchRow(p, t, row) == MatchRowSide(p, t, 0, row)

\* The rows a leaf sees in a pair: by alias when both sides are one table, by
\* table alone otherwise.
joinPredicateRow(j, l, r) ==
    IF j.left = j.right
    THEN [x \in {<<j.left, j.la>>, <<j.right, j.ra>>} |-> IF x[2] = j.la THEN l ELSE r]
    ELSE [x \in {j.left, j.right} \X (0 .. MaxAlias) |-> IF x[1] = j.left THEN l ELSE r]

MatchJoinPair(p, j, l, r) ==
    p.op = "nil" \/ Satisfies(p, joinPredicateRow(j, l, r), FALSE)

joinPairMatches(j, l, r) == MatchJoinPair(j.filter, j, l, r)

\* The same for a tuple of a multi-way join, where a table may occur once
\* (the alias is ignored) or several times (the alias decides).
RelationsOf(rels, t) == {i \in DOMAIN rels : rels[i].t = t}

RelationIndex(rels, t, a) ==
    IF Cardinality(RelationsOf(rels, t)) = 1 THEN RelationsOf(rels, t)
    ELSE {i \in DOMAIN rels : rels[i] = [t |-> t, a |-> a]}

multiJoinPredicateRow(rels, tuple) ==
    [x \in {y \in Tables \X (0 .. MaxAlias) : RelationIndex(rels, y[1], y[2]) # {}} |->
        tuple[CHOOSE i \in RelationIndex(rels, x[1], x[2]) : TRUE]]

matchMultiJoinTuple(p, rels, tuple) ==
    p.op = "nil" \/ Satisfies(p, multiJoinPredicateRow(rels, tuple), FALSE)

multiJoinConditionValuesEqual(cond, tuple) ==
    tuple[cond.left.rel][cond.left.c] = tuple[cond.right.rel][cond.right.c]

-----------------------------------------------------------------------------
\* Validation.  `index` says whether a join needs an index on either column,
\* as registration demands and one-off queries do not.

KindOf(v) == IF v >= 100 THEN "string" ELSE "int"
ValidValue(t, c, v) == ColumnExists(t, c) /\ (v = NULL \/ ColumnType[t][c] = KindOf(v))
ValidBound(t, c, b) == b.unb \/ ValidValue(t, c, b.v)

RECURSIVE Leaves(_)
Leaves(p) ==
    CASE IsLogical(p) -> Leaves(p.l) \cup Leaves(p.r)
      [] IsLeaf(p) -> {p}
      [] OTHER -> {}

LeafAliases(p) == IF p.op = "eqcol" THEN {<<p.t, p.a>>, <<p.rt, p.ra>>} ELSE {<<p.t, p.a>>}

validateSelfJoinFilterAliases(j) ==
    j.left = j.right =>
        \A p \in Leaves(j.filter) : \A x \in LeafAliases(p) : x[2] \in {j.la, j.ra}

validateMultiJoinFilterAliases(p) ==
    \A leaf \in Leaves(p.filter) : \A x \in LeafAliases(leaf) :
        Cardinality(RelationsOf(p.rels, x[1])) > 1 =>
            \E i \in DOMAIN p.rels : p.rels[i] = [t |-> x[1], a |-> x[2]]

validateMultiJoinColumnRef(p, ref) ==
    ref.rel \in DOMAIN p.rels /\ ColumnExists(p.rels[ref.rel].t, ref.c)

RECURSIVE validateWithOptions(_, _)
validateJoin(j, index) ==
    /\ ColumnExists(j.left, j.lc) /\ ColumnExists(j.right, j.rc)
    /\ j.left = j.right => j.la # j.ra
    /\ ColumnType[j.left][j.lc] = ColumnType[j.right][j.rc]
    /\ index => HasIndex(j.left, j.lc) \/ HasIndex(j.right, j.rc)
    /\ PredicateTables(j.filter) \subseteq {j.left, j.right}
    /\ validateSelfJoinFilterAliases(j)
    /\ validateWithOptions(j.filter, index)

validateCrossJoin(j, index) ==
    /\ {j.left, j.right} \subseteq Tables
    /\ j.left = j.right => j.la # j.ra
    /\ PredicateTables(j.filter) \subseteq {j.left, j.right}
    /\ validateSelfJoinFilterAliases(j)
    /\ validateWithOptions(j.filter, index)

validateMultiJoin(p, index) ==
    /\ Len(p.rels) >= 3 /\ p.projected \in DOMAIN p.rels
    /\ \A i \in DOMAIN p.rels : p.rels[i].t \in Tables
    /\ IsInjective(p.rels)
    /\ \A i \in DOMAIN p.conds :
          LET l == p.conds[i].left
              r == p.conds[i].right
          IN  /\ validateMultiJoinColumnRef(p, l) /\ validateMultiJoinColumnRef(p, r)
              /\ l.rel # r.rel
              /\ ColumnType[p.rels[l.rel].t][l.c] = ColumnType[p.rels[r.rel].t][r.c]
              /\ index => HasIndex(p.rels[l.rel].t, l.c) \/ HasIndex(p.rels[r.rel].t, r.c)
    /\ PredicateTables(p.filter) \subseteq PredicateTables(p)
    /\ validateMultiJoinFilterAliases(p)
    /\ validateWithOptions(p.filter, index)

validateWithOptions(p, index) ==
    CASE p.op = "nil" -> TRUE
      [] p.op \in {"eq", "ne"} -> ValidValue(p.t, p.c, p.v)
      [] p.op = "range" ->
            /\ ColumnExists(p.t, p.c)
            /\ ValidBound(p.t, p.c, p.lo) /\ ValidBound(p.t, p.c, p.hi)
      [] p.op = "eqcol" ->
            /\ ColumnExists(p.t, p.c) /\ ColumnExists(p.rt, p.rc)
            /\ ColumnType[p.t][p.c] = ColumnType[p.rt][p.rc]
      [] IsLogical(p) ->
            /\ p.l # Nil /\ p.r # Nil
            /\ validateWithOptions(p.l, index) /\ validateWithOptions(p.r, index)
      [] p.op \in {"all", "no"} -> p.t \in Tables
      [] p.op = "join" -> validateJoin(p, index)
      [] p.op = "cross" -> validateCrossJoin(p, index)
      [] p.op = "multi" -> validateMultiJoin(p, index)

validateRootPredicate(p) ==
    p # Nil /\ (p.op = "multi" \/ Cardinality(PredicateTables(p)) <= 2)

ValidatePredicate(p) == validateRootPredicate(p) /\ validateWithOptions(p, TRUE)
ValidateQueryPredicate(p) == validateRootPredicate(p) /\ validateWithOptions(p, FALSE)
=============================================================================
