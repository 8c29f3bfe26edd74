----------------------------- MODULE SQLCompile -----------------------------
(***************************************************************************)
(* The SQL compiler of package protocol: from a parsed statement to the    *)
(* predicate, projection, aggregate and window that one-off queries run    *)
(* and subscriptions register, with the row-level visibility filters of    *)
(* the caller worked into every relation.                                  *)
(*                                                                         *)
(* A statement is its parse tree; the text and the wording of errors are   *)
(* left out, every error is Rejected.  It is a record of                   *)
(*   rels     relations [t, as]; `as` is the alias, "" when there is none  *)
(*   on       for each relation after the first, [has, l, r]               *)
(*   where    a tree of NoWhere, SQLTrue, SQLFalse, Cmp, IsNull, ColCmp,   *)
(*            And and Or                                                   *)
(*   star     the qualifier of q.*, "" for a bare *                        *)
(*   cols     the column list, [ref, as]; `as` is 0 without output alias   *)
(*   agg      NoAggregate or [func, distinct, arg (a ref or Nil), as]      *)
(*   orderBy  terms [ref, desc];  limit, offset   a number or None         *)
(* and a column reference is [q, c], with q = "" when it is unqualified.   *)
(* Column names are the column numbers; other numbers name nothing.        *)
(***************************************************************************)
EXTENDS QueryEvaluation

CONSTANT TableName   \* TableName[t] is the name a statement uses for table t

Rejected == [ok |-> FALSE]

NoWhere == Nil
SQLTrue == [op |-> "true"]
SQLFalse == [op |-> "false"]
Cmp(ref, cmp, lit) == [op |-> "cmp", ref |-> ref, cmp |-> cmp, lit |-> lit]
IsNull(ref, not) == [op |-> "null", ref |-> ref, not |-> not]
ColCmp(l, cmp, r) == [op |-> "cols", l |-> l, cmp |-> cmp, r |-> r]

\* Literals: a value, :sender, or a declared parameter.
Value(v) == [kind |-> "value", v |-> v]
Sender == [kind |-> "sender"]
Param(p) == [kind |-> "param", p |-> p]

-----------------------------------------------------------------------------
\* Scopes.  An alias replaces the table's name as the only qualifier; with one
\* relation an unqualified name is that relation's, with several it is none's.

Qualifier(rel) == IF rel.as = "" THEN TableName[rel.t] ELSE rel.as
Bound(stmt, ref) ==
    {i \in DOMAIN stmt.rels :
        IF ref.q = "" THEN Len(stmt.rels) = 1 ELSE Qualifier(stmt.rels[i]) = ref.q}
RelationOf(stmt, ref) == CHOOSE i \in Bound(stmt, ref) : TRUE
lookupSQLColumnExact(stmt, ref) == \E i \in Bound(stmt, ref) : ColumnExists(stmt.rels[i].t, ref.c)
ColumnKind(stmt, ref) == ColumnType[stmt.rels[RelationOf(stmt, ref)].t][ref.c]

AliasCollision(stmt) == ~IsInjective([i \in DOMAIN stmt.rels |-> Qualifier(stmt.rels[i])])
SelfJoin(stmt) == Len(stmt.rels) = 2 /\ stmt.rels[1].t = stmt.rels[2].t

\* The alias a leaf of the predicate carries: the side of a self-join, the
\* position in a multi-way join, 0 elsewhere.
aliasTag(stmt, i) == IF SelfJoin(stmt) \/ Len(stmt.rels) > 2 THEN i - 1 ELSE 0

compileSQLColumnRefForRelations(stmt, ref) ==
    LET i == RelationOf(stmt, ref)
    IN  [t |-> stmt.rels[i].t, c |-> ref.c, a |-> aliasTag(stmt, i), rel |-> i]

\* ON equates an earlier relation with the one it joins, in either order.
parseJoinClause(stmt, k) ==
    LET on == stmt.on[k - 1]
    IN  on.has =>
            /\ Bound(stmt, on.l) # {} /\ Bound(stmt, on.r) # {}
            /\ \/ RelationOf(stmt, on.l) < k /\ RelationOf(stmt, on.r) = k
               \/ RelationOf(stmt, on.r) < k /\ RelationOf(stmt, on.l) = k
ExistingSide(stmt, k) ==
    IF RelationOf(stmt, stmt.on[k - 1].l) < k THEN stmt.on[k - 1].l ELSE stmt.on[k - 1].r
JoinedSide(stmt, k) ==
    IF RelationOf(stmt, stmt.on[k - 1].l) < k THEN stmt.on[k - 1].r ELSE stmt.on[k - 1].l

parseAggregateProjection(agg) ==
    agg # NoAggregate =>
        /\ agg.func = "SUM" => ~agg.distinct /\ agg.arg # Nil
        /\ agg.distinct => agg.arg # Nil

\* The relation whose rows the statement returns.
ProjectedRelation(stmt) ==
    CASE stmt.cols # <<>> -> RelationOf(stmt, stmt.cols[1].ref)
      [] stmt.cols = <<>> /\ stmt.star # "" -> RelationOf(stmt, [q |-> stmt.star, c |-> 0])
      [] OTHER -> 1
ProjectionKnown(stmt) ==
    /\ stmt.cols # <<>> => Bound(stmt, stmt.cols[1].ref) # {}
    /\ stmt.cols = <<>> /\ stmt.agg = NoAggregate =>
          IF stmt.star = "" THEN Len(stmt.rels) = 1 ELSE Bound(stmt, [q |-> stmt.star, c |-> 0]) # {}

-----------------------------------------------------------------------------
\* The WHERE clause.  env is what a compilation knows of its caller: identity,
\* the tables it may read and the parameters bound ([kind, v] by name).

\* queryplan.NormalizePredicate: boolean constants folded away.
RECURSIVE NormalizePredicate(_)
NormalizePredicate(p) ==
    IF ~IsLogical(p) THEN p
    ELSE LET l == NormalizePredicate(p.l)
             r == NormalizePredicate(p.r)
             absorbing == IF p.op = "and" THEN SQLFalse ELSE SQLTrue
             neutral == IF p.op = "and" THEN SQLTrue ELSE SQLFalse
         IN  IF absorbing \in {l, r} THEN absorbing
             ELSE IF l = neutral THEN r
             ELSE IF r = neutral THEN l
             ELSE [op |-> p.op, l |-> l, r |-> r]

RECURSIVE PredicateLiterals(_)
PredicateLiterals(p) ==
    CASE IsLogical(p) -> PredicateLiterals(p.l) \cup PredicateLiterals(p.r)
      [] p.op = "cmp" -> {p.lit}
      [] OTHER -> {}
PredicateUsesCallerIdentity(p) == Sender \in PredicateLiterals(p)

compileSQLLiteral(env, lit) ==
    CASE lit.kind = "value" -> lit.v
      [] lit.kind = "sender" -> env.caller
      [] lit.kind = "param" -> env.params[lit.p].v
LiteralCompiles(env, lit, kind) ==
    CASE lit.kind = "value" -> lit.v # NULL /\ KindOf(lit.v) = kind
      [] lit.kind = "sender" -> kind = "string"
      [] lit.kind = "param" -> lit.p \in DOMAIN env.params /\ env.params[lit.p].kind = kind
\* Every declared parameter is used by the statement.
validateUsed(stmt, env) == \A p \in DOMAIN env.params : Param(p) \in PredicateLiterals(stmt.where)

normalizePredicate(col, cmp, v) ==
    CASE cmp = "=" -> ColEq(col.t, col.c, col.a, v)
      [] cmp = "!=" -> ColNe(col.t, col.c, col.a, v)
      [] cmp = ">" -> ColRange(col.t, col.c, col.a, Exclusive(v), Unbounded)
      [] cmp = ">=" -> ColRange(col.t, col.c, col.a, Inclusive(v), Unbounded)
      [] cmp = "<" -> ColRange(col.t, col.c, col.a, Unbounded, Exclusive(v))
      [] cmp = "<=" -> ColRange(col.t, col.c, col.a, Unbounded, Inclusive(v))

normalizeSQLFilterForRelations(stmt, env, p) ==
    normalizePredicate(compileSQLColumnRefForRelations(stmt, p.ref), p.cmp, compileSQLLiteral(env, p.lit))
normalizeSQLNullPredicateForRelations(stmt, p) ==
    normalizePredicate(compileSQLColumnRefForRelations(stmt, p.ref), IF p.not THEN "!=" ELSE "=", NULL)

columnComparisonCompiles(stmt, p) ==
    /\ p.cmp = "="
    /\ lookupSQLColumnExact(stmt, p.l) /\ lookupSQLColumnExact(stmt, p.r)
    /\ ColumnKind(stmt, p.l) = ColumnKind(stmt, p.r)
compileSQLColumnComparisonForRelations(stmt, p) ==
    LET l == compileSQLColumnRefForRelations(stmt, p.l)
        r == compileSQLColumnRefForRelations(stmt, p.r)
    IN  ColEqCol(l.t, l.c, l.a, r.t, r.c, r.a)

\* Whether a WHERE tree compiles; `columns` allows column comparisons.
RECURSIVE PredicateCompiles(_, _, _, _)
PredicateCompiles(stmt, env, p, columns) ==
    CASE IsLogical(p) -> PredicateCompiles(stmt, env, p.l, columns) /\ PredicateCompiles(stmt, env, p.r, columns)
      [] p.op = "cmp" -> lookupSQLColumnExact(stmt, p.ref) /\ LiteralCompiles(env, p.lit, ColumnKind(stmt, p.ref))
      [] p.op = "null" -> lookupSQLColumnExact(stmt, p.ref)
      [] p.op = "cols" -> columns /\ columnComparisonCompiles(stmt, p)
      [] OTHER -> TRUE

RECURSIVE compileSQLPredicateForSingleRelation(_, _, _)
compileSQLPredicateForSingleRelation(stmt, env, p) ==
    CASE p.op \in {"nil", "true"} -> AllRows(stmt.rels[1].t)
      [] p.op = "false" -> NoRows(stmt.rels[1].t)
      [] p.op = "cmp" -> normalizeSQLFilterForRelations(stmt, env, p)
      [] p.op = "null" -> normalizeSQLNullPredicateForRelations(stmt, p)
      [] IsLogical(p) -> [op |-> p.op, l |-> compileSQLPredicateForSingleRelation(stmt, env, p.l),
                          r |-> compileSQLPredicateForSingleRelation(stmt, env, p.r)]

RECURSIVE compileSQLPredicateForRelations(_, _, _)
compileSQLPredicateForRelations(stmt, env, p) ==
    CASE p.op \in {"nil", "true", "false"} -> Nil
      [] p.op = "cmp" -> normalizeSQLFilterForRelations(stmt, env, p)
      [] p.op = "null" -> normalizeSQLNullPredicateForRelations(stmt, p)
      [] p.op = "cols" -> compileSQLColumnComparisonForRelations(stmt, p)
      [] IsLogical(p) -> [op |-> p.op, l |-> compileSQLPredicateForRelations(stmt, env, p.l),
                          r |-> compileSQLPredicateForRelations(stmt, env, p.r)]

andSubscriptionPredicates(l, r) == IF l = Nil THEN r ELSE IF r = Nil THEN l ELSE And(l, r)
orSubscriptionPredicates(l, r) == IF l = Nil THEN r ELSE IF r = Nil THEN l ELSE Or(l, r)

-----------------------------------------------------------------------------
\* Column list, aggregate and ORDER BY.

OutputName(col) == IF col.as = 0 THEN col.ref.c ELSE col.as
ColumnsCompile(stmt) ==
    /\ \A i \in DOMAIN stmt.cols : lookupSQLColumnExact(stmt, stmt.cols[i].ref)
    /\ IsInjective([i \in DOMAIN stmt.cols |-> OutputName(stmt.cols[i])])
compileProjectionColumns(stmt) ==
    [i \in DOMAIN stmt.cols |-> compileSQLColumnRefForRelations(stmt, stmt.cols[i].ref)]

AggregateCompiles(stmt) ==
    stmt.agg # NoAggregate /\ stmt.agg.arg # Nil =>
        /\ lookupSQLColumnExact(stmt, stmt.agg.arg)
        /\ stmt.agg.func = "SUM" => ColumnKind(stmt, stmt.agg.arg) = "int"
compileAggregateProjection(stmt) ==
    IF stmt.agg = NoAggregate THEN NoAggregate
    ELSE [func |-> stmt.agg.func, distinct |-> stmt.agg.distinct,
          arg |-> IF stmt.agg.arg = Nil THEN Nil ELSE compileSQLColumnRefForRelations(stmt, stmt.agg.arg)]

\* The columns of the list an unqualified ORDER BY name may stand for.
resolveOrderByProjectionOutputName(stmt, name) == {i \in DOMAIN stmt.cols : OutputName(stmt.cols[i]) = name}

compileSingleRelationOrderByTerm(stmt, ref) ==
    LET output == resolveOrderByProjectionOutputName(stmt, ref.c)
        named == stmt.cols[CHOOSE i \in output : TRUE].ref
        isColumn == lookupSQLColumnExact(stmt, ref)
    IN  IF ref.q = "" /\ output # {}
        THEN IF isColumn /\ named.c # ref.c THEN Rejected ELSE compileSQLColumnRefForRelations(stmt, named)
        ELSE IF isColumn THEN compileSQLColumnRefForRelations(stmt, ref) ELSE Rejected

compileJoinOrderByTerm(stmt, ref) ==
    LET output == resolveOrderByProjectionOutputName(stmt, ref.c)
    IN  IF ref.q = ""
        THEN IF output = {} THEN Rejected
             ELSE compileSQLColumnRefForRelations(stmt, stmt.cols[CHOOSE i \in output : TRUE].ref)
        ELSE IF lookupSQLColumnExact(stmt, ref) /\ RelationOf(stmt, ref) = ProjectedRelation(stmt)
        THEN compileSQLColumnRefForRelations(stmt, ref) ELSE Rejected

compileOrderByTerm(stmt, ref) ==
    IF Len(stmt.rels) = 1 THEN compileSingleRelationOrderByTerm(stmt, ref) ELSE compileJoinOrderByTerm(stmt, ref)
OrderByCompiles(stmt) ==
    \A i \in DOMAIN stmt.orderBy :
        LET ref == stmt.orderBy[i].ref
        IN  IF stmt.agg # NoAggregate THEN ref.q = "" /\ ref.c = stmt.agg.as
            ELSE compileOrderByTerm(stmt, ref) # Rejected
\* An aggregate has one row, so its ORDER BY is dropped.
compileOrderByList(stmt) ==
    IF stmt.agg # NoAggregate THEN <<>>
    ELSE [i \in DOMAIN stmt.orderBy |->
            LET col == compileOrderByTerm(stmt, stmt.orderBy[i].ref)
            IN  [t |-> col.t, c |-> col.c, a |-> col.a, rel |-> col.rel, desc |-> stmt.orderBy[i].desc]]

-----------------------------------------------------------------------------
\* Whole statements.  multi is Nil, or what a multi-way join keeps of itself
\* for one-off execution: relations with their visibility, and the filter.

CompiledQuery(stmt, pred, multi) ==
    [ok |-> TRUE, table |-> stmt.rels[ProjectedRelation(stmt)].t, pred |-> pred, multi |-> multi,
     proj |-> compileProjectionColumns(stmt), agg |-> compileAggregateProjection(stmt),
     orderBy |-> compileOrderByList(stmt), ordered |-> stmt.orderBy # <<>>, limit |-> stmt.limit, offset |-> stmt.offset,
     usesCaller |-> PredicateUsesCallerIdentity(NormalizePredicate(stmt.where))]

JoinColumnsIndexed(l, r) == HasIndex(l.t, l.c) \/ HasIndex(r.t, r.c)

\* What every shape of statement must satisfy.
StatementCompiles(stmt, env, opts) ==
    /\ opts.orderBy \/ stmt.orderBy = <<>>
    /\ opts.limit \/ stmt.limit = None
    /\ opts.offset \/ stmt.offset = None
    /\ \A i \in DOMAIN stmt.rels : stmt.rels[i].t \in env.readable
    /\ ~AliasCollision(stmt)
    /\ \A k \in 2 .. Len(stmt.rels) : parseJoinClause(stmt, k)
    /\ \A k \in 2 .. Len(stmt.rels) : stmt.on[k - 1].has =>
          columnComparisonCompiles(stmt, ColCmp(ExistingSide(stmt, k), "=", JoinedSide(stmt, k)))
    /\ parseAggregateProjection(stmt.agg)
    /\ ProjectionKnown(stmt) /\ ColumnsCompile(stmt) /\ AggregateCompiles(stmt) /\ OrderByCompiles(stmt)
    /\ opts.projection \/ (stmt.cols = <<>> /\ stmt.agg = NoAggregate)

\* A WHERE without ON: its single column equality becomes the join condition
\* and the other conjuncts, which compare no columns, its filter.
RECURSIVE splitCrossJoinWherePredicateTree(_)
splitCrossJoinWherePredicateTree(p) ==
    CASE p.op = "cols" -> [cmps |-> <<p>>, filter |-> Nil]
      [] p.op = "and" ->
            LET l == splitCrossJoinWherePredicateTree(p.l)
                r == splitCrossJoinWherePredicateTree(p.r)
            IN  [cmps |-> l.cmps \o r.cmps, filter |-> andSubscriptionPredicates(l.filter, r.filter)]
      [] OTHER -> [cmps |-> <<>>, filter |-> p]

compileCrossJoinWhereLiteralFilter(stmt, env, filter) ==
    LET folded == NormalizePredicate(filter)
    IN  IF folded = SQLFalse THEN NoRows(stmt.rels[1].t) ELSE compileSQLPredicateForRelations(stmt, env, folded)

compileCrossJoinWhereColumnEquality(stmt, env) ==
    LET parts == splitCrossJoinWherePredicateTree(stmt.where)
        cmp == parts.cmps[1]
        left == IF RelationOf(stmt, cmp.l) = 1 THEN cmp.l ELSE cmp.r
        right == IF RelationOf(stmt, cmp.l) = 1 THEN cmp.r ELSE cmp.l
    IN  IF /\ Len(parts.cmps) = 1
           /\ columnComparisonCompiles(stmt, cmp)
           /\ RelationOf(stmt, cmp.l) # RelationOf(stmt, cmp.r)
           /\ ~SelfJoin(stmt)
           /\ PredicateCompiles(stmt, env, parts.filter, FALSE)
        THEN Join(stmt.rels[1].t, left.c, stmt.rels[2].t, right.c, ProjectedRelation(stmt) = 2,
                  compileCrossJoinWhereLiteralFilter(stmt, env, parts.filter))
        ELSE Rejected

compileTwoWayJoin(stmt, env, opts) ==
    LET l == stmt.rels[1].t
        r == stmt.rels[2].t
        right == ProjectedRelation(stmt) = 2
        folded == NormalizePredicate(stmt.where)
        equality == compileCrossJoinWhereColumnEquality(stmt, env)
        lc == compileSQLColumnRefForRelations(stmt, ExistingSide(stmt, 2))
        rc == compileSQLColumnRefForRelations(stmt, JoinedSide(stmt, 2))
    IN  IF ~stmt.on[1].has
        THEN IF stmt.where = NoWhere THEN CompiledQuery(stmt, CrossJoin(l, r, right, Nil), Nil)
             ELSE IF \/ equality = Rejected
                     \/ ~opts.projection /\ ~HasIndex(l, equality.lc) /\ ~HasIndex(r, equality.rc)
             THEN Rejected
             ELSE CompiledQuery(stmt, equality, Nil)
        ELSE IF ~PredicateCompiles(stmt, env, stmt.where, TRUE) THEN Rejected
        ELSE IF folded = SQLFalse
        THEN CompiledQuery(stmt, NoRows(stmt.rels[ProjectedRelation(stmt)].t), Nil)
        ELSE IF ~opts.projection /\ ~JoinColumnsIndexed(lc, rc) THEN Rejected
        ELSE CompiledQuery(stmt, Join(l, lc.c, r, rc.c, right, compileSQLPredicateForRelations(stmt, env, folded)), Nil)

compileSingleRelation(stmt, env) ==
    IF PredicateCompiles(stmt, env, stmt.where, FALSE)
    THEN CompiledQuery(stmt, compileSQLPredicateForSingleRelation(stmt, env, NormalizePredicate(stmt.where)), Nil)
    ELSE Rejected

-----------------------------------------------------------------------------
\* Joins of three relations and more.

compileMultiJoinRelations(stmt) ==
    [i \in DOMAIN stmt.rels |-> [t |-> stmt.rels[i].t, a |-> aliasTag(stmt, i), vis |-> Nil]]
compileMultiJoinConditions(stmt) ==
    LET joined == SelectSeq([k \in 1 .. Len(stmt.rels) |-> k], LAMBDA k : k > 1 /\ stmt.on[k - 1].has)
        MultiRef(ref) == [rel |-> RelationOf(stmt, ref), c |-> ref.c]
    IN  [i \in DOMAIN joined |-> [left |-> MultiRef(ExistingSide(stmt, joined[i])),
                                  right |-> MultiRef(JoinedSide(stmt, joined[i]))]]

\* The filter of a multi-way join keeps its boolean constants.
RECURSIVE compileSQLMultiPredicateForRelations(_, _, _)
compileSQLMultiPredicateForRelations(stmt, env, p) ==
    CASE p.op \in {"nil", "true", "false"} -> p
      [] p.op = "cmp" -> normalizeSQLFilterForRelations(stmt, env, p)
      [] p.op = "null" -> normalizeSQLNullPredicateForRelations(stmt, p)
      [] p.op = "cols" -> compileSQLColumnComparisonForRelations(stmt, p)
      [] IsLogical(p) -> [op |-> p.op, l |-> compileSQLMultiPredicateForRelations(stmt, env, p.l),
                          r |-> compileSQLMultiPredicateForRelations(stmt, env, p.r)]

RECURSIVE compiledMultiPredicateToSubscription(_, _)
compiledMultiPredicateToSubscription(p, noRowsTable) ==
    CASE p.op \in {"nil", "true"} -> Nil
      [] p.op = "false" -> NoRows(noRowsTable)
      [] IsLogical(p) ->
            LET l == compiledMultiPredicateToSubscription(p.l, noRowsTable)
                r == compiledMultiPredicateToSubscription(p.r, noRowsTable)
            IN  IF p.op = "and" THEN andSubscriptionPredicates(l, r)
                ELSE IF Nil \in {l, r} THEN Nil ELSE orSubscriptionPredicates(l, r)
      [] OTHER -> p

subscriptionMultiJoinPredicate(multi) ==
    LET filter == compiledMultiPredicateToSubscription(multi.filter, multi.rels[multi.projected].t)
        visible == FoldLeft(LAMBDA f, rel : andSubscriptionPredicates(f, rel.vis), filter, multi.rels)
    IN  MultiJoin([i \in DOMAIN multi.rels |-> [t |-> multi.rels[i].t, a |-> multi.rels[i].a]],
                  multi.conds, multi.projected, visible)

compileMultiJoinSQLQuery(stmt, env, opts) ==
    LET conds == compileMultiJoinConditions(stmt)
        multi == [rels |-> compileMultiJoinRelations(stmt), conds |-> conds,
                  filter |-> compileSQLMultiPredicateForRelations(stmt, env, NormalizePredicate(stmt.where)),
                  projected |-> ProjectedRelation(stmt)]
        Indexed2(ref) == HasIndex(stmt.rels[ref.rel].t, ref.c)
    IN  IF /\ PredicateCompiles(stmt, env, stmt.where, TRUE)
           /\ opts.projection \/ \A i \in DOMAIN conds : Indexed2(conds[i].left) \/ Indexed2(conds[i].right)
        THEN CompiledQuery(stmt, subscriptionMultiJoinPredicate(multi), multi)
        ELSE Rejected

compileSQLQueryString(stmt, env, opts) ==
    IF ~StatementCompiles(stmt, env, opts) THEN Rejected
    ELSE CASE Len(stmt.rels) = 1 -> compileSingleRelation(stmt, env)
           [] Len(stmt.rels) = 2 -> compileTwoWayJoin(stmt, env, opts)
           [] Len(stmt.rels) > 2 -> compileMultiJoinSQLQuery(stmt, env, opts)

-----------------------------------------------------------------------------
\* Row-level visibility.  filters is a sequence of statements, each returning
\* the rows of one table that the caller may see; several on one table add up.

TableShape == [limit |-> FALSE, projection |-> FALSE, orderBy |-> FALSE, offset |-> FALSE]

\* Mutant: the filter keeps the alias it was compiled with.
RetagNothing(p, t, alias) == p

RECURSIVE retagVisibilityPredicate(_, _, _)
retagVisibilityPredicate(p, t, alias) ==
    CASE p.op \in {"eq", "ne", "range"} /\ p.t = t -> [p EXCEPT !.a = alias]
      [] IsLogical(p) -> [p EXCEPT !.l = retagVisibilityPredicate(p.l, t, alias),
                                   !.r = retagVisibilityPredicate(p.r, t, alias)]
      [] OTHER -> p

\* A visibility filter is a declaration of the module: it is compiled for the
\* caller against the tables the caller's lookup resolves.
CompiledFilters(filters, env) ==
    [k \in DOMAIN filters |-> [stmt |-> filters[k], compiled |-> compileSQLQueryString(filters[k], env, TableShape)]]

FiltersOf(shown, t) == SelectSeq(shown, LAMBDA f : f.stmt.rels[1].t = t)
visibilityPredicateForRelation(t, alias, shown) ==
    FoldLeft(LAMBDA p, f : orSubscriptionPredicates(p, retagVisibilityPredicate(f.compiled.pred, t, alias)),
             Nil, FiltersOf(shown, t))
VisibilityUsesCaller(tables, shown) ==
    \E t \in tables : \E f \in ToSet(FiltersOf(shown, t)) : PredicateUsesCallerIdentity(f.stmt.where)

expandPredicateVisibility(p, shown) ==
    IF p.op \in {"join", "cross"}
    THEN [p EXCEPT !.filter = andSubscriptionPredicates(@,
            andSubscriptionPredicates(visibilityPredicateForRelation(p.left, p.la, shown),
                                      visibilityPredicateForRelation(p.right, p.ra, shown)))]
    ELSE andSubscriptionPredicates(p, visibilityPredicateForRelation(SingleTable(p), 0, shown))

applyMultiJoinVisibility(multi, shown) ==
    [multi EXCEPT !.rels = [i \in DOMAIN @ |-> [@[i] EXCEPT !.vis =
        andSubscriptionPredicates(@, visibilityPredicateForRelation(multi.rels[i].t, multi.rels[i].a, shown))]]]

ApplyVisibilityFilters(compiled, shown, allowAll) ==
    LET multi == applyMultiJoinVisibility(compiled.multi, shown)
        pred == IF compiled.multi = Nil THEN expandPredicateVisibility(compiled.pred, shown)
                ELSE subscriptionMultiJoinPredicate(multi)
    IN  IF ~compiled.ok \/ allowAll \/ shown = <<>> THEN compiled
        ELSE [compiled EXCEPT !.pred = pred, !.multi = IF @ = Nil THEN Nil ELSE multi,
                              !.usesCaller = @ \/ VisibilityUsesCaller(PredicateTables(compiled.pred), shown)]

CompileSQLQueryStringWithVisibility(stmt, env, opts, filters, allowAll) ==
    ApplyVisibilityFilters(compileSQLQueryString(stmt, env, opts), CompiledFilters(filters, env), allowAll)

\* What a subscription registers of a compiled query.
SubscriptionQuery(compiled) ==
    [pred |-> compiled.pred,
     proj |-> [i \in DOMAIN compiled.proj |-> [t |-> compiled.proj[i].t, c |-> compiled.proj[i].c, a |-> compiled.proj[i].a]],
     agg |-> IF compiled.agg = NoAggregate \/ compiled.agg.arg = Nil THEN compiled.agg
             ELSE [compiled.agg EXCEPT !.arg = [t |-> @.t, c |-> @.c, a |-> @.a]],
     orderBy |-> [i \in DOMAIN compiled.orderBy |-> [c |-> compiled.orderBy[i].c, desc |-> compiled.orderBy[i].desc]],
     limit |-> compiled.limit, offset |-> compiled.offset]
=============================================================================
