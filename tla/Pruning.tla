------------------------------ MODULE Pruning ------------------------------
(***************************************************************************)
(* The pruning indexes of package subscription: where a registered query   *)
(* is placed, and which queries a changeset selects for evaluation.  A     *)
(* query whose placement misses a change it depends on is never evaluated  *)
(* for it, so its subscribers silently keep stale rows.                    *)
(*                                                                         *)
(* A placement is a set of entries.  An entry is of one tier: a value or a *)
(* range of a column of the changed table, a join edge with a value or a   *)
(* range of the opposite row, an edge that only asks for an opposite row,  *)
(* the same along a path of joins, or the table itself.  The empty set     *)
(* stands for "this tier does not apply".                                  *)
(***************************************************************************)
EXTENDS QueryEvaluation

ValueEntry(t, c, v) == [tier |-> "value", t |-> t, c |-> c, v |-> v]
RangeEntry(t, c, lo, hi) == [tier |-> "range", t |-> t, c |-> c, lo |-> lo, hi |-> hi]
TableEntry(t) == [tier |-> "table", t |-> t]
\* An edge: from column lc of the changed table t to column rc of table rt.
Edge(t, lc, rt, rc) == [t |-> t, lc |-> lc, rt |-> rt, rc |-> rc]
ExistenceEntry(e) == [tier |-> "exists", t |-> e.t, edge |-> e]
\* `filter` is the value or range entry the row across the edge must satisfy.
EdgeEntry(e, filter) == [tier |-> "edge", t |-> e.t, edge |-> e, filter |-> filter]
PathEntry(hops, filter) == [tier |-> "path", t |-> hops[1].t, hops |-> hops, filter |-> filter]

rangeHasBound(p) == ~p.lo.unb \/ ~p.hi.unb

colNeRanges(p) == {RangeEntry(p.t, p.c, Unbounded, Exclusive(p.v)),
                   RangeEntry(p.t, p.c, Exclusive(p.v), Unbounded)}

\* The entries of one leaf, of the kinds in `modes`.
LeafEntries(p, modes) ==
    CASE p.op = "eq" /\ "eq" \in modes -> {ValueEntry(p.t, p.c, p.v)}
      [] p.op = "range" /\ "range" \in modes /\ rangeHasBound(p) -> {RangeEntry(p.t, p.c, p.lo, p.hi)}
      [] p.op = "ne" /\ "range" \in modes -> colNeRanges(p)
      [] OTHER -> {}

\* OR is covered only when both branches are.
Both(l, r) == IF l = {} \/ r = {} THEN {} ELSE l \cup r

RECURSIVE requiredColFilters(_, _, _)
requiredColFilters(p, t, modes) ==
    CASE IsLeaf(p) -> IF p.t = t THEN LeafEntries(p, modes) ELSE {}
      [] p.op = "and" -> requiredColFilters(p.l, t, modes) \cup requiredColFilters(p.r, t, modes)
      [] p.op = "or" -> Both(requiredColFilters(p.l, t, modes), requiredColFilters(p.r, t, modes))
      [] p.op = "join" -> requiredColFilters(p.filter, t, modes)
      [] p.op = "cross" /\ p.left # p.right -> requiredColFilters(p.filter, t, modes)
      [] OTHER -> {}

findColEqs(p, t) == requiredColFilters(p, t, {"eq"})
findColRanges(p, t) == requiredColFilters(p, t, {"range"})
findMixedColEqRanges(p, t) ==
    LET out == requiredColFilters(p, t, {"eq", "range"})
    IN  IF {"value", "range"} \subseteq {e.tier : e \in out} THEN out ELSE {}

\* Equalities if they cover t, else ranges, else a mixture.
localFilterPlacement(p, t) ==
    IF findColEqs(p, t) # {} THEN findColEqs(p, t)
    ELSE IF findColRanges(p, t) # {} THEN findColRanges(p, t)
    ELSE findMixedColEqRanges(p, t)

RECURSIVE predicateNeverMatches(_)
predicateNeverMatches(p) ==
    CASE p.op = "and" -> predicateNeverMatches(p.l) \/ predicateNeverMatches(p.r)
      [] p.op = "or" -> predicateNeverMatches(p.l) /\ predicateNeverMatches(p.r)
      [] IsJoinLike(p) -> predicateNeverMatches(p.filter)
      [] OTHER -> p.op = "no"

-----------------------------------------------------------------------------
\* Two-table joins.

joinPlacementSideFor(j, t) ==
    IF t = j.left THEN Edge(j.left, j.lc, j.right, j.rc) ELSE Edge(j.right, j.rc, j.left, j.lc)

otherJoinColumnIndexed(side) == HasIndex(side.rt, side.rc)

\* joinEdgesFor, joinRangeEdgesFor and mixedJoinEdgesFor: what the filter
\* requires of the opposite table, seen across the join.
joinEdgesFor(j, side) ==
    IF otherJoinColumnIndexed(side)
    THEN {EdgeEntry(side, e) : e \in localFilterPlacement(j, side.rt)} ELSE {}

splitJoinOrHasRemotePlacement(entries) == \E e \in entries : e.tier \in {"edge", "path", "exists"}

splitJoinOrColumnEqualityExistencePlacement(p, side) ==
    LET lhs == IF p.t = side.t THEN p.c ELSE p.rc
        rhs == IF p.t = side.t THEN p.rc ELSE p.c
    IN  IF {p.t, p.rt} = {side.t, side.rt} /\ HasIndex(side.rt, rhs)
        THEN {ExistenceEntry(Edge(side.t, lhs, side.rt, rhs))} ELSE {}

RECURSIVE splitJoinOrBranchPlacements(_, _)
splitJoinOrBranchPlacements(p, side) ==
    CASE p.op \in {"eq", "ne", "range"} ->
            IF p.t = side.t THEN LeafEntries(p, {"eq", "range"})
            ELSE IF p.t = side.rt /\ otherJoinColumnIndexed(side)
            THEN {EdgeEntry(side, e) : e \in LeafEntries(p, {"eq", "range"})} ELSE {}
      [] p.op = "eqcol" -> splitJoinOrColumnEqualityExistencePlacement(p, side)
      [] p.op = "and" -> splitJoinOrBranchPlacements(p.l, side) \cup splitJoinOrBranchPlacements(p.r, side)
      [] OTHER -> {}

RECURSIVE splitJoinOrPredicatePlacements(_, _)
splitJoinOrPredicatePlacements(p, side) ==
    CASE p.op = "or" -> Both(splitJoinOrPredicatePlacements(p.l, side), splitJoinOrPredicatePlacements(p.r, side))
      [] p.op = "and" ->
            LET l == splitJoinOrPredicatePlacements(p.l, side)
                r == splitJoinOrPredicatePlacements(p.r, side)
            IN  IF splitJoinOrHasRemotePlacement(l) THEN l
                ELSE IF splitJoinOrHasRemotePlacement(r) THEN r
                ELSE splitJoinOrBranchPlacements(p, side)
      [] OTHER -> splitJoinOrBranchPlacements(p, side)

splitJoinOrPlacementsFor(j, side) ==
    LET entries == splitJoinOrPredicatePlacements(j.filter, side)
    IN  IF splitJoinOrHasRemotePlacement(entries) THEN entries ELSE {}

joinExistenceEdgesFor(side) ==
    IF otherJoinColumnIndexed(side) THEN {ExistenceEntry(side)} ELSE {}

FirstOf(tiers) == LET some == SelectSeq(tiers, LAMBDA s : s # {}) IN IF some = <<>> THEN {} ELSE Head(some)

tablePlacement(p, t) ==
    LET side == joinPlacementSideFor(p, t)
    IN  FirstOf(<<localFilterPlacement(p, t)>> \o
                (IF p.op = "join"
                 THEN <<joinEdgesFor(p, side), splitJoinOrPlacementsFor(p, side), joinExistenceEdgesFor(side)>>
                 ELSE <<>>) \o
                <<{TableEntry(t)}>>)

-----------------------------------------------------------------------------
\* Multi-way joins.  A column reference is [rel, c]; a condition is the set of
\* its two references, for the code compares conditions up to their order.

ConditionSet(conds) == {{conds[i].left, conds[i].right} : i \in DOMAIN conds}

multiJoinColumnEqualityCondition(p, rels) ==
    {{[rel |-> l, c |-> p.c], [rel |-> r, c |-> p.rc]} :
        <<l, r>> \in {x \in RelationIndex(rels, p.t, p.a) \X RelationIndex(rels, p.rt, p.ra) : x[1] # x[2]}}

\* The conditions at `relation`, as pairs <<own reference, other reference>>.
multiJoinConditionRefsFromRelation(conds, relation) ==
    {x \in UNION {c \X c : c \in conds} : x[1].rel = relation /\ x[2].rel # relation}

Crossing(rels, x) == Edge(rels[x[1].rel].t, x[1].c, rels[x[2].rel].t, x[2].c)

multiJoinExistenceEdgesForRelation(rels, conds, relation) ==
    {ExistenceEntry(e) : e \in {Crossing(rels, x) : x \in
        {y \in multiJoinConditionRefsFromRelation(conds, relation) : HasIndex(rels[y[2].rel].t, y[2].c)}}}

\* What a filter requires of each relation: local entries and conditions.
RECURSIVE multiJoinFilterConditionsByRelation(_, _)
multiJoinFilterConditionsByRelation(p, rels) ==
    CASE p.op \in {"eq", "ne", "range"} ->
            [i \in DOMAIN rels |-> [filters |-> IF i \in RelationIndex(rels, p.t, p.a)
                                               THEN LeafEntries(p, {"eq", "range"}) ELSE {},
                                   conds |-> {}]]
      [] p.op = "eqcol" ->
            [i \in DOMAIN rels |-> [filters |-> {},
                                   conds |-> {c \in multiJoinColumnEqualityCondition(p, rels) :
                                                \E ref \in c : ref.rel = i}]]
      [] IsLogical(p) ->
            LET l == multiJoinFilterConditionsByRelation(p.l, rels)
                r == multiJoinFilterConditionsByRelation(p.r, rels)
                none == [filters |-> {}, conds |-> {}]
            IN  [i \in DOMAIN rels |->
                    IF p.op = "and"
                    THEN [filters |-> l[i].filters \cup r[i].filters, conds |-> l[i].conds \cup r[i].conds]
                    ELSE IF none \in {l[i], r[i]} THEN none
                    ELSE [filters |-> l[i].filters \cup r[i].filters, conds |-> l[i].conds \cap r[i].conds]]
      [] OTHER -> [i \in DOMAIN rels |-> [filters |-> {}, conds |-> {}]]

\* Every relation of table t must be covered, or the tier does not apply.
EveryRelation(placements) == IF {} \in placements THEN {} ELSE UNION placements

multiJoinFilterPlacement(p, required, t) ==
    LET placement(i) ==
            LET edges == multiJoinExistenceEdgesForRelation(p.rels, required[i].conds, i)
            IN  IF required[i].conds # {} /\ edges = {} THEN {} ELSE required[i].filters \cup edges
    IN  EveryRelation({placement(i) : i \in RelationsOf(p.rels, t)})

\* Pairs <<start, end>> linked by conditions that meet in the same column, the
\* walk ending at the first reference of the target relation.
RECURSIVE KeyPaths(_, _, _)
KeyPaths(found, links, target) ==
    LET more == found \cup {<<x[1], y[2]>> : <<x, y>> \in
                    {z \in found \X links : z[1][2] = z[2][1] /\ z[1][2].rel # target}}
    IN  IF more = found THEN found ELSE KeyPaths(more, links, target)

multiJoinFilterEdgeConditionPaths(conds, source, target) ==
    LET links == UNION {{x \in c \X c : x[1].rel # x[2].rel} : c \in conds}
    IN  {x \in KeyPaths({l \in links : l[1].rel = source}, links, target) : x[2].rel = target}

\* Simple walks of hops <<from, to>>, of at most joinPathTraversalMaxHops hops.
joinPathTraversalMaxHops == 16

RECURSIVE HopWalks(_, _, _, _)
HopWalks(conds, hops, visited, target) ==
    LET from == IF hops = <<>> THEN CHOOSE r \in visited : TRUE ELSE hops[Len(hops)][2].rel
    IN  IF hops # <<>> /\ from = target THEN {hops}
        ELSE IF Len(hops) >= joinPathTraversalMaxHops THEN {}
        ELSE UNION {HopWalks(conds, Append(hops, h), visited \cup {h[2].rel}, target) :
                h \in {x \in multiJoinConditionRefsFromRelation(conds, from) : x[2].rel \notin visited}}

nonKeyPreserving(hops) == \E i \in 2 .. Len(hops) : hops[i - 1][2].c # hops[i][1].c

multiJoinFilterEdgeNonKeyPaths(conds, source, target) ==
    {w \in HopWalks(conds, <<>>, {source}, target) : Len(w) >= 2 /\ nonKeyPreserving(w)}

multiJoinFilterEdgesBetweenRelations(rels, conds, source, target, filters) ==
    LET indexed(ref) == HasIndex(rels[ref.rel].t, ref.c)
    IN  {EdgeEntry(Crossing(rels, x), f) : f \in filters,
            x \in {y \in multiJoinFilterEdgeConditionPaths(conds, source, target) : indexed(y[2])}}
        \cup
        {PathEntry([i \in DOMAIN w |-> Crossing(rels, w[i])], f) : f \in filters,
            w \in {v \in multiJoinFilterEdgeNonKeyPaths(conds, source, target) : \A i \in DOMAIN v : indexed(v[i][2])}}

RECURSIVE multiJoinOrBranches(_)
multiJoinOrBranches(p) == IF p.op = "or" THEN multiJoinOrBranches(p.l) \cup multiJoinOrBranches(p.r) ELSE {p}

\* Only the conjuncts of a branch count.
RECURSIVE Conjuncts(_)
Conjuncts(p) == IF p.op = "and" THEN Conjuncts(p.l) \cup Conjuncts(p.r) ELSE {p}

multiJoinBranchLocalFilterPlacements(p, rels) ==
    [i \in DOMAIN rels |->
        UNION {LeafEntries(leaf, {"eq", "range"}) : leaf \in
            {x \in Conjuncts(p) : x.op \in {"eq", "ne", "range"} /\ i \in RelationIndex(rels, x.t, x.a)}}]

multiJoinBranchColumnEqualityConditions(p, rels) ==
    UNION {multiJoinColumnEqualityCondition(x, rels) : x \in {y \in Conjuncts(p) : y.op = "eqcol"}}

splitMultiJoinOrBranchPlacementsForRelation(branch, rels, conds, i) ==
    LET local == multiJoinBranchLocalFilterPlacements(branch, rels)
        own == multiJoinBranchColumnEqualityConditions(branch, rels)
        remote == UNION {multiJoinFilterEdgesBetweenRelations(rels, conds \cup own, i, k, local[k]) :
                            k \in DOMAIN rels \ {i}}
    IN  IF local[i] # {} THEN local[i]
        ELSE IF remote # {} THEN remote
        ELSE multiJoinExistenceEdgesForRelation(rels, own, i)

RECURSIVE splitMultiJoinOrFilterPlacementsForRelation(_, _, _, _)
splitMultiJoinOrFilterPlacementsForRelation(p, rels, conds, i) ==
    CASE p.op = "or" ->
            LET placed == {splitMultiJoinOrBranchPlacementsForRelation(b, rels, conds, i) : b \in multiJoinOrBranches(p)}
            IN  IF {} \in placed THEN {} ELSE UNION placed
      [] p.op = "and" ->
            FirstOf(<<splitMultiJoinOrFilterPlacementsForRelation(p.l, rels, conds, i),
                      splitMultiJoinOrFilterPlacementsForRelation(p.r, rels, conds, i)>>)
      [] OTHER -> {}

multiJoinSplitOrFilterPlacement(p, t) ==
    LET placement(i) == splitMultiJoinOrFilterPlacementsForRelation(p.filter, p.rels, ConditionSet(p.conds), i)
    IN  EveryRelation({placement(i) : i \in RelationsOf(p.rels, t)})

multiJoinRequiredFilterEdgePlacement(p, required, t) ==
    LET placement(i) ==
            IF required[i].filters # {} THEN required[i].filters
            ELSE UNION {multiJoinFilterEdgesBetweenRelations(p.rels, ConditionSet(p.conds), i, k, required[k].filters) :
                            k \in DOMAIN p.rels \ {i}}
    IN  EveryRelation({placement(i) : i \in RelationsOf(p.rels, t)})

RECURSIVE requiredAliasLocalFilterPlacements(_, _)
requiredAliasLocalFilterPlacements(p, rel) ==
    CASE IsLeaf(p) -> IF p.t = rel.t /\ p.a = rel.a THEN LeafEntries(p, {"eq", "range"}) ELSE {}
      [] p.op = "and" -> requiredAliasLocalFilterPlacements(p.l, rel) \cup requiredAliasLocalFilterPlacements(p.r, rel)
      [] p.op = "or" -> Both(requiredAliasLocalFilterPlacements(p.l, rel), requiredAliasLocalFilterPlacements(p.r, rel))
      [] OTHER -> {}

aliasCompoundPlacement(p, t) ==
    LET placement(i) ==
            FirstOf(<<requiredAliasLocalFilterPlacements(p.filter, p.rels[i]),
                      multiJoinExistenceEdgesForRelation(p.rels, ConditionSet(p.conds), i)>>)
    IN  EveryRelation({placement(i) : i \in RelationsOf(p.rels, t)})

multiJoinExistenceEdgesFor(p, t) ==
    LET placement(i) == multiJoinExistenceEdgesForRelation(p.rels, ConditionSet(p.conds), i)
    IN  EveryRelation({placement(i) : i \in RelationsOf(p.rels, t)})

multiJoinPlacement(p, t) ==
    LET required == multiJoinFilterConditionsByRelation(p.filter, p.rels)
        once == Cardinality(RelationsOf(p.rels, t)) = 1
    IN  FirstOf(<< IF once THEN localFilterPlacement(p.filter, t) ELSE {},
                   multiJoinSplitOrFilterPlacement(p, t),
                   multiJoinFilterPlacement(p, required, t),
                   multiJoinRequiredFilterEdgePlacement(p, required, t),
                   IF once THEN {} ELSE aliasCompoundPlacement(p, t),
                   multiJoinExistenceEdgesFor(p, t),
                   {TableEntry(t)} >>)

\* mutateSubscriptionPlacement: the entries of a query, added when its first
\* subscriber registers and removed with its last.
Placement(p) ==
    IF predicateNeverMatches(p) THEN {}
    ELSE IF p.op = "join" /\ p.left = p.right THEN {TableEntry(p.left)}
    ELSE UNION {IF p.op = "multi" THEN multiJoinPlacement(p, t) ELSE tablePlacement(p, t) : t \in PredicateTables(p)}

-----------------------------------------------------------------------------
\* Candidate collection over the changed rows of every table, with the
\* committed rows reached through the indexes.

ChangedRows(dv, t) == dv.ins[t] \cup dv.del[t]

FilterAdmits(filter, row) ==
    CASE filter.tier = "value" -> row[filter.c] = filter.v
      [] filter.tier = "range" -> matchBounds(row[filter.c], filter.lo, filter.hi)

\* forEachJoinedRHSFilterValue and its changed-row companions.
JoinedRows(dv, edge, v) ==
    {r \in ChangedRows(dv, edge.rt) : r[edge.rc] = v}
    \cup (IF HasIndex(edge.rt, edge.rc) THEN IndexSeek(dv.view, edge.rt, edge.rc, v) ELSE {})

\* forEachJoinedChangedPathTraversalRHSFilterValue: the rows at the end of the
\* path, each hop taken through changed or committed rows.
RECURSIVE PathRows(_, _, _)
PathRows(dv, hops, values) ==
    LET reached == UNION {JoinedRows(dv, hops[1], v) : v \in values}
    IN  IF Len(hops) = 1 THEN reached
        ELSE PathRows(dv, Tail(hops), {r[hops[2].lc] : r \in reached})

EntrySelects(dv, e) ==
    LET rows == ChangedRows(dv, e.t)
    IN  CASE e.tier = "table" -> rows # {}
          [] e.tier \in {"value", "range"} -> \E r \in rows : FilterAdmits(e, r)
          [] e.tier = "exists" -> \E r \in rows : JoinedRows(dv, e.edge, r[e.edge.lc]) # {}
          [] e.tier = "edge" ->
                \E r \in rows : \E s \in JoinedRows(dv, e.edge, r[e.edge.lc]) : FilterAdmits(e.filter, s)
          [] e.tier = "path" ->
                \E s \in PathRows(dv, e.hops, {r[e.hops[1].lc] : r \in rows}) : FilterAdmits(e.filter, s)

collectCandidatesInto(index, dv) == {x[2] : x \in {y \in index : EntrySelects(dv, y[1])}}
=============================================================================
