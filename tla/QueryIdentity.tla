--------------------------- MODULE QueryIdentity ---------------------------
(***************************************************************************)
(* Which queries are one query.  A predicate is put in canonical form and  *)
(* encoded; subscribers whose encodings agree share one evaluation, one    *)
(* placement and one delta.  The 32-byte digest of the encoding is         *)
(* modelled by the encoding itself: what is checked is that no two queries *)
(* of different meaning encode alike, and that the canonical form means    *)
(* what the query said.                                                    *)
(***************************************************************************)
EXTENDS Pruning

AnyTable == -4     \* flatten whatever the table (a nil *TableID in the code)

Bit(b) == IF b THEN 1 ELSE 0

encodeValue(v) == IF v = NULL THEN <<0, 0>> ELSE <<Bit(KindOf(v) = "string"), 1, v>>

encodeBound(b) == IF b.unb THEN <<0>> ELSE <<1 + Bit(b.incl)>> \o encodeValue(b.v)

RECURSIVE encodePredicate(_)
encodeFilter(f) == IF f = Nil THEN <<0>> ELSE <<1>> \o encodePredicate(f)
encodePredicate(p) ==
    CASE p.op = "eq" -> <<1, p.t, p.c, p.a>> \o encodeValue(p.v)
      [] p.op = "ne" -> <<2, p.t, p.c, p.a>> \o encodeValue(p.v)
      [] p.op = "range" -> <<3, p.t, p.c, p.a>> \o encodeBound(p.lo) \o encodeBound(p.hi)
      [] p.op = "eqcol" -> <<10, p.t, p.c, p.a, p.rt, p.rc, p.ra>>
      [] p.op = "and" -> <<4>> \o encodePredicate(p.l) \o encodePredicate(p.r)
      [] p.op = "or" -> <<7>> \o encodePredicate(p.l) \o encodePredicate(p.r)
      [] p.op = "all" -> <<5, p.t>>
      [] p.op = "no" -> <<9, p.t>>
      [] p.op = "join" ->
            <<6, p.left, p.right, p.lc, p.rc, p.la, p.ra, Bit(p.projectRight)>> \o encodeFilter(p.filter)
      [] p.op = "cross" ->
            <<8, p.left, p.right, p.la, p.ra, Bit(p.projectRight)>> \o encodeFilter(p.filter)
      [] p.op = "multi" ->
            <<11, Len(p.rels)>> \o FlattenSeq([i \in DOMAIN p.rels |-> <<p.rels[i].t, p.rels[i].a>>])
            \o <<p.projected, Len(p.conds)>>
            \o FlattenSeq([i \in DOMAIN p.conds |->
                   <<p.conds[i].left.rel, p.conds[i].left.c, p.conds[i].right.rel, p.conds[i].right.c>>])
            \o encodeFilter(p.filter)

encodeProjection(proj) ==
    IF proj = <<>> THEN <<>>
    ELSE <<12, Len(proj)>> \o FlattenSeq([i \in DOMAIN proj |-> <<proj[i].t, proj[i].c, proj[i].a>>])

encodeAggregate(agg) ==
    IF agg = NoAggregate THEN <<>>
    ELSE <<13, Bit(agg.func = "SUM"), Bit(agg.distinct)>> \o
         (IF agg.arg = Nil THEN <<0>> ELSE <<1, agg.arg.t, agg.arg.c, agg.arg.a>>)

encodeOrderBy(o) ==
    IF o = <<>> THEN <<>> ELSE <<14, Len(o)>> \o FlattenSeq([i \in DOMAIN o |-> <<o[i].c, Bit(o[i].desc)>>])

encodeOffset(n) == IF n = None THEN <<>> ELSE <<16, n>>
encodeLimit(n) == IF n = None THEN <<>> ELSE <<15, n>>

\* computeQueryWindowedShapeHashCanonical; `identity` is 0 for a query that
\* every client may share, else the client a parameterized query belongs to.
QueryHash(q, identity) ==
    encodePredicate(q.pred) \o encodeProjection(q.proj) \o encodeAggregate(q.agg) \o
    encodeOrderBy(q.orderBy) \o encodeOffset(q.offset) \o encodeLimit(q.limit) \o
    (IF identity = 0 THEN <<>> ELSE <<100 + identity>>)

-----------------------------------------------------------------------------
\* Canonical form.

RECURSIVE containsJoinLikePredicate(_)
containsJoinLikePredicate(p) ==
    IsJoinLike(p) \/ (IsLogical(p) /\ (containsJoinLikePredicate(p.l) \/ containsJoinLikePredicate(p.r)))

\* The one table a predicate is about, as a set; empty when there is none.
canonicalGroupTable(p) ==
    IF containsJoinLikePredicate(p) \/ Cardinality(PredicateTables(p)) # 1 THEN {} ELSE PredicateTables(p)

sameCanonicalTable(l, r) == canonicalGroupTable(l) # {} /\ canonicalGroupTable(l) = canonicalGroupTable(r)

canonicalGroupMatchesTable(p, t) == t = AnyTable \/ canonicalGroupTable(p) = {t}

RECURSIVE flattenCanonical(_, _, _)
flattenCanonical(p, op, t) ==
    IF p.op = op /\ canonicalGroupMatchesTable(p, t)
    THEN flattenCanonical(p.l, op, t) \cup flattenCanonical(p.r, op, t) ELSE {p}

CanonicalLess(p, r) == LexLess(encodePredicate(p), encodePredicate(r))

orderCanonicalChildren(op, l, r) ==
    IF sameCanonicalTable(l, r) /\ CanonicalLess(r, l)
    THEN [op |-> op, l |-> r, r |-> l] ELSE [op |-> op, l |-> l, r |-> r]

\* x OR (x AND y) is x; x AND (x OR y) is x.
shouldAbsorbCanonicalPredicate(p, op, t, present) ==
    LET dual == IF op = "or" THEN "and" ELSE "or"
    IN  /\ p.op = dual
        /\ canonicalGroupMatchesTable(p, t)
        /\ flattenCanonical(p, dual, t) \cap present # {}

absorbCanonicalPredicates(preds, op, t) ==
    LET kept == {p \in preds : ~shouldAbsorbCanonicalPredicate(p, op, t, preds)}
    IN  IF kept = {} THEN preds ELSE kept

\* Sorted by encoding, without duplicates, rebuilt from the left.
rebuildCanonical(preds, op) ==
    LET sorted == SetToSortSeq(preds, CanonicalLess)
    IN  FoldLeft(LAMBDA l, r : [op |-> op, l |-> l, r |-> r], Head(sorted), Tail(sorted))

RegroupCanonical(p, t) ==
    rebuildCanonical(absorbCanonicalPredicates(flattenCanonical(p, p.op, t), p.op, t), p.op)

RECURSIVE canonicalizeSelfJoinFilter(_)
canonicalizeSelfJoinFilter(p) ==
    IF ~IsLogical(p) THEN p
    ELSE RegroupCanonical([op |-> p.op, l |-> canonicalizeSelfJoinFilter(p.l), r |-> canonicalizeSelfJoinFilter(p.r)],
                          AnyTable)

\* AllRows and NoRows of the same table vanish.
simplifyCanonicalLogical(op, l, r) ==
    LET zero == IF op = "and" THEN "no" ELSE "all"
        unit == IF op = "and" THEN "all" ELSE "no"
    IN  IF ~sameCanonicalTable(l, r) THEN Nil
        ELSE IF l.op = zero \/ r.op = unit THEN l
        ELSE IF r.op = zero \/ l.op = unit THEN r ELSE Nil

RECURSIVE canonicalizePredicate(_)
canonicalizeLogicalPredicate(op, l, r) ==
    LET p == [op |-> op, l |-> l, r |-> r]
        simplified == simplifyCanonicalLogical(op, l, r)
    IN  IF simplified # Nil THEN simplified
        ELSE IF canonicalGroupTable(p) # {} THEN RegroupCanonical(p, CHOOSE t \in canonicalGroupTable(p) : TRUE)
        ELSE orderCanonicalChildren(op, l, r)

canonicalizePredicate(p) ==
    CASE IsLogical(p) -> canonicalizeLogicalPredicate(p.op, canonicalizePredicate(p.l), canonicalizePredicate(p.r))
      [] p.op \in {"join", "cross"} /\ p.filter # Nil ->
            [p EXCEPT !.filter = IF p.left = p.right THEN canonicalizeSelfJoinFilter(@) ELSE canonicalizePredicate(@)]
      [] p.op = "multi" /\ p.filter # Nil -> [p EXCEPT !.filter = canonicalizePredicate(@)]
      [] OTHER -> p
=============================================================================
