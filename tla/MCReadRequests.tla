--------------------------- MODULE MCReadRequests ---------------------------
(***************************************************************************)
(* ReadRequests on three small tables: items T(key, amount, owner), with   *)
(* amount nullable, and S(key, group) and U(key), which T joins.           *)
(***************************************************************************)
EXTENDS ReadRequests

T == 1
S == 2
U == 3

MCColumnType == <<<<"int", "int", "string">>, <<"int", "int">>, <<"int">>>>
MCIndexed == {<<T, 1>>, <<S, 2>>}
MCNullable == {<<T, 2>>}
MCTableName == <<"t", "s", "u">>

alice == 101
bob == 102
MCZeroIdentity == 100
MCCallers == {[id |-> alice, perms |-> {}, allowAll |-> FALSE],
              [id |-> bob, perms |-> {"read"}, allowAll |-> FALSE],
              [id |-> alice, perms |-> {}, allowAll |-> TRUE]}
MCTablePolicy == <<[access |-> "public", perms |-> {}], [access |-> "permissioned", perms |-> {"read"}],
                   [access |-> "public", perms |-> {}]>>

\* Up to three of four items, in this row-ID order.
Items == <<<<2, 2, alice>>, <<1, NULL, bob>>, <<1, 1, alice>>, <<2, 1, bob>>>>
TRows == {[i \in 1 .. Cardinality(ids) |-> Items[SetToSortSeq(ids, <)[i]]] : ids \in {x \in SUBSET (1 .. 4) : Cardinality(x) <= 3}}
SRows == {<<<<1, 1>>, <<1, 2>>>>, <<<<2, 1>>, <<1, 1>>, <<2, 2>>>>}
URows == {<<<<1>>>>, <<<<2>>, <<1>>>>}
MCDatabases == {<<t, s, u>> : t \in TRows, s \in SRows, u \in URows}

\* Building statements.
Bare(t) == [t |-> t, as |-> ""]
As(t, as) == [t |-> t, as |-> as]
C(q, c) == [q |-> q, c |-> c]
Cross == [has |-> FALSE, l |-> C("", 0), r |-> C("", 0)]
On(l, r) == [has |-> TRUE, l |-> l, r |-> r]
From(rels, on) ==
    [rels |-> rels, on |-> on, where |-> NoWhere, star |-> "", cols |-> <<>>, agg |-> NoAggregate,
     orderBy |-> <<>>, limit |-> None, offset |-> None]
Where(stmt, p) == [stmt EXCEPT !.where = p]
Star(stmt, q) == [stmt EXCEPT !.star = q]
Cols(stmt, cols) == [stmt EXCEPT !.cols = cols]
Agg(stmt, func, distinct, arg, as) == [stmt EXCEPT !.agg = [func |-> func, distinct |-> distinct, arg |-> arg, as |-> as]]
OrderBy(stmt, terms) == [stmt EXCEPT !.orderBy = terms]
Windowed(stmt, limit, offset) == [stmt EXCEPT !.limit = limit, !.offset = offset]
Asc(ref) == [ref |-> ref, desc |-> FALSE]
Desc(ref) == [ref |-> ref, desc |-> TRUE]
Plain(ref) == [ref |-> ref, as |-> 0]
Named(ref, as) == [ref |-> ref, as |-> as]

Both(stmt) == [stmt |-> stmt, query |-> TRUE, subscribe |-> TRUE]
QueryOnly(stmt) == [stmt |-> stmt, query |-> TRUE, subscribe |-> FALSE]
Neither(stmt) == [stmt |-> stmt, query |-> FALSE, subscribe |-> FALSE]

One == From(<<Bare(T)>>, <<>>)
Two == From(<<Bare(T), Bare(S)>>, <<On(C("s", 2), C("t", 1))>>)
Unindexed == From(<<Bare(T), Bare(S)>>, <<On(C("t", 2), C("s", 1))>>)
CrossTS == From(<<Bare(T), Bare(S)>>, <<Cross>>)
Self == From(<<As(T, "a"), As(T, "b")>>, <<On(C("a", 1), C("b", 1))>>)
Three == From(<<Bare(U), Bare(T), Bare(S)>>, <<On(C("t", 1), C("u", 1)), On(C("t", 1), C("s", 2))>>)
Mine == Cmp(C("", 3), "=", Sender)

SingleStatements ==
    <<Both(One), Both(Where(One, Mine)),
      Both(Where(One, And(Cmp(C("", 2), "<=", Value(1)), Cmp(C("t", 1), "=", Value(2))))),
      Both(Where(One, Or(And(SQLTrue, Cmp(C("", 1), ">", Value(1))), And(SQLFalse, Mine)))),
      Both(Where(One, And(SQLFalse, Mine))), Both(Where(One, IsNull(C("t", 2), TRUE))),
      Neither(Where(One, Cmp(C("", 3), "=", Value(1)))), Neither(Where(One, Cmp(C("x", 1), "=", Value(1)))),
      Neither(Where(One, Or(SQLTrue, Cmp(C("", 4), "=", Value(1))))),
      QueryOnly(OrderBy(One, <<Asc(C("", 1))>>)), QueryOnly(Windowed(OrderBy(One, <<Desc(C("", 1))>>), 1, 1)),
      QueryOnly(Windowed(OrderBy(One, <<Asc(C("", 2)), Desc(C("", 1))>>), 2, None)),
      QueryOnly(Windowed(Where(One, Cmp(C("", 1), ">=", Value(1))), 1, 1)), QueryOnly(Windowed(One, 0, None)),
      QueryOnly(OrderBy(Cols(One, <<Named(C("", 2), 9), Plain(C("", 3))>>), <<Desc(C("", 9))>>)),
      Neither(OrderBy(Cols(One, <<Named(C("", 2), 1)>>), <<Asc(C("", 1))>>)),
      Neither(Cols(One, <<Plain(C("", 2)), Named(C("", 1), 2)>>)),
      QueryOnly(Agg(One, "COUNT", FALSE, Nil, 9)), QueryOnly(Agg(Where(One, Mine), "SUM", FALSE, C("", 2), 9)),
      QueryOnly(OrderBy(Windowed(Agg(One, "COUNT", TRUE, C("", 2), 9), 1, 1), <<Asc(C("", 9))>>)),
      Neither(Agg(One, "SUM", FALSE, C("", 3), 9)), Neither(OrderBy(Agg(One, "COUNT", FALSE, Nil, 9), <<Asc(C("", 1))>>))>>

JoinStatements ==
    <<Both(Star(Two, "t")), Both(Where(Star(Two, "s"), Or(Cmp(C("t", 2), "=", Value(2)), ColCmp(C("t", 1), "=", C("s", 1))))),
      QueryOnly(Star(Unindexed, "s")), Both(Star(CrossTS, "s")),
      Both(Where(Star(CrossTS, "t"), And(ColCmp(C("s", 2), "=", C("t", 1)), Cmp(C("t", 3), "=", Sender)))),
      Both(Where(Star(CrossTS, "t"), And(ColCmp(C("s", 2), "=", C("t", 1)), SQLFalse))),
      Both(Where(Star(Two, "s"), And(SQLFalse, Cmp(C("t", 3), "=", Sender)))),
      Neither(Two), Neither(Where(Star(CrossTS, "t"), Cmp(C("t", 1), "=", Value(1)))),
      QueryOnly(Windowed(OrderBy(Cols(CrossTS, <<Plain(C("t", 2)), Named(C("s", 1), 9)>>), <<Desc(C("", 9)), Asc(C("t", 1))>>), 2, 1)),
      QueryOnly(Agg(Two, "SUM", FALSE, C("s", 1), 9)), QueryOnly(Agg(CrossTS, "COUNT", FALSE, Nil, 9)),
      Both(Star(Self, "b")), Both(Where(Star(Self, "a"), Cmp(C("b", 3), "=", Sender))),
      QueryOnly(Windowed(OrderBy(Cols(Self, <<Plain(C("a", 2)), Named(C("b", 2), 9)>>), <<Asc(C("a", 3))>>), 3, None)),
      Neither(From(<<Bare(T), Bare(T)>>, <<Cross>>)), Neither(OrderBy(Star(Two, "t"), <<Asc(C("s", 1))>>)),
      Both(Star(Three, "t")), Both(Where(Star(Three, "u"), Or(Cmp(C("t", 3), "=", Sender), SQLFalse))),
      QueryOnly(Windowed(OrderBy(Cols(Where(Three, Or(SQLTrue, IsNull(C("t", 2), FALSE))), <<Plain(C("s", 1)), Named(C("t", 2), 9)>>),
                                 <<Desc(C("", 9))>>), 2, 1)),
      QueryOnly(Agg(Three, "COUNT", TRUE, C("t", 3), 9)), Neither(Star(Three, "x"))>>

MCStatements == SingleStatements \o JoinStatements

MCVisibilitySets ==
    {<<>>, <<Where(One, Mine)>>, <<Where(One, Mine), Where(One, IsNull(C("", 2), FALSE)),
                                   Where(From(<<Bare(S)>>, <<>>), Cmp(C("", 1), "<", Value(2)))>>}

None0 == [p \in {} |-> ""]
Declare(kind, stmt, params, requires) == [kind |-> kind, stmt |-> stmt, params |-> params, requires |-> requires]
MCDeclarations ==
    [mine |-> Declare("query", Where(One, Mine), None0, {}),
     keyed |-> Declare("query", OrderBy(Where(One, And(Cmp(C("", 1), ">=", Param("k")), Mine)), <<Desc(C("", 2))>>), [k |-> "int"], {}),
     joined |-> Declare("query", Star(Unindexed, "t"), None0, {"read"}),
     mineView |-> Declare("view", Windowed(OrderBy(Where(One, Mine), <<Asc(C("", 2))>>), 1, None), None0, {}),
     keyedView |-> Declare("view", Cols(Where(Two, Cmp(C("s", 1), "<", Param("k"))), <<Plain(C("t", 3)), Plain(C("t", 2))>>), [k |-> "int"], {}),
     total |-> Declare("view", Agg(Two, "SUM", FALSE, C("t", 2), 9), None0, {}),
     latest |-> Declare("view", Windowed(OrderBy(Cols(One, <<Plain(C("", 2)), Plain(C("", 1))>>), <<Desc(C("", 1))>>), 2, 1), None0, {})]
MCSupplied == {None0, [k |-> 2], [k |-> NULL]}
=============================================================================
