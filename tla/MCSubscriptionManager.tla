----------------------- MODULE MCSubscriptionManager -----------------------
(***************************************************************************)
(* A catalogue of queries over three tables and an event table.  In an     *)
(* evaluation scenario one client registers one query over every possible  *)
(* content of its tables and every transaction of up to two row changes;   *)
(* in the sharing scenario two clients register and drop sets of queries.  *)
(***************************************************************************)
EXTENDS SubscriptionManager

T == 1
S == 2
U == 3
E == 4
MCColumnType == << <<"int", "int">>, <<"int", "int">>, <<"int", "int">>, <<"int", "int">> >>
MCEventTables == {E}
MCIndexed == {<<T, 1>>, <<S, 1>>, <<U, 1>>}
MCNullable == {<<T, 2>>}

Query(p) == [pred |-> p, proj |-> <<>>, agg |-> NoAggregate, orderBy |-> <<>>, limit |-> None, offset |-> None]
Project(q, cols) == [q EXCEPT !.proj = cols]
Col(t, c, a) == [t |-> t, c |-> c, a |-> a]
Aggregated(q, func, distinct, arg) == [q EXCEPT !.agg = [func |-> func, distinct |-> distinct, arg |-> arg]]
Window(q, orderBy, limit, offset) == [q EXCEPT !.orderBy = orderBy, !.limit = limit, !.offset = offset]
By(c, desc) == [c |-> c, desc |-> desc]
On(l, lc, r, rc) == [left |-> [rel |-> l, c |-> lc], right |-> [rel |-> r, c |-> rc]]
Rel(t, a) == [t |-> t, a |-> a]

TRows == {<<1, 1>>, <<1, 2>>, <<2, 1>>, <<2, NULL>>}
SRows == {<<1, 1>>, <<1, 2>>, <<2, 1>>}
URows == {<<1, 1>>, <<2, 2>>}
ERows == {<<1, 1>>, <<1, 2>>, <<2, 1>>}
RowsOf(p) ==
    [t \in Tables |->
        IF t \notin PredicateTables(p) THEN {}
        ELSE CASE t = T -> IF p.op = "multi" THEN TRows \ {<<1, 2>>} ELSE TRows
               [] t = S -> IF p.op = "multi" THEN {<<1, 2>>, <<2, 1>>} ELSE SRows
               [] t = U -> URows
               [] t = E -> ERows]

x == ColEq(T, 1, 0, 1)
y == ColNe(T, 2, 0, 1)
z == ColRange(T, 2, 0, Exclusive(1), Unbounded)
SingleTableQueries ==
    {Query(p) : p \in {AllRows(T), x, y, z, ColRange(T, 1, 0, Inclusive(1), Exclusive(2)), ColEqCol(T, 1, 0, T, 2, 0),
                       And(y, x), Or(z, x), Or(x, And(x, y)), And(Or(z, y), Or(x, z)), And(NoRows(T), x), Or(NoRows(T), x)}}
    \cup {Project(Query(AllRows(T)), <<Col(T, 2, 0)>>), Project(Query(y), <<Col(T, 1, 0)>>)}
AggregateQueries ==
    {Aggregated(Query(x), "COUNT", FALSE, Nil), Aggregated(Query(AllRows(T)), "COUNT", FALSE, Col(T, 2, 0)),
     Aggregated(Query(AllRows(T)), "COUNT", TRUE, Col(T, 2, 0)), Aggregated(Query(x), "SUM", FALSE, Col(T, 2, 0)),
     Aggregated(Query(AllRows(T)), "SUM", FALSE, Col(T, 1, 0))}
WindowQueries ==
    {Window(Query(AllRows(T)), <<By(2, TRUE)>>, 2, None), Window(Query(AllRows(T)), <<By(2, FALSE), By(1, TRUE)>>, 1, 1),
     Window(Query(y), <<>>, 1, None), Window(Query(AllRows(T)), <<>>, None, 1), Window(Query(AllRows(T)), <<>>, 0, None),
     Project(Window(Query(AllRows(T)), <<By(1, TRUE)>>, 2, 1), <<Col(T, 2, 0)>>)}
j1(f) == Join(T, 1, S, 1, FALSE, f)
j2(f) == Join(T, 1, S, 2, TRUE, f)
JoinQueries ==
    {Query(j1(Nil)), Query(j2(Nil)), Query(Join(T, 2, S, 1, FALSE, Nil)), Query(j1(ColEq(T, 1, 0, 1))), Query(j1(ColEq(T, 2, 0, 1))),
     Query(j1(Or(ColEq(T, 1, 0, 1), ColEq(S, 2, 0, 1)))), Query(j2(Or(ColEq(T, 1, 0, 1), ColRange(S, 1, 0, Exclusive(1), Unbounded)))),
     Query(j1(ColEqCol(T, 2, 0, S, 2, 0))), Query(j1(Or(ColEqCol(T, 2, 0, S, 2, 0), ColNe(S, 1, 0, 1)))),
     Project(Query(j1(Nil)), <<Col(T, 2, 0)>>), Project(Query(j2(Nil)), <<Col(S, 1, 0)>>),
     Aggregated(Query(j1(ColNe(S, 2, 0, 1))), "COUNT", FALSE, Nil), Aggregated(Query(j2(Nil)), "SUM", FALSE, Col(S, 2, 0)),
     Aggregated(Query(j1(Nil)), "COUNT", TRUE, Col(T, 2, 0))}
SelfJoinQueries ==
    {Query(Join(T, 1, T, 1, FALSE, f)) : f \in {Nil, ColEq(T, 2, 1, 1), ColEq(T, 2, 0, 1), ColEq(T, 1, 1, 1)}}
    \cup {Query(Join(T, 1, T, 2, TRUE, Nil)), Query(CrossJoin(T, T, FALSE, ColEqCol(T, 1, 0, T, 2, 1)))}
CrossJoinQueries ==
    {Query(CrossJoin(T, S, FALSE, Nil)), Query(CrossJoin(T, S, TRUE, Nil)), Query(CrossJoin(T, S, FALSE, ColEqCol(T, 2, 0, S, 2, 0))),
     Query(CrossJoin(T, S, TRUE, Or(ColEq(T, 1, 0, 1), ColEq(S, 1, 0, 2)))),
     Project(Query(CrossJoin(T, S, FALSE, Nil)), <<Col(T, 1, 0)>>), Aggregated(Query(CrossJoin(T, S, FALSE, Nil)), "COUNT", FALSE, Nil)}
EventQueries ==
    {Query(AllRows(E)), Query(Join(E, 1, S, 1, FALSE, Nil)), Query(Join(E, 1, S, 1, TRUE, ColEq(E, 2, 0, 1))), Query(CrossJoin(E, S, TRUE, Nil)),
     Aggregated(Query(AllRows(E)), "COUNT", FALSE, Nil), Aggregated(Query(Join(E, 2, S, 1, FALSE, Nil)), "COUNT", FALSE, Nil)}
m(conds, f) == MultiJoin(<<Rel(T, 0), Rel(S, 0), Rel(U, 0)>>, conds, 1, f)
chain == <<On(1, 1, 2, 1), On(2, 2, 3, 1)>>
MultiJoinQueries ==
    {Query(m(chain, Or(ColEq(T, 1, 0, 1), ColEq(U, 2, 0, 2)))), Query(m(chain, Or(ColEq(T, 2, 0, 1), ColEqCol(T, 2, 0, U, 1, 0)))),
     Query(m(chain, And(ColNe(S, 1, 0, 1), Or(ColEq(T, 1, 0, 1), ColRange(U, 1, 0, Exclusive(1), Unbounded))))),
     Query(m(<<>>, Or(And(ColEqCol(T, 1, 0, S, 1, 0), ColEq(U, 1, 0, 1)), ColEqCol(T, 1, 0, U, 1, 0)))),
     Query(m(<<On(1, 1, 2, 1), On(2, 1, 3, 1)>>, Nil)), Query(m(<<On(1, 1, 2, 1)>>, Nil)),
     Query(m(<<On(1, 1, 2, 1), On(2, 2, 3, 1)>>, ColEq(U, 2, 0, 1))), Query(m(<<>>, And(ColEq(T, 1, 0, 1), ColEqCol(S, 1, 0, U, 1, 0)))),
     Query(m(<<On(1, 1, 2, 1), On(2, 1, 3, 1)>>, Or(ColEq(T, 1, 0, 1), ColEq(S, 1, 0, 2)))),
     Project(Query(m(<<On(1, 1, 2, 1), On(2, 1, 3, 1)>>, Nil)), <<Col(T, 2, 0), Col(U, 2, 0)>>),
     Aggregated(Query(m(<<On(1, 1, 2, 1), On(2, 1, 3, 1)>>, Nil)), "COUNT", FALSE, Nil),
     Query(MultiJoin(<<Rel(T, 0), Rel(S, 0), Rel(T, 1)>>, <<On(1, 1, 2, 1), On(2, 2, 3, 1)>>, 3, ColEq(T, 2, 1, 1)))}

EvaluationScenario(q) ==
    [conns |-> {"c1"}, ids |-> {1}, subs |-> 1, changes |-> 2, mixed |-> q.pred.op # "multi" \/ q.proj # <<>> \/ q.agg # NoAggregate, rows |-> RowsOf(q.pred),
     requests |-> {<< [q |-> q, identity |-> 0] >>}]
\* Two clients: commuted and absorbed forms of one query, a query with an
\* identity of its own, a join, an unindexed join and a set that is too long.
Ask(q) == [q |-> q, identity |-> 0]
SharingScenario ==
    [conns |-> {"c1", "c2"}, ids |-> {1, 2}, subs |-> 3, changes |-> 1, mixed |-> TRUE,
     rows |-> [t \in Tables |-> CASE t = T -> {<<1, 1>>, <<1, 2>>} [] t = S -> {<<1, 1>>} [] OTHER -> {}],
     requests |-> {<<Ask(Query(And(x, y)))>>, <<Ask(Query(And(y, x))), Ask(Query(j1(Nil)))>>,
                   <<Ask(Query(And(x, y))), Ask(Query(And(Or(x, z), And(y, x))))>>,
                   <<[q |-> Query(And(x, y)), identity |-> 1]>>, <<Ask(Query(Join(T, 2, S, 2, FALSE, Nil)))>>,
                   <<Ask(Query(x)), Ask(Query(y)), Ask(Query(z))>>}]

Catalogue == SingleTableQueries \cup AggregateQueries \cup WindowQueries \cup JoinQueries \cup SelfJoinQueries
             \cup CrossJoinQueries \cup EventQueries \cup MultiJoinQueries
MCScenarios == {EvaluationScenario(q) : q \in Catalogue} \cup {SharingScenario}

\* The three shapes whose deltas or snapshots go wrong.
MCMixedScenarios ==
    {[EvaluationScenario(Query(m(<<On(1, 1, 2, 1), On(2, 1, 3, 1)>>, Nil))) EXCEPT !.mixed = TRUE]}
MCPruningScenarios == {EvaluationScenario(Query(m(<<On(1, 1, 3, 1)>>, Or(ColEq(T, 1, 0, 1), ColEqCol(T, 2, 0, S, 2, 0)))))}
MCSnapshotScenarios == {EvaluationScenario(Query(Join(T, 1, T, 2, FALSE, ColEq(T, 1, 0, 1))))}
=============================================================================
