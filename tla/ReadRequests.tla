---------------------------- MODULE ReadRequests ----------------------------
(***************************************************************************)
(* The four ways to read: a raw one-off query, a raw subscription, a       *)
(* declared query and a declared view.  Each request is authorised,        *)
(* compiled for its caller, narrowed to the rows the caller may see, and   *)
(* answered from a committed snapshot.                                     *)
(*                                                                         *)
(* Raw requests resolve only the tables the caller may read.  Declared     *)
(* reads are authorised by the permissions of their declaration, resolve   *)
(* every table, and were compiled once when the runtime was built, for     *)
(* nobody: one that mentions :sender or a parameter is compiled again for  *)
(* the caller.  A commit may change the tables between two requests.       *)
(***************************************************************************)
EXTENDS OneOffQuery

CONSTANTS
    Statements,       \* the raw statements sent: [stmt, query, subscribe], the
                      \* two flags saying where the statement is legal SQL
    Declarations,     \* name -> [kind, stmt, params (name -> kind), requires]
    Supplied,         \* the parameter bindings a caller may send (name -> value)
    VisibilitySets,   \* the sets of visibility filters a module may declare
    TablePolicy,      \* table -> [access, perms], its read policy
    Callers,          \* callers [id, perms, allowAll]
    ZeroIdentity,     \* the identity declared reads are first compiled for
    Databases,        \* committed states: table -> rows in row-ID order
    SnapshotRows      \* the row limit of a subscription's initial snapshot

VARIABLES
    tables,           \* the committed state
    visibilityFilters,\* the module's filters
    readCatalog,      \* name -> entry [kind, compiled, template]
    answer            \* the last request and its answer

readVars == <<tables, visibilityFilters, readCatalog, answer>>

NoRequest == [via |-> "none"]

-----------------------------------------------------------------------------
\* Authorisation.

MissingRequiredPermission(caller, required) == ~caller.allowAll /\ ~(required \subseteq caller.perms)
callerCanReadTable(caller, t) ==
    \/ caller.allowAll
    \/ TablePolicy[t].access = "public"
    \/ TablePolicy[t].access = "permissioned" /\ TablePolicy[t].perms \subseteq caller.perms

EmptyParams == [p \in {} |-> 0]
RawEnv(caller) ==
    [caller |-> caller.id, readable |-> {t \in Tables : callerCanReadTable(caller, t)}, params |-> EmptyParams]
RuntimeEnv(id, params) == [caller |-> id, readable |-> Tables, params |-> params]

AllClauses == [limit |-> TRUE, projection |-> TRUE, orderBy |-> TRUE, offset |-> TRUE]

-----------------------------------------------------------------------------
\* Declared reads.

\* A parameter without a value stands for any value of its kind when a
\* template is compiled.
AnyOf(kind) == IF kind = "string" THEN ZeroIdentity ELSE 0
TemplateParams(params) == [p \in DOMAIN params |-> [kind |-> params[p], v |-> AnyOf(params[p])]]

validateDeclaredViewSQL(compiled) ==
    LET q == SubscriptionQuery(compiled)
    IN  /\ ValidateAggregate(q.pred, q.agg)
        /\ q.agg # NoAggregate =>
              /\ q.pred.op = "join" => ValidatePredicate(q.pred)
              /\ ~compiled.ordered /\ q.limit = None /\ q.offset = None
        /\ q.agg = NoAggregate =>
              /\ validateProjectionColumns(q.pred, q.proj)
              /\ validateOrderByColumns(q.pred, q.orderBy, q.agg)
              /\ q.limit # None => validateWindowSingleTable(q.pred, q.agg)
              /\ q.offset # None => validateWindowSingleTable(q.pred, q.agg)

\* An entry of the catalogue; a declaration that does not compile fails Build.
declaredReadCatalogEntry(d) ==
    LET compiled == compileSQLQueryString(d.stmt, RuntimeEnv(ZeroIdentity, TemplateParams(d.params)), AllClauses)
        valid == compiled.ok /\ (d.kind = "view" => validateDeclaredViewSQL(compiled))
                             /\ validateUsed(d.stmt, RuntimeEnv(ZeroIdentity, TemplateParams(d.params)))
    IN  [ok |-> valid, kind |-> d.kind, stmt |-> d.stmt, params |-> d.params, requires |-> d.requires, compiled |-> compiled]
newDeclaredReadCatalog == [name \in DOMAIN Declarations |-> declaredReadCatalogEntry(Declarations[name])]

authorizedDeclaredRead(name, kind, caller) ==
    /\ readCatalog[name].kind = kind
    /\ ~MissingRequiredPermission(caller, readCatalog[name].requires)

\* Exactly the declared parameters, each of its kind and none NULL.
declaredReadParameterBindings(entry, supplied) ==
    /\ DOMAIN supplied = DOMAIN entry.params
    /\ \A p \in DOMAIN supplied : supplied[p] # NULL /\ KindOf(supplied[p]) = entry.params[p]

executableDeclaredRead(entry, caller, supplied) ==
    IF ~declaredReadParameterBindings(entry, supplied) THEN Rejected
    ELSE IF DOMAIN supplied # {} \/ entry.compiled.usesCaller
    THEN compileSQLQueryString(entry.stmt,
            RuntimeEnv(caller.id, [p \in DOMAIN supplied |-> [kind |-> entry.params[p], v |-> supplied[p]]]), AllClauses)
    ELSE entry.compiled

prepareDeclaredRead(name, kind, caller, supplied) ==
    IF ~authorizedDeclaredRead(name, kind, caller) THEN Rejected
    ELSE ApplyVisibilityFilters(executableDeclaredRead(readCatalog[name], caller, supplied),
                                CompiledFilters(visibilityFilters, RuntimeEnv(caller.id, EmptyParams)), caller.allowAll)

-----------------------------------------------------------------------------
\* Requests.

ViewOf(reversed) == [ids |-> tables, scan |-> IF reversed THEN [t \in Tables |-> Reverse(tables[t])] ELSE tables]
SetView == [t \in Tables |-> ToSet(tables[t])]

\* A registration validates what it is given, then reads the snapshot.
registerSet(q) ==
    IF ValidatePredicate(q.pred) /\ ValidQuery(SetView, q) THEN initialUpdates(SetView, q, SnapshotRows)
    ELSE [err |-> TRUE, rows |-> EmptyBag]
register(compiled) ==
    IF compiled.ok THEN registerSet(SubscriptionQuery(compiled)) ELSE [err |-> TRUE, rows |-> EmptyBag]
execute(reversed, compiled) ==
    IF compiled.ok THEN executeCompiledSQLQuery(ViewOf(reversed), compiled) ELSE QueryError

Answered(via, what, caller, result) == answer' = [via |-> via, what |-> what, caller |-> caller, result |-> result]
Unanswered == answer.via = "none"

handleOneOffQuery(i, caller, reversed) ==
    /\ Unanswered
    /\ Answered("query", [stmt |-> Statements[i].stmt, legal |-> Statements[i].query, params |-> EmptyParams], caller,
                execute(reversed, CompileSQLQueryStringWithVisibility(Statements[i].stmt, RawEnv(caller), AllClauses,
                                                                      visibilityFilters, caller.allowAll)))
    /\ UNCHANGED <<tables, visibilityFilters, readCatalog>>

handleSubscribeSet(i, caller) ==
    /\ Unanswered
    /\ Answered("subscribe", [stmt |-> Statements[i].stmt, legal |-> Statements[i].subscribe, params |-> EmptyParams], caller,
                register(CompileSQLQueryStringWithVisibility(Statements[i].stmt, RawEnv(caller), TableShape,
                                                             visibilityFilters, caller.allowAll)))
    /\ UNCHANGED <<tables, visibilityFilters, readCatalog>>

CallQuery(name, caller, supplied, reversed) ==
    /\ Unanswered /\ readCatalog[name].kind = "query"
    /\ Answered("call", [name |-> name, stmt |-> Declarations[name].stmt, params |-> supplied], caller,
                execute(reversed, prepareDeclaredRead(name, "query", caller, supplied)))
    /\ UNCHANGED <<tables, visibilityFilters, readCatalog>>

SubscribeView(name, caller, supplied) ==
    /\ Unanswered /\ readCatalog[name].kind = "view"
    /\ Answered("view", [name |-> name, stmt |-> Declarations[name].stmt, params |-> supplied], caller,
                register(prepareDeclaredRead(name, "view", caller, supplied)))
    /\ UNCHANGED <<tables, visibilityFilters, readCatalog>>

Deliver ==
    /\ ~Unanswered
    /\ answer' = NoRequest
    /\ UNCHANGED <<tables, visibilityFilters, readCatalog>>

\* A transaction commits between two requests.
Commit ==
    /\ Unanswered
    /\ tables' \in Databases \ {tables}
    /\ UNCHANGED <<visibilityFilters, readCatalog, answer>>

\* Build fails on a declaration that does not compile.
Init ==
    /\ tables \in Databases
    /\ visibilityFilters \in VisibilitySets
    /\ readCatalog = newDeclaredReadCatalog
    /\ \A name \in DOMAIN readCatalog : readCatalog[name].ok
    /\ answer = NoRequest

Next ==
    \/ \E i \in DOMAIN Statements, caller \in Callers :
          (\E reversed \in BOOLEAN : handleOneOffQuery(i, caller, reversed)) \/ handleSubscribeSet(i, caller)
    \/ \E name \in DOMAIN Declarations, caller \in Callers, supplied \in Supplied :
          (\E reversed \in BOOLEAN : CallQuery(name, caller, supplied, reversed)) \/ SubscribeView(name, caller, supplied)
    \/ Deliver
    \/ Commit

Spec == Init /\ [][Next]_readVars

-----------------------------------------------------------------------------
(***************************************************************************)
(* What a statement means, read off its parse tree: the tuples of visible  *)
(* rows that satisfy every ON and the WHERE, and for each its output row   *)
(* and sort key.  NULL is a value below all others, equal to itself.       *)
(***************************************************************************)
LiteralMeans(req, lit) ==
    CASE lit.kind = "value" -> lit.v
      [] lit.kind = "sender" -> req.caller.id
      [] lit.kind = "param" -> req.what.params[lit.p]

Cell(stmt, ref, tuple) == tuple[RelationOf(stmt, ref)][ref.c]

Compares(x, cmp, y) ==
    CASE cmp = "=" -> x = y [] cmp = "!=" -> x # y [] cmp = "<" -> x < y
      [] cmp = "<=" -> x <= y [] cmp = ">" -> x > y [] cmp = ">=" -> x >= y

RECURSIVE Means(_, _, _, _)
Means(req, stmt, p, tuple) ==
    CASE p.op \in {"nil", "true"} -> TRUE
      [] p.op = "false" -> FALSE
      [] p.op = "cmp" -> Compares(Cell(stmt, p.ref, tuple), p.cmp, LiteralMeans(req, p.lit))
      [] p.op = "null" -> (Cell(stmt, p.ref, tuple) = NULL) # p.not
      [] p.op = "cols" -> Compares(Cell(stmt, p.l, tuple), p.cmp, Cell(stmt, p.r, tuple))
      [] p.op = "and" -> Means(req, stmt, p.l, tuple) /\ Means(req, stmt, p.r, tuple)
      [] p.op = "or" -> Means(req, stmt, p.l, tuple) \/ Means(req, stmt, p.r, tuple)

\* The rows of t its filters show the caller: all of them without a filter.
VisibleRows(req, t) ==
    LET shown == {f \in ToSet(visibilityFilters) : f.rels[1].t = t}
    IN  {r \in ToSet(tables[t]) : req.caller.allowAll \/ shown = {} \/ \E f \in shown : Means(req, f, f.where, <<r>>)}

MeantTuples(req, stmt) ==
    LET all == FoldLeft(LAMBDA xs, rel : {Append(x, r) : x \in xs, r \in VisibleRows(req, rel.t)}, {<<>>}, stmt.rels)
    IN  {x \in all : /\ \A k \in DOMAIN stmt.on : stmt.on[k].has => Cell(stmt, stmt.on[k].l, x) = Cell(stmt, stmt.on[k].r, x)
                     /\ Means(req, stmt, stmt.where, x)}

MeantRow(stmt, x) ==
    IF stmt.cols # <<>> THEN [i \in DOMAIN stmt.cols |-> Cell(stmt, stmt.cols[i].ref, x)]
    ELSE IF stmt.star # "" THEN x[RelationOf(stmt, [q |-> stmt.star, c |-> 0])] ELSE x[1]

\* An unqualified name that the column list gives means that column.
MeantKey(stmt, x) ==
    [k \in DOMAIN stmt.orderBy |->
        LET ref == stmt.orderBy[k].ref
            given == {i \in DOMAIN stmt.cols : OutputName(stmt.cols[i]) = ref.c}
        IN  IF ref.q = "" /\ given # {} THEN Cell(stmt, stmt.cols[CHOOSE i \in given : TRUE].ref, x) ELSE Cell(stmt, ref, x)]
KeyBefore(stmt, k1, k2) ==
    \E i \in DOMAIN k1 : /\ \A j \in 1 .. i - 1 : k1[j] = k2[j]
                         /\ IF stmt.orderBy[i].desc THEN k1[i] > k2[i] ELSE k1[i] < k2[i]

\* SUM overflows to an error; over nothing it is NULL for a nullable column.
MeantAggregate(stmt, tuples) ==
    LET arg(x) == Cell(stmt, stmt.agg.arg, x)
        known == {x \in tuples : arg(x) # NULL}
        nullable == <<stmt.rels[RelationOf(stmt, stmt.agg.arg)].t, stmt.agg.arg.c>> \in Nullable
    IN  IF stmt.agg.arg = Nil THEN Cardinality(tuples)
        ELSE IF stmt.agg.func = "SUM" THEN IF known = {} /\ nullable THEN NULL ELSE MapThenSumSet(arg, known)
        ELSE IF stmt.agg.distinct THEN Cardinality({arg(x) : x \in known}) ELSE Cardinality(known)

WindowSize(stmt, n) ==
    LET left == IF stmt.offset = None THEN n ELSE IF stmt.offset >= n THEN 0 ELSE n - stmt.offset
    IN  IF stmt.limit = None \/ left <= stmt.limit THEN left ELSE stmt.limit

\* rows is the window of the statement over tuples: sort them in any order the
\* keys allow, skip OFFSET of them, and keep LIMIT.
IsWindowOf(stmt, tuples, rows) ==
    LET first == IF stmt.offset = None THEN 0 ELSE stmt.offset
        keys == {MeantKey(stmt, x) : x \in tuples}
        group(key) == {x \in tuples : MeantKey(stmt, x) = key}
        before(key) == Cardinality({x \in tuples : KeyBefore(stmt, MeantKey(stmt, x), key)})
        placed(key) == {i \in DOMAIN rows : before(key) < first + i /\ first + i <= before(key) + Cardinality(group(key))}
        row(x) == MeantRow(stmt, x)
        at(i) == rows[i]
    IN  /\ Len(rows) = WindowSize(stmt, Cardinality(tuples))
        /\ \A key \in keys : BagOver(placed(key), at) \sqsubseteq BagOver(group(key), row)

\* The same for the bag of a window's rows.
IsWindowBagOf(stmt, tuples, bag) ==
    LET first == IF stmt.offset = None THEN 0 ELSE stmt.offset
        n == WindowSize(stmt, Cardinality(tuples))
        before(x) == Cardinality({y \in tuples : KeyBefore(stmt, MeantKey(stmt, y), MeantKey(stmt, x))})
        notAfter(x) == Cardinality({y \in tuples : ~KeyBefore(stmt, MeantKey(stmt, x), MeantKey(stmt, y))})
        row(x) == MeantRow(stmt, x)
    IN  \E chosen \in SUBSET tuples :
            /\ Cardinality(chosen) = n
            /\ \A x \in chosen : before(x) < first + n /\ notAfter(x) > first
            /\ \A x \in tuples \ chosen : notAfter(x) > first + n \/ before(x) < first
            /\ bag = BagOver(chosen, row)

Readable(req) ==
    IF req.via \in {"query", "subscribe"} THEN \A i \in DOMAIN req.what.stmt.rels : callerCanReadTable(req.caller, req.what.stmt.rels[i].t)
    ELSE ~MissingRequiredPermission(req.caller, Declarations[req.what.name].requires)
Legal(req) ==
    /\ Readable(req)
    /\ IF req.via \in {"query", "subscribe"} THEN req.what.legal
       ELSE declaredReadParameterBindings(Declarations[req.what.name], req.what.params)

(***************************************************************************)
(* A one-off or declared query that the caller may send is answered with   *)
(* exactly the window of its statement over the rows the caller may see,   *)
(* whatever order the tables are scanned in and whichever indexes, early   *)
(* stops and bounded heaps the execution uses; it fails when, and only     *)
(* when, a SUM overflows or the window is longer than the host allows.     *)
(* (handleOneOffQuery, CallQuery.)  Multi-way joins past the row limit are *)
(* left to RowLimitHolds.                                                  *)
(***************************************************************************)
AnswerIsWindow ==
    answer.via \in {"query", "call"} =>
        LET stmt == answer.what.stmt
            tuples == MeantTuples(answer, stmt)
            value == MeantAggregate(stmt, tuples)
            size == WindowSize(stmt, Cardinality(tuples))
        IN  IF ~Legal(answer) THEN answer.result.err
            ELSE IF stmt.agg # NoAggregate
            THEN IF value > MaxSum /\ stmt.agg.func = "SUM" THEN answer.result.err
                 ELSE answer.result = Rows(IF WindowSize(stmt, 1) = 1 THEN <<<<value>>>> ELSE <<>>)
            ELSE IF size <= MaxRows THEN ~answer.result.err /\ IsWindowOf(stmt, tuples, answer.result.rows)
            ELSE answer.result.err \/ Len(stmt.rels) > 2

(***************************************************************************)
(* A subscription that is admitted, raw or to a declared view, starts from *)
(* the rows its statement means to its caller, and one the caller may send *)
(* is admitted unless a limit is hit (handleSubscribeSet, SubscribeView).  *)
(***************************************************************************)
SnapshotIsAnswer ==
    answer.via \in {"subscribe", "view"} =>
        LET stmt == answer.what.stmt
            tuples == MeantTuples(answer, stmt)
            n == WindowSize(stmt, Cardinality(tuples))
        IN  IF ~Legal(answer) THEN answer.result.err
            ELSE IF answer.result.err
            THEN \/ n > SnapshotRows
                 \/ stmt.agg # NoAggregate /\ stmt.agg.func = "SUM" /\ MeantAggregate(stmt, tuples) > MaxSum
                 \/ Len(stmt.rels) > 2 /\ \E i \in DOMAIN stmt.rels : Len(tables[stmt.rels[i].t]) > MaxMultiJoinRowsPerRelation
            ELSE IF stmt.agg # NoAggregate THEN answer.result.rows = SetToBag({<<MeantAggregate(stmt, tuples)>>})
            ELSE IsWindowBagOf(stmt, tuples, answer.result.rows)

(***************************************************************************)
(* query_limits.go: ErrSQLQueryResultLimit "reports that a query exceeded  *)
(* a host-controlled result boundary": no query returns more rows than     *)
(* MaxRows.                                                                *)
(***************************************************************************)
RowLimitHolds == answer.via \in {"query", "call"} => Len(answer.result.rows) <= MaxRows
=============================================================================
