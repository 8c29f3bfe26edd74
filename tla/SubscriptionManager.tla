------------------------ MODULE SubscriptionManager ------------------------
(***************************************************************************)
(* The subscription manager: clients register and unregister sets of       *)
(* queries, transactions commit, and every commit is turned into the       *)
(* changes each subscription sees.  The executor calls the manager from    *)
(* one goroutine, so each operation is one step.                           *)
(*                                                                         *)
(* `rows` is what a client that applies the snapshot and every delta holds *)
(* for a subscription.  Event rows are shown only in the transaction that  *)
(* emitted them, so `rows` of a query over an event table are those of the *)
(* last transaction.                                                       *)
(***************************************************************************)
EXTENDS QueryIdentity

CONSTANTS
    Scenarios,                  \* sets of requests and the rows they meet, one is chosen in Init
    MaxQueriesPerSet,
    MaxActiveSetsPerConnection,
    MaxActiveSubscriptionsPerConnection,
    MaxSubscriptionID           \* stands for the largest types.SubscriptionID

VARIABLES
    scenario,
    committed,    \* table -> its committed rows
    events,       \* event table -> the rows the last transaction emitted
    byHash,       \* registry: hash -> [q, subs], subs a set of <<conn, sub>>
    indexes,      \* PruningIndexes: a set of <<entry, hash>>
    deltaCols,    \* deltaIndexColumns: a bag of <<table, column>>
    querySets,    \* <<conn, query ID>> -> the subscription IDs of the set
    usage,        \* connectionUsage: conn -> [sets, subs]
    activeSets,
    nextSubID,
    dropped,      \* connections signalled for teardown and not yet drained
    rows,         \* <<conn, sub>> -> the bag of rows its client holds
    asked,        \* <<conn, sub>> -> the query as the client wrote it
    unsettled     \* rows that a completed unsubscribe failed to take back

registry == <<byHash, indexes, deltaCols, querySets, usage, activeSets, nextSubID, asked>>
vars == <<scenario, committed, events, registry, dropped, rows, unsettled>>

Conns == scenario.conns
NoEvents == [t \in EventTables |-> {}]
Visible(tables, emitted) == [t \in Tables |-> IF IsEventTable(t) THEN emitted[t] ELSE tables[t]]
TouchesEvents(q) == PredicateTables(q.pred) \cap EventTables # {}
UsageOf(c) == IF c \in DOMAIN usage THEN usage[c] ELSE [sets |-> 0, subs |-> 0]

AllRowsOf(sc) == UNION {{<<t, r>> : r \in sc.rows[t]} : t \in Tables}

Init ==
    /\ scenario \in Scenarios
    /\ \E present \in SUBSET {x \in AllRowsOf(scenario) : ~IsEventTable(x[1])} :
          committed = [t \in Tables |-> {x[2] : x \in {y \in present : y[1] = t}}]
    /\ events = NoEvents
    /\ byHash = <<>> /\ indexes = {} /\ deltaCols = EmptyBag
    /\ querySets = <<>> /\ usage = <<>> /\ activeSets = 0 /\ nextSubID = 0
    /\ dropped = {} /\ rows = <<>> /\ asked = <<>> /\ unsettled = EmptyBag

\* Event rows of the last transaction are gone before the next operation.
Settled == [s \in DOMAIN rows |->
                IF TouchesEvents(asked[s]) THEN Result(asked[s], committed) ELSE rows[s]]

-----------------------------------------------------------------------------
\* The registry.

Without(f, keys) == [k \in DOMAIN f \ keys |-> f[k]]

walkDeltaIndexColumns(p) ==
    IF p.op = "join" THEN SetToBag({<<p.left, p.lc>>}) (+) SetToBag({<<p.right, p.rc>>}) ELSE EmptyBag

\* createQueryState, placeSubscriptionForResolver and addDeltaIndexColumns for
\* a query that is new, then addSubscriber.
publish(reg, s, q, hash) ==
    IF hash \in DOMAIN reg.byHash
    THEN [reg EXCEPT !.byHash[hash].subs = @ \cup {s}]
    ELSE [byHash |-> reg.byHash @@ (hash :> [q |-> q, subs |-> {s}]),
          indexes |-> reg.indexes \cup {<<e, hash>> : e \in Placement(q.pred)},
          deltaCols |-> reg.deltaCols (+) walkDeltaIndexColumns(q.pred)]

\* dropSub: the last subscriber takes the query's placement with it.
dropSub(reg, s) ==
    LET hash == CHOOSE h \in DOMAIN reg.byHash : s \in reg.byHash[h].subs
        q == reg.byHash[hash].q
    IN  IF reg.byHash[hash].subs # {s}
        THEN [reg EXCEPT !.byHash[hash].subs = @ \ {s}]
        ELSE [byHash |-> Without(reg.byHash, {hash}),
              indexes |-> reg.indexes \ {<<e, hash>> : e \in Placement(q.pred)},
              deltaCols |-> reg.deltaCols (-) walkDeltaIndexColumns(q.pred)]

Registry == [byHash |-> byHash, indexes |-> indexes, deltaCols |-> deltaCols]
SetRegistry(reg) == byHash' = reg.byHash /\ indexes' = reg.indexes /\ deltaCols' = reg.deltaCols

reserveConnectionQuota(c, n) == (c :> [sets |-> UsageOf(c).sets + 1, subs |-> UsageOf(c).subs + n]) @@ usage

\* Mutant: only the set is given back, not the subscriptions it held.
ReleaseOnlyTheSet(use, c, n) == [use EXCEPT ![c].sets = @ - 1]

releaseConnectionQuota(use, c, n) ==
    LET left == [sets |-> use[c].sets - 1, subs |-> use[c].subs - n]
    IN  IF left.sets <= 0 /\ left.subs <= 0 THEN Without(use, {c})
        ELSE [use EXCEPT ![c] = [sets |-> IF left.sets < 0 THEN 0 ELSE left.sets,
                                 subs |-> IF left.subs < 0 THEN 0 ELSE left.subs]]

\* snapshotBudget: the rows of the queries of one set share InitialRowLimit.
remainingRowLimit(used) == IF used >= MaxDeltaRows THEN 1 ELSE MaxDeltaRows - used

newSnapshotBudget == [err |-> FALSE, used |-> 0, parts |-> <<>>]
addSnapshot(budget, s) ==
    LET used == budget.used + BagCardinality(s.rows)
    IN  IF budget.err \/ s.err \/ used > MaxDeltaRows THEN [budget EXCEPT !.err = TRUE]
        ELSE [err |-> FALSE, used |-> used, parts |-> Append(budget.parts, s.rows)]

-----------------------------------------------------------------------------
\* Register and unregister.

\* A query of a request with its canonical form and the hash of that form.
Canonical(q) == [q EXCEPT !.pred = canonicalizePredicate(q.pred)]
Hashed(item, canonical) == [q |-> item.q, canonical |-> canonical, hash |-> QueryHash(canonical, item.identity)]

\* The first query of each hash, in the order asked.
Deduped(request) ==
    FoldLeft(LAMBDA kept, item : IF \E i \in DOMAIN kept : kept[i].hash = item.hash THEN kept ELSE Append(kept, item),
             <<>>, [i \in DOMAIN request |-> Hashed(request[i], Canonical(request[i].q))])

HeldBy(c, hash) == IF hash \in DOMAIN byHash THEN {s \in byHash[hash].subs : s[1] = c} ELSE {}

Admissible(c, id, request) ==
    /\ request # <<>>
    /\ Len(request) <= MaxQueriesPerSet
    /\ <<c, id>> \notin DOMAIN querySets
    /\ UsageOf(c).sets + 1 <= MaxActiveSetsPerConnection
    /\ \A i \in DOMAIN request :
          /\ ValidatePredicate(request[i].q.pred)
          /\ ValidatePredicate(Canonical(request[i].q).pred)
          /\ ValidQuery(committed, Canonical(request[i].q))

WithinQuota(c, n) ==
    /\ nextSubID + n <= MaxSubscriptionID
    /\ UsageOf(c).subs + n <= MaxActiveSubscriptionsPerConnection

\* The snapshot of one query of the set; a query this connection already holds
\* brings no second snapshot.
InitialSnapshot(c, item, remaining) ==
    IF HeldBy(c, item.hash) # {} THEN [err |-> FALSE, rows |-> EmptyBag]
    ELSE initialUpdates(committed, item.canonical, remaining)
InitialSnapshots(c, items) ==
    FoldLeft(LAMBDA budget, item : addSnapshot(budget, InitialSnapshot(c, item, remainingRowLimit(budget.used))),
             newSnapshotBudget, items)

\* The set is published, or what was reserved for it is given back.
publishSet(c, id, items, snapshots, prepared) ==
    LET n == Len(items)
        sub(i) == <<c, nextSubID + i>>
        shared(i) == HeldBy(c, items[i].hash)
        reg == FoldLeft(LAMBDA r, i : publish(r, sub(i), items[i].canonical, items[i].hash),
                        Registry, [i \in 1 .. n |-> i])
    IN  IF snapshots.err \/ ~prepared
        THEN /\ usage' = releaseConnectionQuota(reserveConnectionQuota(c, n), c, n)
             /\ UNCHANGED <<byHash, indexes, deltaCols, querySets, activeSets, nextSubID, asked, rows>>
        ELSE /\ SetRegistry(reg)
             /\ usage' = reserveConnectionQuota(c, n)
             /\ querySets' = querySets @@ (<<c, id>> :> [i \in 1 .. n |-> nextSubID + i])
             /\ nextSubID' = nextSubID + n
             /\ activeSets' = activeSets + 1
             /\ asked' = asked @@ [s \in {sub(i) : i \in 1 .. n} |-> items[s[2] - nextSubID].q]
             /\ rows' = Settled @@
                    [s \in {sub(i) : i \in 1 .. n} |->
                        LET i == s[2] - nextSubID
                        IN  IF shared(i) = {} THEN snapshots.parts[i]
                            ELSE Settled[CHOOSE x \in shared(i) : TRUE]]

registerItems(c, id, items, prepared) ==
    IF ~WithinQuota(c, Len(items)) THEN UNCHANGED <<registry, rows>>
    ELSE publishSet(c, id, items, InitialSnapshots(c, items), prepared)

RegisterSet(c, id, request, prepared) ==
    IF ~Admissible(c, id, request) THEN UNCHANGED <<registry, rows>>
    ELSE registerItems(c, id, Deduped(request), prepared)

Register ==
    \E c \in Conns, id \in scenario.ids, request \in scenario.requests, prepared \in BOOLEAN :
        /\ nextSubID < scenario.subs
        /\ RegisterSet(c, id, request, prepared)
        /\ events' = NoEvents
        /\ UNCHANGED <<scenario, committed, dropped, unsettled>>

SubsOf(c, id) == {<<c, querySets[<<c, id>>][i]>> : i \in DOMAIN querySets[<<c, id>>]}
QueryOf(s) == byHash[CHOOSE h \in DOMAIN byHash : s \in byHash[h].subs].q

\* What the client is left with, plus what it was told to delete and had not.
Mismatch(held, deleted) == (held (-) deleted) (+) (deleted (-) held)

\* Mutant: the final deletes forget that the query is a window.
FinalRowsOfTheTable(s, remaining) ==
    initialUpdates(committed, [QueryOf(s) EXCEPT !.limit = None, !.offset = None], remaining)

\* What the final deletes of a subscription are computed from.
FinalRows(s, remaining) == initialUpdates(committed, QueryOf(s), remaining)

\* The final deletes are computed, then every subscription of the set is
\* dropped whether or not they could be.
UnregisterSet(c, id) ==
    LET ids == querySets[<<c, id>>]
        deletes == FoldLeft(LAMBDA budget, sub : addSnapshot(budget, FinalRows(<<c, sub>>, remainingRowLimit(budget.used))),
                            newSnapshotBudget, ids)
        reg == FoldLeft(LAMBDA r, sub : dropSub(r, <<c, sub>>), Registry, ids)
    IN  /\ <<c, id>> \in DOMAIN querySets
        /\ SetRegistry(reg)
        /\ querySets' = Without(querySets, {<<c, id>>})
        /\ usage' = releaseConnectionQuota(usage, c, Len(ids))
        /\ activeSets' = activeSets - 1
        /\ asked' = Without(asked, SubsOf(c, id))
        /\ rows' = Without(Settled, SubsOf(c, id))
        /\ unsettled' = IF deletes.err \/ c \in dropped THEN unsettled
                        ELSE BagUnion({unsettled} \cup
                                {Mismatch(Settled[<<c, ids[i]>>], deletes.parts[i]) : i \in DOMAIN ids})
        /\ UNCHANGED nextSubID

Unregister ==
    \E c \in Conns, id \in scenario.ids :
        /\ UnregisterSet(c, id)
        /\ events' = NoEvents
        /\ UNCHANGED <<scenario, committed, dropped>>

DisconnectClient(c) ==
    LET subs == {s \in DOMAIN asked : s[1] = c}
        sets == {k \in DOMAIN querySets : k[1] = c}
        reg == FoldSet(LAMBDA s, r : dropSub(r, s), Registry, subs)
    IN  /\ SetRegistry(reg)
        /\ querySets' = Without(querySets, sets)
        /\ usage' = Without(usage, {c})
        /\ activeSets' = activeSets - Cardinality(sets)
        /\ asked' = Without(asked, subs)
        /\ rows' = Without(Settled, subs)
        /\ events' = NoEvents
        /\ UNCHANGED <<scenario, committed, nextSubID, unsettled>>

\* A client that goes away, and the executor draining a dropped one.
Disconnect ==
    \E c \in Conns : (\E s \in DOMAIN asked : s[1] = c) /\ DisconnectClient(c) /\ UNCHANGED dropped

DrainDroppedClients ==
    \E c \in dropped : DisconnectClient(c) /\ dropped' = dropped \ {c}

-----------------------------------------------------------------------------
\* A commit: the rows that change place, and the deltas they bring.

\* Bounds: at most scenario.changes rows change, and where scenario.mixed is
\* FALSE a transaction only inserts or only deletes.
changesets ==
    LET present(x) == x[2] \in committed[x[1]]
    IN  {C \in UNION {kSubset(k, AllRowsOf(scenario)) : k \in 1 .. scenario.changes} :
            scenario.mixed \/ \A x, y \in C : present(x) = present(y)}

DeltaView(changed) ==
    LET touched(t) == {x[2] : x \in {y \in changed : y[1] = t}}
        ins == [t \in Tables |-> touched(t) \ committed[t]]
        del == [t \in Tables |-> touched(t) \cap committed[t]]
    IN  [ins |-> ins, del |-> del, cols |-> BagToSet(deltaCols),
         view |-> [t \in Tables |->
                     IF IsEventTable(t) THEN {} ELSE (committed[t] \ del[t]) \cup ins[t]]]

\* What was evaluated goes to all subscribers of its query; a query that failed
\* has the connections of its subscribers dropped.
broadcast(overLimit, outcome) ==
    LET failed == overLimit \cup {h \in DOMAIN outcome : outcome[h].err}
        hash(s) == CHOOSE h \in DOMAIN byHash : s \in byHash[h].subs
    IN  /\ dropped' = dropped \cup UNION {{s[1] : s \in byHash[h].subs} : h \in failed}
        /\ rows' = [s \in DOMAIN rows |->
                      IF s[1] \in dropped' THEN EmptyBag   \* no longer a mirror
                      ELSE IF hash(s) \in DOMAIN outcome
                      THEN (Settled[s] (-) outcome[hash(s)].del) (+) outcome[hash(s)].ins
                      ELSE Settled[s]]

\* evaluate: over-limit multi-joins fail whether or not they are candidates,
\* then every candidate is evaluated.
EvalAndBroadcast(dv) ==
    LET overLimit == {h \in DOMAIN byHash : ~checkMultiJoinDeltaLimits(dv, byHash[h].q.pred)}
        candidates == (collectCandidatesInto(indexes, dv) \cap DOMAIN byHash) \ overLimit
    IN  broadcast(overLimit, [h \in candidates |-> evalQuerySafe(dv, byHash[h].q)])

\* With nothing registered a commit evaluates nothing, and Init ranges over
\* every content of the tables.
Commit ==
    /\ byHash # <<>>
    /\ \E changed \in changesets :
          LET dv == DeltaView(changed)
          IN  /\ committed' = dv.view
              /\ events' = [t \in EventTables |-> dv.ins[t]]
              /\ EvalAndBroadcast(dv)
              /\ UNCHANGED <<scenario, registry, unsettled>>

Next == Register \/ Unregister \/ Disconnect \/ DrainDroppedClients \/ Commit

Spec == Init /\ [][Next]_vars

-----------------------------------------------------------------------------
\* Properties.

TypeOK ==
    /\ scenario \in Scenarios
    /\ \A t \in Tables : committed[t] \subseteq scenario.rows[t]
    /\ \A t \in EventTables : committed[t] = {} /\ events[t] \subseteq scenario.rows[t]
    /\ DOMAIN querySets \subseteq Conns \X scenario.ids
    /\ DOMAIN asked = DOMAIN rows /\ dropped \subseteq Conns
    /\ nextSubID \in 0 .. MaxSubscriptionID

\* A client that applies its snapshot and every later delta holds exactly what
\* its query, as it wrote it, returns on the committed tables: candidate
\* pruning, canonicalisation, query sharing and incremental evaluation lose and
\* invent nothing.  The only way out is an evaluation error, and then the
\* connection has been signalled for teardown.
ViewsAreResults ==
    \A s \in DOMAIN rows :
        s[1] \notin dropped => rows[s] = Result(asked[s], Visible(committed, events))

\* An unsubscribe that succeeds tells the client to delete exactly what it holds.
FinalDeletesMatch == unsettled = EmptyBag

\* The pruning indexes and delta-index columns are those of the registered
\* queries and no others, after any order of registrations and removals.
PlacementsAreLive ==
    /\ indexes = UNION {{<<e, h>> : e \in Placement(byHash[h].q.pred)} : h \in DOMAIN byHash}
    /\ deltaCols = FoldSet(LAMBDA h, b : b (+) walkDeltaIndexColumns(byHash[h].q.pred), EmptyBag, DOMAIN byHash)
    /\ DOMAIN asked = UNION {byHash[h].subs : h \in DOMAIN byHash}
    /\ \A h \in DOMAIN byHash : byHash[h].subs # {}

\* Quota counters are exact: no failed registration, unregister or disconnect
\* leaks or returns a slot twice.
QuotasAreExact ==
    /\ activeSets = Cardinality(DOMAIN querySets)
    /\ \A c \in Conns :
          /\ UsageOf(c).sets = Cardinality({k \in DOMAIN querySets : k[1] = c})
          /\ UsageOf(c).subs = Cardinality({s \in DOMAIN asked : s[1] = c})
          /\ UsageOf(c).subs <= MaxActiveSubscriptionsPerConnection

\* The registry is what its subscriptions make it: after any order of
\* registrations, failures, removals and disconnects, no index entry, delta
\* column or quota slot outlives its subscription and none is missing.
RegistryIsExact == TypeOK /\ PlacementsAreLive /\ QuotasAreExact
=============================================================================
