------------------------------- MODULE Store -------------------------------
(***************************************************************************)
(* The in-memory store: tables with their indexes, row-ID allocator and    *)
(* auto-increment sequence; the one open transaction of the executor; the  *)
(* commit that turns it into a changeset; read snapshots, which hold the   *)
(* committed state's read lock; and recovery, which rebuilds the tables    *)
(* from an exported snapshot and the changesets after it.                  *)
(*                                                                         *)
(* A row is the sequence of its column values, columns counted from 1, and *)
(* NULL is -1.  A B-tree index is the set of its <<key, row ID>> mappings  *)
(* (module BTreeIndex is about its pages).  A schema is a record           *)
(*   [width, nullable: columns that admit NULL, indexes: a sequence of     *)
(*    [cols, unique, primary], auto: the auto-increment column or 0,       *)
(*    max: the largest value of that column, event: BOOLEAN]               *)
(***************************************************************************)
EXTENDS Integers, Sequences, FiniteSets, SequencesExt

CONSTANTS
    Scenarios,     \* [schemas, rows, txs, readers]: tables, the rows offered, bounds
    MaxReads,      \* bound on the reads one snapshot has in progress
    MaxUint64      \* stands for the largest uint64, of row IDs and of sequences

VARIABLES
    scenario,
    tables,        \* table -> [rows, nextID, indexes, hashes, seq]
    committedTxID,
    tx,            \* the executor's transaction
    wanted,        \* table -> the rows the transaction's calls should have left
    locking,       \* the committing goroutine waits for the write lock
    rlocks,        \* how often the committed state is read-locked
    readers,       \* reader -> its CommittedSnapshot
    export,        \* the last snapshot written: rows and allocators at its horizon
    log            \* the changesets after that horizon

vars == <<scenario, tables, committedTxID, tx, wanted, locking, rlocks, readers, export, log>>

NULL == -1
Schema(t) == scenario.schemas[t]
TableIDs == DOMAIN scenario.schemas
Without(f, keys) == [k \in DOMAIN f \ keys |-> f[k]]
With(f, k, v) == [x \in DOMAIN f \cup {k} |-> IF x = k THEN v ELSE f[x]]
RowSet(rows) == {rows[id] : id \in DOMAIN rows}

-----------------------------------------------------------------------------
\* Tables.

HasPK(s) == \E i \in DOMAIN s.indexes : s.indexes[i].primary
ExtractKey(row, cols) == [i \in DOMAIN cols |-> row[cols[i]]]
\* Rows that agree on their first column collide in the row-hash index.
Hash64(row) == row[1]

NewTable(s) ==
    [rows |-> <<>>, nextID |-> 1, indexes |-> [i \in DOMAIN s.indexes |-> {}], hashes |-> {},
     seq |-> IF s.auto = 0 THEN 0 ELSE 1]

Seek(table, i, key) == {x[2] : x \in {y \in table.indexes[i] : y[1] = key}}
RowsWithHash(table, row) == {x[2] : x \in {y \in table.hashes : y[1] = Hash64(row)}}

\* ValidateRow: the row's shape, and NULL only where the column admits it.
ValidateRow(s, row) ==
    Len(row) = s.width /\ \A c \in DOMAIN row : row[c] = NULL => c \in s.nullable

\* The sequence counts non-negative values only; anything else is NULL to it.
ValueAsUint64(v) == IF v < 0 THEN NULL ELSE v

checkRowIDValueAvailable(next) == next # 0 /\ next # MaxUint64

\* insertIntoIndexes, the set semantics of a table without a primary key, and
\* the row itself; a violation leaves the table as it was.
InsertRow(s, table, id, row) ==
    LET key(i) == ExtractKey(row, s.indexes[i].cols)
        taken == \E i \in DOMAIN s.indexes : s.indexes[i].unique /\ Seek(table, i, key(i)) # {}
        duplicate == ~HasPK(s) /\ \E other \in RowsWithHash(table, row) : table.rows[other] = row
    IN  IF id \in DOMAIN table.rows \/ taken \/ duplicate THEN [err |-> TRUE, table |-> table]
        ELSE [err |-> FALSE,
              table |-> [table EXCEPT
                  !.rows = With(@, id, row),
                  !.indexes = [i \in DOMAIN @ |-> @[i] \cup {<<key(i), id>>}],
                  !.hashes = IF HasPK(s) THEN @ ELSE @ \cup {<<Hash64(row), id>>}]]

\* The row's own entries are looked up by key, then removed.
DeleteRow(s, table, id) ==
    LET row == table.rows[id]
    IN  [table EXCEPT
            !.rows = Without(@, {id}),
            !.indexes = [i \in DOMAIN @ |-> @[i] \ {<<ExtractKey(row, s.indexes[i].cols), id>>}],
            !.hashes = @ \ {<<Hash64(row), id>>}]

-----------------------------------------------------------------------------
\* The transaction's buffers.  `unique` and `rowIndex` are built when first
\* needed and kept up to date afterwards.

NewTransaction ==
    [state |-> "active", ins |-> [t \in TableIDs |-> <<>>], del |-> [t \in TableIDs |-> {}],
     nextIDs |-> <<>>, seqs |-> <<>>, unique |-> <<>>, rowIndex |-> <<>>]
NoTransaction == [NewTransaction EXCEPT !.state = "committed"]

NoSnapshot == [state |-> "none", active |-> 0, released |-> FALSE, at |-> 0]

nextRowID(x, t) == IF t \in DOMAIN x.nextIDs THEN x.nextIDs[t] ELSE tables[t].nextID
allocRowIDForInsert(x, t) == [x EXCEPT !.nextIDs = With(@, t, nextRowID(x, t) + 1)]
nextSequenceValue(x, t) == IF t \in DOMAIN x.seqs THEN x.seqs[t] ELSE tables[t].seq
nextAutoIncrementSequenceValue(v) == IF v = MaxUint64 THEN v ELSE v + 1

advanceTxSequencePastValue(x, t, observed) ==
    LET current == nextSequenceValue(x, t)
        next == nextAutoIncrementSequenceValue(observed)
    IN  IF current # 0 /\ next > current THEN [x EXCEPT !.seqs = With(@, t, next)] ELSE x

\* A zero in the auto-increment column is replaced by the next value of the
\* sequence; `value` is what the sequence must move past, NULL for nothing.
applyAutoIncrement(x, t, row) ==
    LET s == Schema(t)
        next == nextSequenceValue(x, t)
    IN  IF s.auto = 0 THEN [err |-> FALSE, row |-> row, value |-> NULL]
        ELSE IF row[s.auto] # 0
        THEN [err |-> FALSE, row |-> row, value |-> ValueAsUint64(row[s.auto])]
        ELSE IF next = 0 \/ next > s.max \/ (next = s.max /\ s.max = MaxUint64)
        THEN [err |-> TRUE, row |-> row, value |-> NULL]
        ELSE [err |-> FALSE, row |-> [row EXCEPT ![s.auto] = next], value |-> next]

ensureTxUniqueIndex(x, t, i) ==
    IF <<t, i>> \in DOMAIN x.unique THEN x
    ELSE [x EXCEPT !.unique = With(@, <<t, i>>,
            {<<id, ExtractKey(x.ins[t][id], Schema(t).indexes[i].cols)>> : id \in DOMAIN x.ins[t]})]
ensureTxRowIndex(x, t) ==
    IF t \in DOMAIN x.rowIndex THEN x
    ELSE [x EXCEPT !.rowIndex = With(@, t, {<<id, x.ins[t][id]>> : id \in DOMAIN x.ins[t]})]

trackTxInsert(x, t, id, row) ==
    [x EXCEPT
        !.unique = [r \in DOMAIN @ |->
            IF r[1] = t THEN @[r] \cup {<<id, ExtractKey(row, Schema(t).indexes[r[2]].cols)>>} ELSE @[r]],
        !.rowIndex = [r \in DOMAIN @ |-> IF r = t THEN @[r] \cup {<<id, row>>} ELSE @[r]]]
untrackTxInsert(x, t, id) ==
    [x EXCEPT
        !.unique = [r \in DOMAIN @ |-> IF r[1] = t THEN {e \in @[r] : e[1] # id} ELSE @[r]],
        !.rowIndex = [r \in DOMAIN @ |-> IF r = t THEN {e \in @[r] : e[1] # id} ELSE @[r]]]

addInsert(x, t, id, row) == trackTxInsert([x EXCEPT !.ins[t] = With(@, id, row)], t, id, row)

\* Mutant: the transaction's indexes keep the key of an insert that is undone.
RemoveInsertKeepsKey(x, t, id) == [x EXCEPT !.ins[t] = Without(@, {id})]

removeInsert(x, t, id) == untrackTxInsert([x EXCEPT !.ins[t] = Without(@, {id})], t, id)

\* Committed rows with the key of `row` in index i are all deleted here.
checkCommittedUnique(x, t, i, row) ==
    Seek(tables[t], i, ExtractKey(row, Schema(t).indexes[i].cols)) \subseteq x.del[t]

\* The unique indexes are checked in order, committed entries first where they
\* count, those of the transaction built on the way, until one has the key.
CheckTx(x, t, row, committed) ==
    LET s == Schema(t)
        key(i) == ExtractKey(row, s.indexes[i].cols)
        step(acc, i) ==
            LET y == ensureTxUniqueIndex(acc.tx, t, i)
            IN  IF acc.err \/ ~s.indexes[i].unique THEN acc
                ELSE IF committed /\ ~checkCommittedUnique(x, t, i, row) THEN [acc EXCEPT !.err = TRUE]
                ELSE [err |-> \E e \in y.unique[<<t, i>>] : e[2] = key(i), tx |-> y]
    IN  FoldLeft(step, [err |-> FALSE, tx |-> x], [i \in DOMAIN s.indexes |-> i])

hasTxDuplicateRow(acc, t, row) ==
    IF acc.err \/ HasPK(Schema(t)) THEN acc
    ELSE LET y == ensureTxRowIndex(acc.tx, t)
         IN  [err |-> \E e \in y.rowIndex[t] : e[2] = row, tx |-> y]

checkTxInsertConflicts(x, t, row) ==
    hasTxDuplicateRow(CheckTx(x, t, row, FALSE), t, row)

-----------------------------------------------------------------------------
\* Insert, Delete and Update: each returns whether it failed and the buffers it
\* left, and Insert the row it stored.

\* Mutant: a row is restored although its unique key was taken meanwhile.
UndeleteUnchecked(x, t, row) ==
    LET found == {id \in x.del[t] : tables[t].rows[id] = row}
    IN  [done |-> found # {}, err |-> FALSE, tx |-> [x EXCEPT !.del[t] = @ \ found]]

\* Mutant: a row deleted and inserted again is a delete and an insert.
NeverUndelete(x, t, row) == [done |-> FALSE, err |-> FALSE, tx |-> x]

AddDelete(x, t, id) == [x EXCEPT !.del[t] = @ \cup {id}]
CancelDelete(x, t, ids) == [x EXCEPT !.del[t] = @ \ ids]

\* A committed row deleted in this transaction and inserted again is restored.
tryUndelete(x, t, row) ==
    LET s == Schema(t)
        found == {id \in x.del[t] : tables[t].rows[id] = row /\
                    IF HasPK(s)
                    THEN \E i \in DOMAIN s.indexes :
                            s.indexes[i].primary /\ id \in Seek(tables[t], i, ExtractKey(row, s.indexes[i].cols))
                    ELSE id \in RowsWithHash(tables[t], row)}
        checked == checkTxInsertConflicts(x, t, row)
    IN  IF found = {} THEN [done |-> FALSE, err |-> FALSE, tx |-> x]
        ELSE [done |-> TRUE, err |-> checked.err,
              tx |-> IF checked.err THEN checked.tx ELSE CancelDelete(checked.tx, t, found)]

\* Every unique index, committed then pending; then equal rows likewise.
hasCommittedDuplicateRow(acc, x, t, row) ==
    IF acc.err \/ Schema(t).event \/ HasPK(Schema(t)) THEN acc
    ELSE [acc EXCEPT !.err = \E id \in RowsWithHash(tables[t], row) \ x.del[t] : tables[t].rows[id] = row]
checkInsertConflicts(x, t, row) ==
    hasTxDuplicateRow(hasCommittedDuplicateRow(CheckTx(x, t, row, ~Schema(t).event), x, t, row), t, row)

InsertFailed(x, row) == [err |-> TRUE, tx |-> x, row |-> row]

insertChecked(checked, t, auto) ==
    LET id == nextRowID(checked.tx, t)
        placed == allocRowIDForInsert(checked.tx, t)
        moved == IF auto.value = NULL THEN placed ELSE advanceTxSequencePastValue(placed, t, auto.value)
    IN  IF checked.err \/ ~checkRowIDValueAvailable(id) THEN InsertFailed(checked.tx, auto.row)
        ELSE [err |-> FALSE, tx |-> addInsert(moved, t, id, auto.row), row |-> auto.row]

insertUndeleted(x, t, auto, undelete) ==
    IF undelete.done THEN [err |-> undelete.err, tx |-> undelete.tx, row |-> auto.row]
    ELSE IF ~checkRowIDValueAvailable(tables[t].nextID) THEN InsertFailed(x, auto.row)
    ELSE insertChecked(checkInsertConflicts(x, t, auto.row), t, auto)

insertAssigned(x, t, auto) ==
    IF auto.err THEN InsertFailed(x, auto.row)
    ELSE insertUndeleted(x, t, auto,
            IF Schema(t).event THEN [done |-> FALSE, err |-> FALSE, tx |-> x] ELSE tryUndelete(x, t, auto.row))

Insert(x, t, row) ==
    IF ~ValidateRow(Schema(t), row) THEN InsertFailed(x, row)
    ELSE insertAssigned(x, t, applyAutoIncrement(x, t, row))

Delete(x, t, id) ==
    IF id \in DOMAIN x.ins[t] THEN [err |-> FALSE, tx |-> removeInsert(x, t, id)]
    ELSE IF id \notin DOMAIN tables[t].rows \/ id \in x.del[t] THEN [err |-> TRUE, tx |-> x]
    ELSE [err |-> FALSE, tx |-> AddDelete(x, t, id)]

\* StateView: a transaction reads its inserts, then what it has not deleted.
GetRow(x, t, id) == IF id \in DOMAIN x.ins[t] THEN x.ins[t][id] ELSE tables[t].rows[id]
ScanTable(x, t) == DOMAIN x.ins[t] \cup (DOMAIN tables[t].rows \ x.del[t])
SeekIndex(x, t, i, key) ==
    (Seek(tables[t], i, key) \ x.del[t]) \cup
    {id \in DOMAIN x.ins[t] : ExtractKey(x.ins[t][id], Schema(t).indexes[i].cols) = key}

\* Mutant: the delete of an update is not undone when its insert fails.
UpdateForgetsRow(x, t, id, row) ==
    LET inserted == Insert(Delete(x, t, id).tx, t, row)
    IN  IF id \notin ScanTable(x, t) THEN [err |-> TRUE, tx |-> x, row |-> row] ELSE inserted

\* The old row is deleted, the new one inserted, and the delete undone when the
\* insert fails.
Update(x, t, id, row) ==
    LET deleted == Delete(x, t, id)
        inserted == Insert(deleted.tx, t, row)
        restored == IF id \in DOMAIN x.ins[t] THEN addInsert(inserted.tx, t, id, x.ins[t][id])
                    ELSE CancelDelete(inserted.tx, t, {id})
    IN  IF id \notin ScanTable(x, t) THEN [err |-> TRUE, tx |-> x, row |-> row]
        ELSE IF inserted.err THEN [err |-> TRUE, tx |-> restored, row |-> row]
        ELSE inserted

-----------------------------------------------------------------------------
\* Commit.

revalidateInsertRowID(x, t, id) == Schema(t).event \/ id \in x.del[t] \/ id \notin DOMAIN tables[t].rows

revalidateInsertAgainstCommitted(x, t, row) ==
    LET s == Schema(t)
    IN  s.event \/
        /\ \A i \in DOMAIN s.indexes :
              s.indexes[i].unique => checkCommittedUnique(x, t, i, row)
        /\ HasPK(s) \/ \A id \in RowsWithHash(tables[t], row) \ x.del[t] : tables[t].rows[id] # row

revalidateInsertAgainstPending(x, t, id) ==
    LET s == Schema(t)
        row == x.ins[t][id]
    IN  \A other \in {o \in DOMAIN x.ins[t] : o < id} :
            /\ \A i \in DOMAIN s.indexes : s.indexes[i].unique =>
                  ExtractKey(row, s.indexes[i].cols) # ExtractKey(x.ins[t][other], s.indexes[i].cols)
            /\ HasPK(s) \/ row # x.ins[t][other]

revalidateCommit(x) ==
    /\ \A t \in TableIDs : x.del[t] \subseteq DOMAIN tables[t].rows
    /\ \A t \in TableIDs : \A id \in DOMAIN x.ins[t] :
          /\ ValidateRow(Schema(t), x.ins[t][id])
          /\ revalidateInsertRowID(x, t, id)
          /\ revalidateInsertAgainstCommitted(x, t, x.ins[t][id])
          /\ revalidateInsertAgainstPending(x, t, id)

SortedIDs(ids) == SetToSortSeq(ids, <)

\* The rows deleted and inserted, in row-ID order, of every table touched.
prepareChangeset(x) ==
    [t \in {u \in TableIDs : x.del[u] # {} \/ x.ins[u] # <<>>} |->
        [del |-> [i \in 1 .. Cardinality(x.del[t]) |-> tables[t].rows[SortedIDs(x.del[t])[i]]],
         ins |-> [i \in 1 .. Cardinality(DOMAIN x.ins[t]) |-> x.ins[t][SortedIDs(DOMAIN x.ins[t])[i]]]]]

\* Deletes, then inserts, then the allocators.  An error stops halfway.
applyCommit(x, t) ==
    LET s == Schema(t)
        deleted == FoldLeft(LAMBDA table, id : DeleteRow(s, table, id), tables[t], SortedIDs(x.del[t]))
        step(acc, id) == IF acc.err THEN acc ELSE InsertRow(s, acc.table, id, x.ins[t][id])
        inserted == FoldLeft(step, [err |-> FALSE, table |-> deleted], SortedIDs(DOMAIN x.ins[t]))
    IN  IF s.event THEN [err |-> FALSE, table |-> deleted]
        ELSE [inserted EXCEPT
                !.table.nextID = IF t \in DOMAIN x.nextIDs THEN x.nextIDs[t] ELSE @,
                !.table.seq = IF t \in DOMAIN x.seqs THEN x.seqs[t] ELSE @]

-----------------------------------------------------------------------------
\* Recovery.

\* restoreSnapshot: rows get fresh IDs, then the allocators are set, unless one
\* would fall behind what the rows need.
nextSequenceValueForTable(s, table) ==
    LET seen == {ValueAsUint64(table.rows[id][s.auto]) : id \in DOMAIN table.rows} \cup {0}
        maxSeen == CHOOSE v \in seen : \A w \in seen : w <= v
    IN  nextAutoIncrementSequenceValue(maxSeen)

\* What ReadSnapshot requires of the file, beyond its bytes.
validateSnapshotAllocatorBounds(image) == image.nextID >= Cardinality(image.rows) + 1
validateSnapshotSequenceBounds(s, image) ==
    s.auto # 0 => \A row \in image.rows :
        ValueAsUint64(row[s.auto]) # NULL => image.seq >= nextAutoIncrementSequenceValue(row[s.auto])
validateSnapshotBootstrapState(s, image) ==
    committedTxID = Len(log) => image.rows = {} /\ image.nextID = 1 /\ (s.auto # 0 => image.seq = 1)

restoreSnapshot(s, image) ==
    LET step(acc, row) ==
            LET put == InsertRow(s, [acc.table EXCEPT !.nextID = @ + 1], acc.table.nextID, row)
            IN  [err |-> acc.err \/ put.err, table |-> put.table]
        filled == FoldLeft(step, [err |-> FALSE, table |-> NewTable(s)], SetToSeq(image.rows))
    IN  [err |-> \/ ~validateSnapshotAllocatorBounds(image) \/ ~validateSnapshotSequenceBounds(s, image)
                 \/ ~validateSnapshotBootstrapState(s, image)
                 \/ filled.err \/ image.nextID < filled.table.nextID
                 \/ s.auto # 0 /\ image.seq < nextSequenceValueForTable(s, filled.table),
         table |-> [filled.table EXCEPT !.nextID = image.nextID, !.seq = image.seq]]

advanceReplaySequenceForInsert(s, table, row) ==
    LET next == nextAutoIncrementSequenceValue(ValueAsUint64(row[s.auto]))
    IN  IF s.auto # 0 /\ ValueAsUint64(row[s.auto]) # NULL /\ table.seq # 0 /\ next > table.seq
        THEN [table EXCEPT !.seq = next] ELSE table

\* Mutant: replay applies the inserts of a table first.
InsertsBeforeDeletes(s, table, change) ==
    LET remove(acc, row) ==
            LET found == {id \in DOMAIN acc.table.rows : acc.table.rows[id] = row}
            IN  IF acc.err \/ found = {} THEN [acc EXCEPT !.err = TRUE]
                ELSE [acc EXCEPT !.table = DeleteRow(s, @, CHOOSE id \in found : TRUE)]
        insert(acc, row) ==
            IF acc.err THEN acc
            ELSE InsertRow(s, [acc.table EXCEPT !.nextID = @ + 1], acc.table.nextID, row)
    IN  FoldLeft(remove, FoldLeft(insert, [err |-> FALSE, table |-> table], change.ins), change.del)

\* By primary key, or by hash, then by value.
findReplayDeleteRowID(s, table, row) ==
    LET pk == CHOOSE i \in DOMAIN s.indexes : s.indexes[i].primary
        ids == IF HasPK(s) THEN Seek(table, pk, ExtractKey(row, s.indexes[pk].cols)) ELSE RowsWithHash(table, row)
    IN  {id \in ids : table.rows[id] = row}

\* Deletes find their row by value; inserts get fresh IDs.
applyChangesetToTable(s, table, change) ==
    LET remove(acc, row) ==
            LET found == findReplayDeleteRowID(s, acc.table, row)
            IN  IF acc.err \/ found = {} THEN [acc EXCEPT !.err = TRUE]
                ELSE [acc EXCEPT !.table = DeleteRow(s, @, CHOOSE id \in found : TRUE)]
        insert(acc, row) ==
            LET moved == advanceReplaySequenceForInsert(s, acc.table, row)
                put == InsertRow(s, [moved EXCEPT !.nextID = @ + 1], moved.nextID, row)
            IN  IF acc.err \/ ~ValidateRow(s, row) \/ ~checkRowIDValueAvailable(acc.table.nextID)
                THEN [acc EXCEPT !.err = TRUE] ELSE put
    IN  FoldLeft(insert, FoldLeft(remove, [err |-> FALSE, table |-> table], change.del), change.ins)

\* Replay cannot move a sequence that the rows have already passed backwards.
advanceRecoveredSequences(s, acc) ==
    LET minNext == nextSequenceValueForTable(s, acc.table)
    IN  IF s.auto # 0 /\ minNext > acc.table.seq THEN [acc EXCEPT !.table.seq = minNext] ELSE acc

\* RecoveryBatch: changesets are staged on copies, and published together.
Recovered(t) ==
    LET s == Schema(t)
        step(acc, changes) ==
            IF acc.err \/ s.event \/ t \notin DOMAIN changes THEN acc
            ELSE applyChangesetToTable(s, acc.table, changes[t])
        replayed == FoldLeft(step, restoreSnapshot(s, export[t]), log)
    IN  IF s.event THEN [err |-> FALSE, table |-> NewTable(s)] ELSE advanceRecoveredSequences(s, replayed)

captureCommittedSnapshotBody(table) == [rows |-> RowSet(table.rows), nextID |-> table.nextID, seq |-> table.seq]

-----------------------------------------------------------------------------
\* The store as a state machine.

Open == tx.state \in {"active", "sealed"}

Init ==
    /\ scenario \in Scenarios
    /\ tables = [t \in TableIDs |-> NewTable(Schema(t))]
    /\ committedTxID = 0
    /\ tx = NoTransaction
    /\ wanted = [t \in TableIDs |-> {}]
    /\ locking = FALSE
    /\ rlocks = 0
    /\ readers = [r \in scenario.readers |-> NoSnapshot]
    /\ export = [t \in TableIDs |-> captureCommittedSnapshotBody(tables[t])]
    /\ log = <<>>

Begin ==
    /\ ~Open
    /\ committedTxID < scenario.txs
    /\ tx' = NewTransaction
    /\ wanted' = [t \in TableIDs |-> RowSet(tables[t].rows)]
    /\ UNCHANGED <<scenario, tables, committedTxID, locking, rlocks, readers, export, log>>

\* A call of the reducer: `res` is what the store returned, `gone` the row it
\* takes away when it succeeds.
Called(t, res, gone, kept) ==
    /\ tx' = res.tx
    /\ wanted' = IF res.err THEN wanted ELSE [wanted EXCEPT ![t] = (@ \ gone) \cup kept]
    /\ UNCHANGED <<scenario, tables, committedTxID, locking, rlocks, readers, export, log>>

TxInsert(t, row) ==
    /\ tx.state = "active" /\ ~locking
    /\ LET res == Insert(tx, t, row) IN Called(t, res, {}, {res.row})

TxDelete(t, id) ==
    /\ tx.state = "active" /\ ~locking
    /\ Called(t, Delete(tx, t, id), IF id \in ScanTable(tx, t) THEN {GetRow(tx, t, id)} ELSE {}, {})

TxUpdate(t, id, row) ==
    /\ tx.state = "active" /\ ~locking
    /\ LET res == Update(tx, t, id, row)
       IN  Called(t, res, IF id \in ScanTable(tx, t) THEN {GetRow(tx, t, id)} ELSE {}, {res.row})

Seal ==
    /\ tx.state = "active" /\ ~locking
    /\ tx' = [tx EXCEPT !.state = "sealed"]
    /\ UNCHANGED <<scenario, tables, committedTxID, wanted, locking, rlocks, readers, export, log>>

Rollback ==
    /\ Open /\ ~locking
    /\ tx' = [NoTransaction EXCEPT !.state = "rolledback"]
    /\ wanted' = [t \in TableIDs |-> {}]
    /\ UNCHANGED <<scenario, tables, committedTxID, locking, rlocks, readers, export, log>>

\* commitWithValidation up to the write lock: from here new readers wait.
CommitLock ==
    /\ Open /\ ~locking
    /\ locking' = TRUE
    /\ UNCHANGED <<scenario, tables, committedTxID, tx, wanted, rlocks, readers, export, log>>

\* Under the lock: revalidate, prepare the changeset, ask the validator, apply.
Commit(accepted) ==
    /\ locking /\ rlocks = 0
    /\ locking' = FALSE
    /\ IF ~revalidateCommit(tx) \/ ~accepted
       THEN UNCHANGED <<tables, committedTxID, tx, wanted, log>>
       ELSE LET applied == [t \in TableIDs |-> applyCommit(tx, t)]
                failed == \E t \in TableIDs : applied[t].err
            IN  /\ tables' = [t \in TableIDs |-> applied[t].table]
                /\ IF failed THEN UNCHANGED <<committedTxID, tx, wanted, log>>
                   ELSE /\ log' = Append(log, prepareChangeset(tx))
                        /\ committedTxID' = committedTxID + 1
                        /\ tx' = NoTransaction
                        /\ wanted' = [t \in TableIDs |-> {}]
    /\ UNCHANGED <<scenario, rlocks, readers, export>>

-----------------------------------------------------------------------------
\* Snapshots.  A waiting writer keeps new readers out; the last active read, or
\* Close when there is none, gives the read lock back.

ReadSteps == <<scenario, tables, committedTxID, tx, wanted, locking, export, log>>

Snapshot(r) ==
    /\ readers[r].state = "none" /\ ~locking
    /\ rlocks' = rlocks + 1
    /\ readers' = [readers EXCEPT ![r] = [NoSnapshot EXCEPT !.state = "open", !.at = committedTxID]]
    /\ UNCHANGED ReadSteps

beginRead(r) ==
    /\ readers[r].state = "open" /\ readers[r].active < MaxReads
    /\ readers' = [readers EXCEPT ![r].active = @ + 1]
    /\ UNCHANGED rlocks
    /\ UNCHANGED ReadSteps

\* Mutant: closing a snapshot gives the lock back though an iterator still
\* reads.
ReleaseOnClose(s) == IF s.state = "closed" THEN [s EXCEPT !.released = TRUE] ELSE s

\* The lock goes back when `s` is closed and nothing reads: s's next state.
releaseIfIdle(s) == IF s.state = "closed" /\ s.active = 0 /\ ~s.released THEN [s EXCEPT !.released = TRUE] ELSE s

Released(r, s) ==
    /\ readers' = [readers EXCEPT ![r] = s]
    /\ rlocks' = IF s.released /\ ~readers[r].released THEN rlocks - 1 ELSE rlocks
    /\ UNCHANGED ReadSteps

endRead(r) ==
    /\ readers[r].active > 0
    /\ Released(r, releaseIfIdle([readers[r] EXCEPT !.active = @ - 1]))

\* Close, or the finalizer of a snapshot that leaked; a second Close does nothing.
close(r) ==
    /\ readers[r].state = "open"
    /\ Released(r, releaseIfIdle([readers[r] EXCEPT !.state = "closed"]))

Forget(r) ==
    /\ readers[r].state = "closed" /\ readers[r].active = 0
    /\ readers' = [readers EXCEPT ![r] = NoSnapshot]
    /\ UNCHANGED rlocks
    /\ UNCHANGED ReadSteps

-----------------------------------------------------------------------------
\* The snapshot writer exports the tables between transactions; a restart loses
\* everything else and recovers.

Export ==
    /\ ~Open /\ log # <<>>
    /\ export' = [t \in TableIDs |-> captureCommittedSnapshotBody(tables[t])]
    /\ log' = <<>>
    /\ UNCHANGED <<scenario, tables, committedTxID, tx, wanted, locking, rlocks, readers>>

Restart ==
    /\ \A t \in TableIDs : ~Recovered(t).err
    /\ tables' = [t \in TableIDs |-> Recovered(t).table]
    /\ tx' = NoTransaction
    /\ wanted' = [t \in TableIDs |-> {}]
    /\ locking' = FALSE
    /\ rlocks' = 0
    /\ readers' = [r \in scenario.readers |-> NoSnapshot]
    /\ UNCHANGED <<scenario, committedTxID, export, log>>

Next ==
    \/ Begin \/ Seal \/ Rollback \/ CommitLock
    \/ \E accepted \in BOOLEAN : Commit(accepted)
    \/ \E t \in TableIDs : \E row \in scenario.rows[t] : TxInsert(t, row)
    \/ \E t \in TableIDs : \E id \in 1 .. MaxUint64 - 1 : TxDelete(t, id)
    \/ \E t \in TableIDs : \E id \in 1 .. MaxUint64 - 1, row \in scenario.rows[t] : TxUpdate(t, id, row)
    \/ \E r \in scenario.readers : Snapshot(r) \/ beginRead(r) \/ endRead(r) \/ close(r) \/ Forget(r)
    \/ Export \/ Restart

Spec == Init /\ [][Next]_vars

-----------------------------------------------------------------------------
\* Properties.

\* Every index of a table, its row-hash index and the transaction's lazily built
\* unique and duplicate indexes hold exactly the rows they should: inserts,
\* deletes, failed updates and undeletes leave no entry behind and miss none.
IndexesMatchRows ==
    \A t \in TableIDs :
        LET s == Schema(t)
            rows == tables[t].rows
            key(row, i) == ExtractKey(row, s.indexes[i].cols)
            pending == tx.ins[t]
        IN  /\ \A i \in DOMAIN s.indexes : tables[t].indexes[i] = {<<key(rows[id], i), id>> : id \in DOMAIN rows}
            /\ tables[t].hashes = IF HasPK(s) THEN {} ELSE {<<Hash64(rows[id]), id>> : id \in DOMAIN rows}
            /\ \A id \in DOMAIN rows : id < tables[t].nextID
            /\ \A i \in DOMAIN s.indexes : <<t, i>> \in DOMAIN tx.unique =>
                  tx.unique[<<t, i>>] = {<<id, key(pending[id], i)>> : id \in DOMAIN pending}
            /\ t \in DOMAIN tx.rowIndex => tx.rowIndex[t] = {<<id, pending[id]>> : id \in DOMAIN pending}

\* An open transaction reads what its successful calls left and nothing of its
\* failed ones: a scan yields each such row once, and an index lookup finds the
\* same rows the scan does.
TxReadsItsWrites ==
    Open => \A t \in TableIDs :
        LET seen == ScanTable(tx, t)
        IN  /\ {GetRow(tx, t, id) : id \in seen} = wanted[t]
            /\ Cardinality(seen) = Cardinality(wanted[t])
            /\ \A i \in DOMAIN Schema(t).indexes : \A row \in scenario.rows[t] :
                  LET key == ExtractKey(row, Schema(t).indexes[i].cols)
                  IN  SeekIndex(tx, t, i, key) = {id \in seen : ExtractKey(GetRow(tx, t, id), Schema(t).indexes[i].cols) = key}

\* With one writer, what every call accepted commits: revalidation under the
\* write lock never rejects it, and applyCommit, which would stop halfway and
\* leave the tables torn, meets no conflict.  Constraints hold for the rows the
\* transaction would leave, and the next value of the sequence is one that none
\* of them has, after explicit values, undeletes, rollbacks and recovery.
AcceptedWorkCommits ==
    \A t \in TableIDs :
        LET auto == Schema(t).auto
            rows == IF Open THEN wanted[t] ELSE RowSet(tables[t].rows)
        IN  /\ Open => revalidateCommit(tx) /\ ~applyCommit(tx, t).err
            /\ \A i \in DOMAIN Schema(t).indexes :
                  LET cols == Schema(t).indexes[i].cols
                  IN  Schema(t).indexes[i].unique =>
                        \A a, b \in rows : ExtractKey(a, cols) = ExtractKey(b, cols) => a = b
            /\ auto # 0 /\ nextSequenceValue(tx, t) # MaxUint64 =>
                  \A row \in rows : row[auto] < nextSequenceValue(tx, t)

\* At any moment a restart succeeds and finds the committed rows: the exported
\* tables and the changesets after them rebuild every table, with its indexes, a
\* row-ID allocator past every row and a sequence past every value.
RecoveryRestores ==
    \A t \in TableIDs :
        LET r == Recovered(t)
            s == Schema(t)
        IN  /\ ~r.err
            /\ RowSet(r.table.rows) = RowSet(tables[t].rows)
            /\ \A id \in DOMAIN r.table.rows :
                  /\ id < r.table.nextID
                  /\ s.auto # 0 => \/ r.table.rows[id][s.auto] < r.table.seq
                                   \/ r.table.seq = MaxUint64
            /\ \A i \in DOMAIN s.indexes :
                  r.table.indexes[i] = {<<ExtractKey(r.table.rows[id], s.indexes[i].cols), id>> : id \in DOMAIN r.table.rows}

\* A snapshot that is open, or that still has a read in progress after Close,
\* sees the state it was taken of: nothing commits meanwhile, and each snapshot
\* gives its read lock back exactly once.
SnapshotIsPointInTime ==
    /\ \A r \in scenario.readers :
          readers[r].state = "open" \/ readers[r].active > 0 => readers[r].at = committedTxID
    /\ rlocks = Cardinality({r \in scenario.readers : readers[r].state # "none" /\ ~readers[r].released})

\* Committed rows change only by a commit, to what the transaction should have
\* left; its changeset is the net effect, with no row both deleted and inserted;
\* and the rows of an event table reach the changeset but never the table.
CommitIsNetEffect ==
    [][\A t \in TableIDs :
          LET before == RowSet(tables[t].rows)
              after == RowSet(tables'[t].rows)
              change == IF t \in DOMAIN Last(log') THEN Last(log')[t] ELSE [del |-> <<>>, ins |-> <<>>]
          IN  IF committedTxID' = committedTxID THEN after = before
              ELSE /\ after = IF Schema(t).event THEN {} ELSE wanted[t]
                   /\ ToSet(change.del) = before \ wanted[t]
                   /\ ToSet(change.ins) = wanted[t] \ before]_vars
=============================================================================
