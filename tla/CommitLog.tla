------------------------------ MODULE CommitLog ------------------------------
(***************************************************************************)
(* The data directory across process lifetimes: segment files, snapshot    *)
(* directories, what a crash leaves of them, what Build recovers and where *)
(* Start resumes the log.  Sources: commitlog/{segment,segment_scan,       *)
(* recovery,replay,compaction,snapshot_io,snapshot_select,durability}.go,  *)
(* build.go, storage.go.                                                   *)
(*                                                                         *)
(* A committed changeset is the incarnation (epoch) that committed it, so  *)
(* that two transactions with one ID from different lifetimes are told     *)
(* apart; a state is the sequence of changesets that built it.             *)
(*                                                                         *)
(* File system: a write is in the page cache until the file is fsynced; a  *)
(* process crash keeps the page cache, a power loss keeps an arbitrary     *)
(* prefix of what was not fsynced.  Directory operations persist in the    *)
(* order in which they were made.                                          *)
(***************************************************************************)
EXTENDS Integers, Sequences, FiniteSetsExt, SequencesExt

CONSTANTS
    MaxTxID,         \* bound on transaction IDs
    MaxEpoch,        \* bound on the number of Builds
    MaxSegmentRecs,  \* records that make a segment reach MaxSegmentSize
    Faults,          \* what may go wrong: a subset of FaultKinds
    Resnapshot       \* may the application snapshot an ID that it already
                     \* has a complete snapshot of?

ASSUME BoundsAssumption == MaxTxID \in Nat /\ MaxEpoch \in Nat \ {0}
ASSUME SegmentRecsAssumption == MaxSegmentRecs \in Nat \ {0}
FaultKinds == {"process", "power", "io"}
ASSUME FaultsAssumption == Faults \subseteq FaultKinds
ASSUME ResnapshotAssumption == Resnapshot \in BOOLEAN

VARIABLES
    phase,     \* "down", "bootstrap", "built", "starting", "ready"
    epoch,     \* number of Builds that have recovered a state
    hist,      \* the in-memory state; while down, the state that was lost
    acked,     \* the longest state confirmed durable to a caller
    segs,      \* start ID -> segment file
    unlinked,  \* segments removed from the log directory, not yet dir-synced
    snaps,     \* tx ID -> snapshot directory
    plan,      \* RecoveryResumePlan of the last Build
    cur,       \* start ID of the segment the worker has open, 0: none
    durable,   \* the worker's durable ID
    op         \* the snapshot or compaction that holds closeMu

diskVars == <<segs, unlinked, snaps>>
procVars == <<phase, epoch, hist, plan, cur, durable>>
vars == <<procVars, diskVars, acked, op>>

TxIDs == 1 .. MaxTxID
States == UNION {[1 .. n -> 1 .. MaxEpoch] : n \in 0 .. MaxTxID}

NoOp == [kind |-> "none"]
NoPlan == [mode |-> "none", start |-> 0, next |-> 0]

\* A file that has just been created (hdr = FALSE: no byte of it is there).
NewFile == [hdr |-> FALSE, recs |-> <<>>, torn |-> FALSE, synced |-> 0]

LastTx(s) == s + Len(segs[s].recs) - 1
Put(f, k, v) == [x \in DOMAIN f \cup {k} |-> IF x = k THEN v ELSE f[x]]
Drop(f, k) == [x \in DOMAIN f \ {k} |-> f[x]]

\* What a power loss could undo is remembered only where one is considered.
Undo(alts) == IF "power" \in Faults THEN alts ELSE {}
Unlinked(s) == IF "power" \in Faults THEN Append(unlinked, <<s, segs[s]>>)
                                         ELSE <<>>

Init ==
    /\ phase = "down" /\ epoch = 0
    /\ hist = <<>> /\ acked = <<>>
    /\ segs = <<>> /\ unlinked = <<>> /\ snaps = <<>>
    /\ plan = NoPlan /\ cur = 0 /\ durable = 0
    /\ op = NoOp

-----------------------------------------------------------------------------
(* Recovery, as a function of the files. *)

lastStart == Max(DOMAIN segs)

\* scanOneSegment: can the file be scanned, and how may it be appended to.
\* A file whose header was never written is tolerated as the last one only.
scanOk(s) ==
    IF segs[s].hdr
      THEN segs[s].torn => (segs[s].recs # <<>> \/ s = lastStart)
      ELSE s = lastStart
appendMode(s) ==
    CASE ~segs[s].hdr \/ segs[s].torn -> "fresh"
      [] OTHER -> IF s = lastStart THEN "inplace" ELSE "forbidden"

isEmptyDamagedTail(s) == appendMode(s) = "fresh" /\ LastTx(s) < s

validateSegmentContinuity ==
    \A s \in DOMAIN segs \ {Min(DOMAIN segs)} :
        s = LastTx(Max({p \in DOMAIN segs : p < s})) + 1

ScanSegments ==
    /\ \A s \in DOMAIN segs : scanOk(s)
    /\ DOMAIN segs # {} => validateSegmentContinuity

\* selectSnapshotWithReport over the directories sn: complete, readable and
\* not past the end of the log.  ListSnapshots hides a locked directory.
usableSnapshots(sn) ==
    {t \in DOMAIN sn : ~sn[t].lock /\ sn[t].final
                       /\ (DOMAIN segs # {} => t <= LastTx(lastStart))}

\* The first segment that ends after the snapshot must start at or before
\* the transaction that follows it.
validateSnapshotLogBoundary(t) ==
    LET later == {s \in DOMAIN segs : LastTx(s) > t}
    IN  later # {} => Min(later) <= t + 1

\* OpenAndRecoverWithRegistryReport, its error or the state it replays.
RecoverError(sn) ==
    CASE ~ScanSegments -> "log"
      [] usableSnapshots(sn) # {} ->
           IF validateSnapshotLogBoundary(Max(usableSnapshots(sn)))
             THEN "none" ELSE "gap"
      [] DOMAIN segs = {} -> "nodata"
      [] OTHER ->
           IF Min(DOMAIN segs) > 1 \/ isEmptyDamagedTail(Min(DOMAIN segs))
             THEN "nobase" ELSE "none"

baseSnapshot(sn) ==
    IF usableSnapshots(sn) = {} THEN <<>>
                                ELSE sn[Max(usableSnapshots(sn))].data

ReplayLog(sn) ==
    LET base == baseSnapshot(sn)
        end  == IF DOMAIN segs = {} THEN 0 ELSE LastTx(lastStart)
        seg(i) == Max({s \in DOMAIN segs : s <= i})
    IN  [i \in 1 .. Max({end, Len(base)}) |->
           IF i <= Len(base) THEN base[i]
                             ELSE segs[seg(i)].recs[i - seg(i) + 1]]

\* Mutant: the append mode of the last segment is not looked at.
planResumeInPlace(n) ==
    IF DOMAIN segs # {}
      THEN [mode |-> "inplace", start |-> lastStart, next |-> n + 1]
      ELSE [mode |-> "fresh", start |-> n + 1, next |-> n + 1]

planRecoveryResume(n) ==
    IF DOMAIN segs # {} /\ appendMode(lastStart) = "inplace"
      THEN [mode |-> "inplace", start |-> lastStart, next |-> n + 1]
      ELSE [mode |-> "fresh", start |-> n + 1, next |-> n + 1]

-----------------------------------------------------------------------------
(* Build, Start and Close. *)

Publishing(tx, data) == [kind |-> "snap", tx |-> tx, data |-> data, step |-> "lock"]

\* Build: openOrBootstrapState recovers what is there.  The runtime's
\* durableTxID starts at the recovered ID, which confirms it to any waiter.
Build ==
    /\ phase = "down" /\ epoch < MaxEpoch
    /\ RecoverError(snaps) = "none"
    /\ hist' = ReplayLog(snaps)
    /\ acked' = hist'
    /\ plan' = planRecoveryResume(Len(hist'))
    /\ phase' = "built"
    /\ epoch' = epoch + 1
    /\ UNCHANGED <<diskVars, cur, durable, op>>

\* ErrNoData: an initial snapshot of the empty state is published first.
Bootstrap ==
    /\ phase = "down" /\ epoch < MaxEpoch
    /\ RecoverError(snaps) = "nodata"
    /\ phase' = "bootstrap"
    /\ op' = Publishing(0, <<>>)
    /\ UNCHANGED <<epoch, hist, plan, cur, durable, diskVars, acked>>

\* openSegmentForAppendInPlaceResumePlan: the log directory is fsynced, the
\* segment is not, and an empty segment reports 0 as its durable ID.
inPlacePlanValid ==
    /\ plan.start \in DOMAIN segs
    /\ segs[plan.start].hdr /\ ~segs[plan.start].torn
    /\ plan.next = LastTx(plan.start) + 1

StartInPlace ==
    /\ phase = "built" /\ plan.mode = "inplace"
    /\ inPlacePlanValid
    /\ cur' = plan.start
    /\ durable' = IF segs[plan.start].recs = <<>> THEN 0 ELSE LastTx(plan.start)
    /\ unlinked' = <<>>
    /\ phase' = "ready"
    /\ UNCHANGED <<epoch, hist, plan, segs, snaps, acked, op>>

\* openSegmentForResumePlan with a fresh segment: an artifact of the same
\* name is removed when no record can be read from it.
freshArtifactRemovable ==
    plan.start \in DOMAIN segs =>
        /\ ~segs[plan.start].hdr \/ segs[plan.start].recs = <<>>
        /\ plan.start = lastStart

StartFresh ==
    /\ phase = "built" /\ plan.mode = "fresh"
    /\ freshArtifactRemovable
    /\ IF plan.start \in DOMAIN segs
         THEN /\ segs' = Drop(segs, plan.start)
              /\ unlinked' = Unlinked(plan.start)
         ELSE UNCHANGED <<segs, unlinked>>
    /\ phase' = "starting"
    /\ UNCHANGED <<epoch, hist, plan, cur, durable, snaps, acked, op>>

\* Close drains the worker, then the final durable ID is the runtime's.
\* closeMu keeps it out while a snapshot or a compaction runs.
Close ==
    /\ phase \in {"built", "ready"} /\ op = NoOp
    /\ phase = "ready" => /\ segs[cur].hdr
                          /\ LastTx(cur) = Len(hist)
                          /\ segs[cur].recs # <<>> => durable = Len(hist)
    /\ segs' = IF phase = "built" THEN segs
               ELSE [segs EXCEPT ![cur].synced = Len(segs[cur].recs)]
    /\ acked' = hist
    /\ phase' = "down" /\ plan' = NoPlan /\ cur' = 0 /\ durable' = 0
    /\ UNCHANGED <<epoch, hist, unlinked, snaps, op>>

-----------------------------------------------------------------------------
(* The running process: the executor commits, the worker writes. *)

\* The executor is blocked while a snapshot waits for its horizon.
Commit ==
    /\ phase = "ready" /\ op.kind # "wait"
    /\ Len(hist) < MaxTxID
    /\ hist' = Append(hist, epoch)
    /\ UNCHANGED <<phase, epoch, plan, cur, durable, diskVars, acked, op>>

\* The record reaches the page cache: bufio spills or Sync flushes it.
WriteRecord ==
    /\ phase = "ready" /\ segs[cur].hdr
    /\ LastTx(cur) < Len(hist)
    /\ segs' = [segs EXCEPT ![cur].recs = Append(@, hist[LastTx(cur) + 1])]
    /\ UNCHANGED <<procVars, unlinked, snaps, acked, op>>

\* Mutant: everything committed is confirmed, not only what was fsynced.
SyncConfirmsAll ==
    /\ phase = "ready"
    /\ segs[cur].recs # <<>> /\ durable # LastTx(cur)
    /\ segs' = [segs EXCEPT ![cur].synced = Len(segs[cur].recs)]
    /\ durable' = LastTx(cur)
    /\ acked' = hist
    /\ UNCHANGED <<phase, epoch, hist, plan, cur, unlinked, snaps, op>>

\* Mutant: the ID is published without the fsync.
SyncWithoutFsync ==
    /\ phase = "ready"
    /\ segs[cur].recs # <<>> /\ durable # LastTx(cur)
    /\ durable' = LastTx(cur)
    /\ acked' = SubSeq(hist, 1, LastTx(cur))
    /\ UNCHANGED <<phase, epoch, hist, plan, cur, diskVars, op>>

\* syncBatchTail: fsync, publish the ID, release the waiters.
SyncSegment ==
    /\ phase = "ready"
    /\ segs[cur].recs # <<>> /\ durable # LastTx(cur)
    /\ segs' = [segs EXCEPT ![cur].synced = Len(segs[cur].recs)]
    /\ durable' = LastTx(cur)
    /\ acked' = SubSeq(hist, 1, LastTx(cur))
    /\ UNCHANGED <<phase, epoch, hist, plan, cur, unlinked, snaps, op>>

\* CreateSegment up to the O_EXCL open, called by Start or at the end of a
\* batch that filled the segment.  With FsyncPerTx a batch may go on after a
\* sync, so a full segment may also be written to.
CreateSegment(start) ==
    /\ \/ phase = "starting" /\ cur = 0 /\ start = plan.start
       \/ /\ phase = "ready"
          /\ Len(segs[cur].recs) >= MaxSegmentRecs
          /\ LastTx(cur) >= plan.next /\ durable = LastTx(cur)
          /\ start = LastTx(cur) + 1
    /\ start \notin DOMAIN segs
    /\ segs' = Put(segs, start, NewFile)
    /\ cur' = start
    /\ UNCHANGED <<phase, epoch, hist, plan, durable, unlinked, snaps, acked, op>>

\* The header is written, the file and the log directory are fsynced.
FinishSegment ==
    /\ cur # 0 /\ ~segs[cur].hdr
    /\ segs' = [segs EXCEPT ![cur].hdr = TRUE]
    /\ unlinked' = <<>>
    /\ IF phase = "starting" THEN phase' = "ready" /\ durable' = plan.next - 1
                             ELSE UNCHANGED <<phase, durable>>
    /\ UNCHANGED <<epoch, hist, plan, cur, snaps, acked, op>>

-----------------------------------------------------------------------------
(* Runtime.CreateSnapshot and createSnapshotFromBody.  alts holds what the  *)
(* directory may read after a power loss: entries not yet fsynced.          *)

NoDir == [lock |-> FALSE, final |-> FALSE, data |-> <<>>, alts |-> {}]
snapDir(t) == IF t \in DOMAIN snaps THEN snaps[t] ELSE NoDir
Entries(d) == [lock |-> d.lock, final |-> d.final, data |-> d.data]

SnapshotStep(from) == op.kind = "snap" /\ op.step = from

\* On a running runtime the executor first waits for its own commit ID.
CreateSnapshot ==
    /\ op = NoOp
    /\ Resnapshot \/ ~snapDir(Len(hist)).final
    /\ \/ phase = "built" /\ op' = Publishing(Len(hist), hist)
       \/ phase = "ready" /\ op' = [kind |-> "wait", tx |-> Len(hist)]
    /\ UNCHANGED <<procVars, diskVars, acked>>

\* Mutant: the wait for the horizon is skipped.
CaptureUnsynced ==
    /\ op.kind = "wait"
    /\ op' = Publishing(op.tx, hist)
    /\ UNCHANGED <<procVars, diskVars, acked>>

\* Mutant: the wait compares with the wrong operator.
CaptureStrict ==
    /\ op.kind = "wait"
    /\ op.tx # 0 => durable > op.tx
    /\ op' = Publishing(op.tx, hist)
    /\ UNCHANGED <<procVars, diskVars, acked>>

\* handleCreateSnapshot: WaitUntilDurable(txID) answered, capture the state.
CaptureSnapshot ==
    /\ op.kind = "wait"
    /\ op.tx # 0 => durable >= op.tx
    /\ op' = Publishing(op.tx, hist)
    /\ UNCHANGED <<procVars, diskVars, acked>>

EndSnapshot ==
    /\ op' = NoOp
    /\ phase' = IF phase = "bootstrap" THEN "down" ELSE phase
    /\ UNCHANGED <<epoch, hist, plan, cur, durable, segs, unlinked, acked>>

\* mkdir, then the lock; a lock that is already there is an error.
SnapshotLock ==
    /\ SnapshotStep("lock")
    /\ IF snapDir(op.tx).lock
         THEN UNCHANGED snaps /\ EndSnapshot
         ELSE /\ snaps' = Put(snaps, op.tx,
                            [snapDir(op.tx) EXCEPT !.lock = TRUE,
                               !.alts = Undo(@ \cup {Entries(snapDir(op.tx))})])
              /\ op' = [op EXCEPT !.step = "locked"]
              /\ UNCHANGED <<procVars, segs, unlinked, acked>>

\* The temporary file is complete and fsynced: rename it over the snapshot.
SnapshotRename ==
    /\ SnapshotStep("locked")
    /\ snaps' = [snaps EXCEPT ![op.tx].final = TRUE, ![op.tx].data = op.data,
                              ![op.tx].alts = Undo(@ \cup {Entries(snaps[op.tx])})]
    /\ op' = [op EXCEPT !.step = "renamed"]
    /\ UNCHANGED <<procVars, segs, unlinked, acked>>

\* The directory is fsynced, then the lock is removed.
SnapshotUnlock ==
    /\ SnapshotStep("renamed")
    /\ snaps' = [snaps EXCEPT ![op.tx].lock = FALSE,
                              ![op.tx].alts = Undo({Entries(snaps[op.tx])})]
    /\ op' = [op EXCEPT !.step = "unlocked"]
    /\ UNCHANGED <<procVars, segs, unlinked, acked>>

SnapshotDone ==
    /\ SnapshotStep("unlocked")
    /\ snaps' = [snaps EXCEPT ![op.tx].alts = {}]
    /\ EndSnapshot

\* An I/O error.  Before the rename the lock is removed again; from the
\* rename on, whether it took effect or not, the lock stays.
SnapshotFails ==
    /\ "io" \in Faults
    /\ op.kind = "snap" /\ op.step # "lock"
    /\ \/ /\ op.step = "locked"
          /\ snaps' = [snaps EXCEPT ![op.tx].lock = FALSE]
       \/ UNCHANGED snaps
    /\ EndSnapshot

\* RepairSnapshot and DiscardIncompleteSnapshot, run by an operator on a
\* stopped runtime. Repair keeps a snapshot that verifies; discard takes away
\* whatever data the locked directory holds, a complete snapshot too.
RepairSnapshot(t) ==
    /\ phase = "down"
    /\ t \in DOMAIN snaps /\ snaps[t].lock /\ snaps[t].final
    /\ snaps' = [snaps EXCEPT ![t].lock = FALSE, ![t].alts = {}]
    /\ UNCHANGED <<procVars, segs, unlinked, acked, op>>

DiscardIncompleteSnapshot(t) ==
    /\ phase = "down"
    /\ t \in DOMAIN snaps /\ snaps[t].lock
    /\ snaps' = [snaps EXCEPT ![t] = NoDir]
    /\ UNCHANGED <<procVars, segs, unlinked, acked, op>>

-----------------------------------------------------------------------------
(* Runtime.CompactCommitLog: validate the snapshot, scan, then delete the   *)
(* covered segments one by one while the worker goes on.                    *)

\* Mutant: a segment that ends one past the snapshot is taken for covered.
compactablePast(t) ==
    {s \in DOMAIN segs : s # lastStart /\ t # 0 /\ LastTx(s) <= t + 1}

compactable(t) ==
    {s \in DOMAIN segs : s # lastStart /\ t # 0 /\ LastTx(s) <= t}

\* Nothing to delete, but an earlier attempt may have failed before its sync.
compactionNoopNeedsSync(t) ==
    t # 0 /\ (DOMAIN segs = {} \/ Min(DOMAIN segs) > 1)

CompactCommitLog(t) ==
    /\ phase \in {"built", "ready"} /\ op = NoOp
    /\ t \in DOMAIN snaps /\ ~snaps[t].lock /\ snaps[t].final
    /\ ScanSegments
    /\ DOMAIN segs # {} => t <= LastTx(lastStart)
    /\ op' = [kind |-> "compact", todo |-> compactable(t),
              sync |-> compactable(t) # {} \/ compactionNoopNeedsSync(t)]
    /\ UNCHANGED <<procVars, diskVars, acked>>

CompactRemove ==
    /\ op.kind = "compact" /\ op.todo # {}
    /\ LET s == Min(op.todo)
       IN  /\ segs' = Drop(segs, s)
           /\ unlinked' = Unlinked(s)
           /\ op' = [op EXCEPT !.todo = @ \ {s}]
    /\ UNCHANGED <<procVars, snaps, acked>>

CompactFinish ==
    /\ op.kind = "compact" /\ op.todo = {}
    /\ unlinked' = IF op.sync THEN <<>> ELSE unlinked
    /\ op' = NoOp
    /\ UNCHANGED <<procVars, segs, snaps, acked>>

CompactFails ==
    /\ "io" \in Faults
    /\ op.kind = "compact"
    /\ op' = NoOp
    /\ UNCHANGED <<procVars, diskVars, acked>>

-----------------------------------------------------------------------------
(* Crashes. *)

Stopped ==
    /\ phase' = "down" /\ plan' = NoPlan /\ cur' = 0 /\ durable' = 0
    /\ op' = NoOp
    /\ UNCHANGED <<epoch, hist, acked>>

\* A record was on its way to the file: part of it may be there.
partialWrite(s) ==
    phase = "ready" /\ s = cur /\ segs[s].hdr /\ LastTx(s) < Len(hist)

\* The process dies; a failed durability worker leaves the same files.
ProcessCrash ==
    /\ "process" \in Faults /\ phase # "down"
    /\ \/ UNCHANGED segs
       \/ /\ cur # 0 /\ partialWrite(cur)
          /\ segs' = [segs EXCEPT ![cur].torn = TRUE]
    /\ UNCHANGED <<unlinked, snaps>>
    /\ Stopped

\* What may be left of a segment after the machine loses power.
afterPowerLoss(s) ==
    LET f == segs[s]
    IN  IF ~f.hdr THEN {f, [f EXCEPT !.hdr = TRUE]}
        ELSE {[hdr |-> TRUE, recs |-> SubSeq(f.recs, 1, k), torn |-> b,
               synced |-> k] :
                 k \in f.synced .. Len(f.recs), b \in BOOLEAN}
             \ (IF f.torn \/ f.synced < Len(f.recs) \/ partialWrite(s) THEN {}
                ELSE {[hdr |-> TRUE, recs |-> f.recs, torn |-> TRUE,
                       synced |-> Len(f.recs)]})

UndoableSnaps == {t \in DOMAIN snaps : snaps[t].alts # {}}
PowerLossDirs(t) ==
    {[NoDir EXCEPT !.lock = e.lock, !.final = e.final, !.data = e.data] :
        e \in snaps[t].alts \cup {Entries(snaps[t])}}

PowerLoss ==
    /\ "power" \in Faults
    /\ \E n \in 0 .. Len(unlinked) :
         LET back == {unlinked[i] : i \in n + 1 .. Len(unlinked)}
             old  == {p[1] : p \in back}
             new  == {s \in DOMAIN segs : ~segs[s].hdr}
         IN \E gone \in IF back # {} THEN {new} ELSE SUBSET new :
              LET kept == DOMAIN segs \ gone
                  soft == {s \in kept : afterPowerLoss(s) # {segs[s]}}
              IN \E g \in [soft -> UNION {afterPowerLoss(s) : s \in soft}] :
                   /\ \A s \in soft : g[s] \in afterPowerLoss(s)
                   /\ segs' = [s \in kept \cup old |->
                                 IF s \in soft THEN g[s]
                                 ELSE IF s \in kept THEN segs[s]
                                 ELSE (CHOOSE p \in back : p[1] = s)[2]]
    /\ unlinked' = <<>>
    /\ \E h \in [UndoableSnaps -> UNION {PowerLossDirs(t) : t \in UndoableSnaps}] :
         /\ \A t \in UndoableSnaps : h[t] \in PowerLossDirs(t)
         /\ snaps' = [t \in DOMAIN snaps |->
                        IF t \in UndoableSnaps THEN h[t] ELSE snaps[t]]
    /\ Stopped

-----------------------------------------------------------------------------
Lifecycle == Build \/ Bootstrap \/ StartInPlace \/ StartFresh \/ Close

WorkerStep ==
    \/ WriteRecord \/ SyncSegment \/ FinishSegment
    \/ \E start \in 1 .. MaxTxID + 1 : CreateSegment(start)

SnapshotSteps ==
    \/ CaptureSnapshot \/ SnapshotLock \/ SnapshotRename \/ SnapshotUnlock
    \/ SnapshotDone \/ SnapshotFails

CompactSteps == CompactRemove \/ CompactFinish \/ CompactFails

Operator ==
    \E t \in DOMAIN snaps :
        RepairSnapshot(t) \/ DiscardIncompleteSnapshot(t) \/ CompactCommitLog(t)

Next ==
    \/ Lifecycle \/ Commit \/ WorkerStep
    \/ CreateSnapshot \/ SnapshotSteps \/ CompactSteps \/ Operator
    \/ ProcessCrash \/ PowerLoss

SafetySpec == Init /\ [][Next]_vars

(* The worker keeps persisting what it was given and the steps of a         *)
(* snapshot are taken; nothing obliges anyone to commit, restart or crash.  *)
Spec == SafetySpec /\ WF_vars(WorkerStep) /\ WF_vars(SnapshotSteps)

-----------------------------------------------------------------------------
SegmentFiles ==
    [hdr : BOOLEAN, recs : States, torn : BOOLEAN, synced : 0 .. MaxTxID]

\* Type correctness of the process state and of the files.
TypeOK ==
    /\ phase \in {"down", "bootstrap", "built", "starting", "ready"}
    /\ epoch \in 0 .. MaxEpoch
    /\ hist \in States /\ acked \in States
    /\ DOMAIN segs \subseteq 1 .. MaxTxID + 1
    /\ \A s \in DOMAIN segs : segs[s] \in SegmentFiles
    /\ DOMAIN snaps \subseteq 0 .. MaxTxID
    /\ \A t \in DOMAIN snaps : snaps[t].data \in States
    /\ cur \in DOMAIN segs \cup {0}
    /\ durable \in 0 .. MaxTxID
    /\ op.kind \in {"none", "wait", "snap", "compact"}

\* Whatever stopped the process, at whatever step of the worker, of a
\* snapshot, of a compaction or of a restart: the files yield a state that
\* holds every transaction confirmed durable and nothing that was not
\* committed.
DurableRecoverable ==
    phase = "down" =>
        \/ /\ RecoverError(snaps) = "none"
           /\ IsPrefix(acked, ReplayLog(snaps))
           /\ IsPrefix(ReplayLog(snaps), hist)
        \/ RecoverError(snaps) = "nodata" /\ hist = <<>>

\* The resume plan of Build still fits the files when Start uses it, after
\* any snapshot or compaction of the built runtime, and a new segment never
\* collides with an existing file.
ResumePlanOpens ==
    /\ phase = "built" /\ plan.mode = "inplace" => inPlacePlanValid
    /\ phase = "built" /\ plan.mode = "fresh" => freshArtifactRemovable
    /\ phase = "starting" /\ cur = 0 => plan.start \notin DOMAIN segs
    /\ phase = "ready" => LastTx(cur) + 1 \notin DOMAIN segs \ {cur}

\* The files are well formed, and a published snapshot is the committed history
\* up to its ID, also after the IDs that a crash lost were given to other
\* transactions.
SnapshotsAgree ==
    /\ TypeOK
    /\ \A t \in DOMAIN snaps :
          snaps[t].final => Len(snaps[t].data) = t /\ IsPrefix(snaps[t].data, hist)

\* After a crash of the first Build the next Build can bootstrap.
BootstrapRestarts ==
    phase = "down" /\ RecoverError(snaps) = "nodata" => ~snapDir(0).lock

\* Recovery recovers what was confirmed durable or fails: no step, a Build
\* in particular, goes on with less than was confirmed.
AckedSurvives == [][IsPrefix(acked, acked')]_vars

\* CreateSnapshot, which holds the executor and closeMu, gets its answer
\* from WaitUntilDurable.
SnapshotWaitEnds == op.kind = "wait" ~> op.kind # "wait"

\* The same for a horizon that this process committed itself.
NewHorizonWaitEnds ==
    (op.kind = "wait" /\ op.tx >= plan.next) ~> op.kind # "wait"

\* The data directory is a durable history.
History == INSTANCE DurableHistory WITH Changesets <- 1 .. MaxEpoch
IsDurableHistory == History!Spec
=============================================================================
