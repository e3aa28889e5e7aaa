--------------------------- MODULE WriteAheadLog ---------------------------
(***************************************************************************)
(* The write-ahead log (wal.rs), the storage writes that feed it           *)
(* (storage.rs insert/update/delete: memory first, log second) and the     *)
(* checkpoint that empties it (recovery.rs checkpoint), step by step as    *)
(* several threads execute them.                                           *)
(*                                                                         *)
(* A log record stands for one operation.  Operations are opaque: a data   *)
(* operation changes the table (its effect is the presence of the          *)
(* operation in `memory`), a control operation is a Begin, Commit or Abort *)
(* record.  A record is "whole" when all four write_all calls of append    *)
(* took effect; until then, and for ever if the process or the write dies  *)
(* in between, it is torn, and a reader stops there.                       *)
(***************************************************************************)
EXTENDS Integers, Sequences, FiniteSets

CONSTANTS
    Threads,    \* threads executing statements
    Data,       \* data operations (Insert, Update, Delete), each used once
    Control,    \* control operations (Begin, Commit, Abort), each used once
    Interval,   \* CHECKPOINT_INTERVAL
    Batch,      \* WAL_SYNC_BATCH
    MaxLsn,     \* bound on log sequence numbers
    MaxFaults,  \* bound on process kills, power losses and I/O errors
    MaxRequests,\* bound on checkpoints asked for by a backup or a shutdown
    NoThread,   \* nobody holds the file mutex
    NoOp        \* the thread is not in an append

ASSUME OpsAssumption == Data \cap Control = {} /\ NoOp \notin Data \cup Control
ASSUME ThreadsAssumption == NoThread \notin Threads
ASSUME BoundsAssumption == /\ Interval \in Nat \ {0}
                           /\ Batch \in Nat \ {0}
                           /\ MaxLsn \in Nat
                           /\ MaxFaults \in Nat
                           /\ MaxRequests \in Nat

VARIABLES
    \* on disk
    file,      \* wal.log: sequence of records
    synced,    \* how many records of `file` an fsync has covered
    ckpt,      \* lsn in checkpoint.bin; 0 when absent or empty
    dat,       \* the data operations whose effect is in the .dat file
    corrupt,   \* the .dat file holds half a table and cannot be decoded
    \* in the process
    up,        \* the database is open
    memory,    \* the data operations whose effect is in StorageEngine.tables
    lsn,       \* WriteAheadLog.lsn
    opsSince,  \* WriteAheadLog.ops_since_checkpoint
    unsynced,  \* WriteAheadLog.unsynced_writes
    fileLock,  \* holder of the mutex around the log file
    pc,        \* where each thread is
    op,        \* the operation a thread is logging
    myLsn,     \* the local `lsn` of append, and of checkpoint
    \* history
    openLen,   \* records the file held when the database was last opened
    started,   \* operations begun
    acked,     \* operations whose append returned Ok
    late,      \* operations acknowledged while a checkpoint was between
               \* writing the tables and truncating the log
    overlap,   \* the LSN counter was reset under records already numbered
    damage,    \* the known ways to lose a record that have occurred
    faults,    \* how many kills, power losses and I/O errors there were
    requests   \* how many checkpoints were asked for

disk == <<file, synced, ckpt, dat, corrupt>>
proc == <<up, memory, lsn, opsSince, unsynced, fileLock, pc, op, myLsn>>
hist == <<openLen, started, acked, late, overlap, damage, faults, requests>>
vars == <<disk, proc, hist>>

Ops == Data \cup Control

Record == [lsn : 0..MaxLsn, op : Ops, form : {"whole", "torn"}]

(* What a checkpoint does after the tables are written and before the log  *)
(* is empty.                                                               *)
CheckpointWindow ==
    {"readLsn", "flushMark", "markOpen", "markWrite", "flushTruncate", "truncate"}

(* The steps of a checkpoint that can return an I/O error.                 *)
CheckpointIO == (CheckpointWindow \ {"readLsn"}) \cup {"persistOpen", "persistWrite"}

AppendSteps == {"alloc", "writeHeader", "writeBody"}

PCs == {"idle", "check", "persistOpen", "persistWrite", "resetLsn"}
          \cup AppendSteps \cup CheckpointWindow

(* A thread that has its LSN and whose record is not complete.             *)
Numbered == {"writeHeader", "writeBody"}

Damages == {"rewrite", "tornTail", "filtered", "powerLoss"}

Init ==
    /\ file = <<>> /\ synced = 0 /\ ckpt = 0 /\ dat = {} /\ corrupt = FALSE
    /\ up = TRUE /\ memory = {} /\ lsn = 0 /\ opsSince = 0 /\ unsynced = 0
    /\ fileLock = NoThread
    /\ pc = [t \in Threads |-> "idle"]
    /\ op = [t \in Threads |-> NoOp]
    /\ myLsn = [t \in Threads |-> 0]
    /\ openLen = 0 /\ started = {} /\ acked = {} /\ late = {}
    /\ overlap = FALSE /\ damage = {} /\ faults = 0 /\ requests = 0

-----------------------------------------------------------------------------
(* Reading the log back.                                                   *)

(* The records replay_since reaches: it stops at the first torn one.  What *)
(* was appended after a torn record is read as part of it, and the CRC     *)
(* fails.                                                                  *)
Readable(f) == {i \in 1..Len(f) : \A j \in 1..i : f[j].form = "whole"}

OpsOnLog(f) == {f[i].op : i \in Readable(f)}

(* The operations replay_since(from) returns.                              *)
ReplaySince(f, from) == {f[i].op : i \in {j \in Readable(f) : f[j].lsn > from}}

(* read_max_lsn checks no CRC.  A record torn at the end of the file       *)
(* counts if its header is complete, because the seek past the end of file *)
(* succeeds; once records follow a torn one the framing is lost and the    *)
(* scan may read any bytes as an LSN.                                      *)
MaxLsnReadingsNone(f) == {0}

MaxLsnReadings(f) ==
    LET ok     == Readable(f)
        atEnd  == \A i \in 1..Len(f) : i < Len(f) => f[i].form = "whole"
        framed == IF atEnd THEN {0} \cup {f[i].lsn : i \in 1..Len(f)} ELSE 0..MaxLsn
    IN  {n \in framed : \A i \in ok : f[i].lsn <= n}

-----------------------------------------------------------------------------
(* storage.insert, update and delete, followed by append, and append       *)
(* alone for control records.                                              *)

Goto(t, label) == pc' = [pc EXCEPT ![t] = label]

Fault == faults < MaxFaults /\ faults' = faults + 1

(* The table changes under the tables write lock, which persist_table      *)
(* excludes by its read lock.  Control operations go straight to append.   *)
Start(t, o) ==
    /\ up /\ pc[t] = "idle" /\ o \in Ops \ started
    /\ o \in Data => \A u \in Threads : pc[u] # "persistWrite"
    /\ memory' = IF o \in Data THEN memory \cup {o} ELSE memory
    /\ op' = [op EXCEPT ![t] = o]
    /\ started' = started \cup {o}
    /\ Goto(t, "alloc")
    /\ UNCHANGED <<disk, up, lsn, opsSince, unsynced, fileLock, myLsn,
                   openLen, acked, late, overlap, damage, faults, requests>>

(* append: take the next LSN under the lsn mutex and release it.           *)
Alloc(t) ==
    /\ up /\ pc[t] = "alloc" /\ lsn < MaxLsn
    /\ lsn' = lsn + 1
    /\ myLsn' = [myLsn EXCEPT ![t] = lsn + 1]
    /\ Goto(t, "writeHeader")
    /\ UNCHANGED <<disk, up, memory, opsSince, unsynced, fileLock, op, hist>>

(* append: lock the file and write the first bytes of the record.          *)
WriteHeader(t) ==
    /\ up /\ pc[t] = "writeHeader" /\ fileLock = NoThread
    /\ fileLock' = t
    /\ file' = Append(file, [lsn |-> myLsn[t], op |-> op[t], form |-> "torn"])
    /\ damage' = IF \A i \in 1..Len(file) : file[i].form = "whole"
                 THEN damage ELSE damage \cup {"tornTail"}
    /\ Goto(t, "writeBody")
    /\ UNCHANGED <<synced, ckpt, dat, corrupt, up, memory, lsn, opsSince, unsynced,
                   op, myLsn, openLen, started, acked, late, overlap, faults, requests>>

CompleteLast(f) == [f EXCEPT ![Len(f)].form = "whole"]
TearLast(f) == [f EXCEPT ![Len(f)].form = "torn"]

(* append: the remaining bytes.  truncate does not take the file mutex, so *)
(* the header may be gone; O_APPEND then leaves a headless fragment.       *)
Completed(t) ==
    IF file = <<>>
    THEN <<[lsn |-> myLsn[t], op |-> op[t], form |-> "torn"]>>
    ELSE CompleteLast(file)

SyncDueLate == unsynced >= Batch

SyncDue == unsynced + 1 >= Batch

EndAppend(t, label) ==
    /\ fileLock' = NoThread
    /\ myLsn' = [myLsn EXCEPT ![t] = 0]
    /\ Goto(t, label)

WriteBody(t) ==
    /\ up /\ pc[t] = "writeBody"
    /\ file' = Completed(t)
    /\ opsSince' = opsSince + 1
    /\ unsynced' = IF SyncDue THEN 0 ELSE unsynced + 1
    /\ synced' = IF SyncDue THEN Len(file') ELSE synced
    /\ acked' = acked \cup {op[t]}
    /\ late' = IF file = <<>> \/ \E u \in Threads : pc[u] \in CheckpointWindow
               THEN late \cup {op[t]} ELSE late
    /\ EndAppend(t, "check")
    /\ UNCHANGED <<ckpt, dat, corrupt, up, memory, lsn, op,
                   openLen, started, overlap, damage, faults, requests>>

(* append: the record is written but sync_all fails; `?` leaves the        *)
(* counter at the batch size, so that the next append syncs again.         *)
SyncFails(t) ==
    /\ up /\ pc[t] = "writeBody" /\ SyncDue
    /\ Fault
    /\ file' = Completed(t)
    /\ opsSince' = opsSince + 1
    /\ unsynced' = unsynced + 1
    /\ op' = [op EXCEPT ![t] = NoOp]
    /\ EndAppend(t, "idle")
    /\ UNCHANGED <<synced, ckpt, dat, corrupt, up, memory, lsn,
                   openLen, started, acked, late, overlap, damage, requests>>

(* append: write_all fails, before the first byte or half way; the torn    *)
(* record stays in the file and the effect stays in memory.                *)
WriteFails(t) ==
    /\ up
    /\ pc[t] = "writeBody" \/ (pc[t] = "writeHeader" /\ fileLock = NoThread)
    /\ Fault
    /\ op' = [op EXCEPT ![t] = NoOp]
    /\ EndAppend(t, "idle")
    /\ UNCHANGED <<disk, up, memory, lsn, opsSince, unsynced,
                   openLen, started, acked, late, overlap, damage, requests>>

MaybeCheckpointUnpersisted(t) ==
    /\ up /\ pc[t] = "check"
    /\ Goto(t, IF op[t] \in Data /\ opsSince >= Interval THEN "readLsn" ELSE "idle")
    /\ op' = [op EXCEPT ![t] = NoOp]
    /\ UNCHANGED <<disk, up, memory, lsn, opsSince, unsynced, fileLock, myLsn, hist>>

(* maybe_checkpoint, which only the data operations call.                  *)
MaybeCheckpoint(t) ==
    /\ up /\ pc[t] = "check"
    /\ Goto(t, IF op[t] \in Data /\ opsSince >= Interval THEN "persistOpen" ELSE "idle")
    /\ op' = [op EXCEPT ![t] = NoOp]
    /\ UNCHANGED <<disk, up, memory, lsn, opsSince, unsynced, fileLock, myLsn, hist>>

-----------------------------------------------------------------------------
(* recovery::checkpoint.                                                   *)

(* Database::checkpoint: a backup or the shutdown of the server asks.      *)
StartCheckpoint(t) ==
    /\ up /\ pc[t] = "idle" /\ requests < MaxRequests
    /\ requests' = requests + 1
    /\ Goto(t, "persistOpen")
    /\ UNCHANGED <<disk, up, memory, lsn, opsSince, unsynced, fileLock, op, myLsn,
                   openLen, started, acked, late, overlap, damage, faults>>

(* persist_table empties the file it is about to rewrite.                  *)
PersistOpen(t) ==
    /\ up /\ pc[t] = "persistOpen"
    /\ dat' = {}
    /\ Goto(t, "persistWrite")
    /\ UNCHANGED <<file, synced, ckpt, corrupt, up, memory, lsn, opsSince, unsynced,
                   fileLock, op, myLsn, hist>>

PersistWrite(t) ==
    /\ up /\ pc[t] = "persistWrite"
    /\ dat' = memory
    /\ corrupt' = FALSE
    /\ Goto(t, "readLsn")
    /\ UNCHANGED <<file, synced, ckpt, up, memory, lsn, opsSince, unsynced,
                   fileLock, op, myLsn, hist>>

ReadLsnNext(t) ==
    /\ up /\ pc[t] = "readLsn"
    /\ myLsn' = [myLsn EXCEPT ![t] = lsn + 1]
    /\ Goto(t, "flushMark")
    /\ UNCHANGED <<disk, up, memory, lsn, opsSince, unsynced, fileLock, op, hist>>

ReadLsn(t) ==
    /\ up /\ pc[t] = "readLsn"
    /\ myLsn' = [myLsn EXCEPT ![t] = lsn]
    /\ Goto(t, "flushMark")
    /\ UNCHANGED <<disk, up, memory, lsn, opsSince, unsynced, fileLock, op, hist>>

(* flush, called by mark_checkpoint and again by truncate.                 *)
Flush(t, from, to) ==
    /\ up /\ pc[t] = from /\ fileLock = NoThread
    /\ synced' = Len(file)
    /\ unsynced' = 0
    /\ Goto(t, to)
    /\ UNCHANGED <<file, ckpt, dat, corrupt, up, memory, lsn, opsSince, fileLock,
                   op, myLsn, hist>>

(* mark_checkpoint opens checkpoint.bin with truncate, then writes it.     *)
MarkOpen(t) ==
    /\ up /\ pc[t] = "markOpen"
    /\ ckpt' = 0
    /\ Goto(t, "markWrite")
    /\ UNCHANGED <<file, synced, dat, corrupt, up, memory, lsn, opsSince, unsynced,
                   fileLock, op, myLsn, hist>>

MarkWrite(t) ==
    /\ up /\ pc[t] = "markWrite"
    /\ ckpt' = myLsn[t]
    /\ opsSince' = 0
    /\ myLsn' = [myLsn EXCEPT ![t] = 0]
    /\ Goto(t, "flushTruncate")
    /\ UNCHANGED <<file, synced, dat, corrupt, up, memory, lsn, unsynced,
                   fileLock, op, hist>>

(* truncate empties the file through a second handle, without the mutex.   *)
Truncate(t) ==
    /\ up /\ pc[t] = "truncate"
    /\ file' = <<>>
    /\ synced' = 0
    /\ openLen' = 0
    /\ Goto(t, "resetLsn")
    /\ UNCHANGED <<ckpt, dat, corrupt, up, memory, lsn, opsSince, unsynced, fileLock,
                   op, myLsn, started, acked, late, overlap, damage, faults, requests>>

ResetLsn(t) ==
    /\ up /\ pc[t] = "resetLsn"
    /\ lsn' = 0
    /\ overlap' = (overlap \/ file # <<>> \/ \E u \in Threads : pc[u] \in Numbered)
    /\ Goto(t, "idle")
    /\ UNCHANGED <<disk, up, memory, opsSince, unsynced, fileLock, op, myLsn,
                   openLen, started, acked, late, damage, faults, requests>>

(* Any file operation of the checkpoint may fail before it takes effect,   *)
(* or half way through the tables; `?` abandons the rest.                  *)
CheckpointFails(t) ==
    /\ up /\ pc[t] \in CheckpointIO
    /\ Fault
    /\ IF pc[t] = "persistWrite"
       THEN corrupt' \in BOOLEAN /\ damage' = damage \cup {"rewrite"}
       ELSE UNCHANGED <<corrupt, damage>>
    /\ myLsn' = [myLsn EXCEPT ![t] = 0]
    /\ Goto(t, "idle")
    /\ UNCHANGED <<file, synced, ckpt, dat, up, memory, lsn, opsSince, unsynced,
                   fileLock, op, openLen, started, acked, late, overlap, requests>>

(* The fsync that ends a checkpoint's file operation may fail after the    *)
(* operation took effect: the tables are rewritten, the checkpoint is      *)
(* marked or the log is emptied, and `?` skips all that follows, the reset *)
(* of the counters included.                                               *)
PersistSyncFails(t) ==
    /\ up /\ pc[t] = "persistWrite"
    /\ Fault
    /\ dat' = memory
    /\ corrupt' = FALSE
    /\ damage' = damage \cup {"rewrite"}
    /\ Goto(t, "idle")
    /\ UNCHANGED <<file, synced, ckpt, up, memory, lsn, opsSince, unsynced, fileLock,
                   op, myLsn, openLen, started, acked, late, overlap, requests>>

MarkSyncFails(t) ==
    /\ up /\ pc[t] = "markWrite"
    /\ Fault
    /\ ckpt' = myLsn[t]
    /\ myLsn' = [myLsn EXCEPT ![t] = 0]
    /\ Goto(t, "idle")
    /\ UNCHANGED <<file, synced, dat, corrupt, up, memory, lsn, opsSince, unsynced,
                   fileLock, op, openLen, started, acked, late, overlap, damage, requests>>

TruncateSyncFails(t) ==
    /\ up /\ pc[t] = "truncate"
    /\ Fault
    /\ file' = <<>>
    /\ synced' = 0
    /\ openLen' = 0
    /\ Goto(t, "idle")
    /\ UNCHANGED <<ckpt, dat, corrupt, up, memory, lsn, opsSince, unsynced, fileLock,
                   op, myLsn, started, acked, late, overlap, damage, requests>>

-----------------------------------------------------------------------------
(* Crash and restart.                                                      *)

Stopped ==
    /\ up' = FALSE
    /\ memory' = {} /\ lsn' = 0 /\ opsSince' = 0 /\ unsynced' = 0
    /\ fileLock' = NoThread
    /\ pc' = [t \in Threads |-> "idle"]
    /\ op' = [t \in Threads |-> NoOp]
    /\ myLsn' = [t \in Threads |-> 0]

Rewriting == \E t \in Threads : pc[t] = "persistWrite"

TableFileAfterCrash ==
    corrupt' \in IF Rewriting THEN BOOLEAN ELSE {corrupt}

(* The process dies; what it wrote stays in the page cache.                *)
ProcessKilled ==
    /\ up /\ Fault
    /\ Stopped
    /\ TableFileAfterCrash
    /\ damage' = IF Rewriting THEN damage \cup {"rewrite"} ELSE damage
    /\ UNCHANGED <<file, synced, ckpt, dat, openLen, started, acked, late, overlap, requests>>

(* The machine loses power: of the records after the last fsync a prefix   *)
(* survives, the last of them possibly torn.                               *)
Surviving(f) ==
    {SubSeq(f, 1, k) : k \in synced..Len(f)} \cup
    {TearLast(SubSeq(f, 1, k)) : k \in (synced + 1)..Len(f)}

PowerLoss ==
    /\ up /\ Fault
    /\ Stopped
    /\ TableFileAfterCrash
    /\ file' \in Surviving(file)
    /\ damage' = damage \cup (IF Rewriting THEN {"rewrite"} ELSE {})
                        \cup (IF file' # file THEN {"powerLoss"} ELSE {})
    /\ UNCHANGED <<synced, ckpt, dat, openLen, started, acked, late, overlap, requests>>

(* WriteAheadLog::open, load_all and replay_wal.  The torn tail is not     *)
(* removed, and the counters of unsynced and unpersisted records start at  *)
(* zero again.  An undecodable table file makes open fail for good.        *)
Open ==
    /\ ~up /\ ~corrupt
    /\ up' = TRUE
    /\ lsn' \in MaxLsnReadings(file)
    /\ memory' = dat \cup (ReplaySince(file, ckpt) \cap Data)
    /\ openLen' = Len(file)
    /\ damage' = IF OpsOnLog(file) \cap Data \subseteq memory'
                 THEN damage ELSE damage \cup {"filtered"}
    /\ UNCHANGED <<disk, opsSince, unsynced, fileLock, pc, op, myLsn,
                   started, acked, late, overlap, faults, requests>>

-----------------------------------------------------------------------------
AppendStep(t) ==
    \/ \E o \in Ops : Start(t, o)
    \/ Alloc(t)
    \/ WriteHeader(t)
    \/ WriteBody(t)
    \/ SyncFails(t)
    \/ WriteFails(t)
    \/ MaybeCheckpoint(t)

CheckpointStep(t) ==
    \/ StartCheckpoint(t)
    \/ PersistOpen(t)
    \/ PersistWrite(t)
    \/ ReadLsn(t)
    \/ Flush(t, "flushMark", "markOpen")
    \/ MarkOpen(t)
    \/ MarkWrite(t)
    \/ Flush(t, "flushTruncate", "truncate")
    \/ Truncate(t)
    \/ ResetLsn(t)
    \/ CheckpointFails(t)
    \/ PersistSyncFails(t)
    \/ MarkSyncFails(t)
    \/ TruncateSyncFails(t)

Next ==
    \/ \E t \in Threads : AppendStep(t) \/ CheckpointStep(t)
    \/ ProcessKilled
    \/ PowerLoss
    \/ Open

Spec == Init /\ [][Next]_vars

-----------------------------------------------------------------------------
(* Every variable has its type.                                            *)
TypeOK ==
    /\ file \in Seq(Record) /\ synced \in Nat /\ ckpt \in 0..MaxLsn
    /\ dat \subseteq Data /\ corrupt \in BOOLEAN
    /\ up \in BOOLEAN /\ memory \subseteq Data /\ lsn \in 0..MaxLsn
    /\ opsSince \in Nat /\ unsynced \in Nat
    /\ fileLock \in Threads \cup {NoThread}
    /\ pc \in [Threads -> PCs]
    /\ op \in [Threads -> Ops \cup {NoOp}]
    /\ myLsn \in [Threads -> 0..MaxLsn]
    /\ openLen \in Nat /\ started \subseteq Ops /\ acked \subseteq started
    /\ late \subseteq acked /\ overlap \in BOOLEAN
    /\ damage \subseteq Damages /\ faults \in 0..MaxFaults
    /\ requests \in 0..MaxRequests

(* A power loss costs fewer than WAL_SYNC_BATCH of the records acknowledged *)
(* since the database was opened (append, flush), even when fsyncs fail    *)
(* and checkpoints truncate the file under an append.  Records a previous  *)
(* process left unsynced come on top: open restarts the counter.           *)
UnsyncedAcked == {i \in 1..Len(file) : i > synced /\ i > openLen /\ file[i].op \in acked}

SyncBound == up => Cardinality(UnsyncedAcked) < Batch

(* Replay sorts by LSN, so the LSNs of the readable records are distinct   *)
(* and the counter is past them: after crashes, torn records and misread   *)
(* LSNs too, as long as the reset of the counter in truncate did not       *)
(* overlap an append.                                                      *)
LsnDistinct ==
    ~overlap => \A i, j \in Readable(file) :
                   /\ i # j => file[i].lsn # file[j].lsn
                   /\ up => file[i].lsn <= lsn

(* Every way this code can lose an acknowledged data record is one of      *)
(* these: it was acknowledged between a checkpoint's table write and its   *)
(* truncate (`late`), a crash or error hit the rewriting of the table      *)
(* file, a record was appended after a torn one, power was lost before     *)
(* fsync, or open filtered it out by its LSN.  Failing that it is in the   *)
(* table file or readable in the log, at every step.                       *)
OnlyKnownLosses ==
    damage = {} /\ ~Rewriting
        => (acked \cap Data) \ late \subseteq dat \cup OpsOnLog(file)

-----------------------------------------------------------------------------
(* A claim the code does not keep.                                         *)

(* Crash safety as advertised: after a process kill, and no other fault,   *)
(* reopening brings back every acknowledged record.                        *)
AckedSurvivesKill ==
    up /\ damage \subseteq {"filtered"} => acked \cap Data \subseteq memory
=============================================================================
