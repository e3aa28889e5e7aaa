----------------------------- MODULE BackupGate -----------------------------
(***************************************************************************)
(* How a live backup keeps write transactions out (backup.rs backup_live,  *)
(* engine.rs wait_for_write_txns): the counter of active write             *)
(* transactions and the backup lock, as begin, commit, rollback and the    *)
(* write statements of executor.rs use them, with every error return of    *)
(* transaction.rs.                                                         *)
(*                                                                         *)
(* Rows are not modelled: `wrote` says that memory holds rows of the       *)
(* session's unfinished transaction.                                       *)
(***************************************************************************)
EXTENDS Integers, FiniteSets

CONSTANTS
    Sessions,
    MaxStmts,   \* bound on BEGINs and write statements
    MaxFaults,  \* bound on failures and disconnects
    MaxBackups  \* bound on backups

ASSUME GateAssumption == IsFiniteSet(Sessions) /\ MaxStmts \in Nat /\ MaxFaults \in Nat
                         /\ MaxBackups \in Nat

VARIABLES
    count,      \* active_write_txns
    readers,    \* sessions with a read guard of backup_lock
    writer,     \* the write side of backup_lock
    \* each session
    active, hasId, \* Transaction.active; Transaction.txn_id is Some
    auto,       \* Session.auto_commit
    pc,         \* where its statement is
    wrote,
    unrecorded, \* some of those rows have no undo record
    \* the backup
    bpc,
    \* history
    leaked,     \* decrements of the counter that will never come
    stray,      \* why memory holds rows of a transaction that is gone
    stmts, faults, backups

lock == <<readers, writer>>
rows == <<wrote, unrecorded>>
txn == <<active, hasId, auto, rows>>
hist == <<leaked, stray, stmts, faults, backups>>
vars == <<count, lock, txn, pc, bpc, hist>>

PCs == {"idle", "beginCount", "wantRead", "beginTxn", "stmtCount", "rows", "autoEnd",
        "commitEnd", "undo"}
BackupPCs == {"idle", "wait1", "lock", "parked", "wait2", "checkpoint", "archive", "unlock"}

Init ==
    /\ count = 0 /\ readers = {} /\ writer = "none"
    /\ active = [s \in Sessions |-> FALSE] /\ hasId = [s \in Sessions |-> FALSE]
    /\ auto = [s \in Sessions |-> FALSE] /\ wrote = [s \in Sessions |-> FALSE]
    /\ unrecorded = [s \in Sessions |-> FALSE]
    /\ pc = [s \in Sessions |-> "idle"]
    /\ bpc = "idle"
    /\ leaked = 0 /\ stray = {} /\ stmts = 0 /\ faults = 0 /\ backups = 0

Set(f, s, v) == [f EXCEPT ![s] = v]
Goto(s, label) == pc' = Set(pc, s, label)
Fault == faults < MaxFaults /\ faults' = faults + 1
NoRows(s) == wrote' = Set(wrote, s, FALSE) /\ unrecorded' = Set(unrecorded, s, FALSE)
Statement == stmts < MaxStmts /\ stmts' = stmts + 1

-----------------------------------------------------------------------------
(* BEGIN: no backup lock; the transaction is open before it is counted.    *)
Begin(s) ==
    /\ pc[s] = "idle" /\ ~active[s] /\ Statement
    /\ auto' = Set(auto, s, FALSE)
    /\ active' = Set(active, s, TRUE) /\ hasId' = Set(hasId, s, TRUE)
    /\ Goto(s, "beginCount")
    /\ UNCHANGED <<count, lock, rows, bpc, leaked, stray, faults, backups>>

BeginCounted(s) ==
    /\ pc[s] = "beginCount"
    /\ count' = count + 1
    /\ Goto(s, "idle")
    /\ UNCHANGED <<lock, txn, bpc, hist>>

(* INSERT, UPDATE or DELETE arrives, and takes a read guard.  A reader of  *)
(* parking_lot waits behind a writer that waits.                           *)
SendDml(s) ==
    /\ pc[s] = "idle" /\ Statement
    /\ Goto(s, "wantRead")
    /\ UNCHANGED <<count, lock, txn, bpc, leaked, stray, faults, backups>>

AcquireReadAnyway(s) ==
    /\ pc[s] = "wantRead"
    /\ readers' = readers \cup {s}
    /\ Goto(s, "beginTxn")
    /\ UNCHANGED <<count, writer, txn, bpc, hist>>

AcquireRead(s) ==
    /\ pc[s] = "wantRead" /\ writer = "none"
    /\ readers' = readers \cup {s}
    /\ Goto(s, "beginTxn")
    /\ UNCHANGED <<count, writer, txn, bpc, hist>>

(* begin_write_txn: the transaction that is open, or a new auto-commit     *)
(* one.  After a commit that failed there is no id to use and begin        *)
(* refuses.                                                                *)
BeginWriteTxn(s) ==
    /\ pc[s] = "beginTxn"
    /\ \/ /\ hasId[s]
          /\ Goto(s, "rows")
          /\ UNCHANGED <<active, hasId, auto, readers>>
       \/ /\ ~hasId[s] /\ active[s]
          /\ readers' = readers \ {s}
          /\ Goto(s, "idle")
          /\ UNCHANGED <<active, hasId, auto>>
       \/ /\ ~hasId[s] /\ ~active[s]
          /\ active' = Set(active, s, TRUE) /\ hasId' = Set(hasId, s, TRUE)
          /\ auto' = Set(auto, s, TRUE)
          /\ Goto(s, "stmtCount")
          /\ UNCHANGED readers
    /\ UNCHANGED <<count, writer, rows, bpc, hist>>

(* begin_write_txn: the Begin record cannot be appended.                   *)
BeginWriteTxnFails(s) ==
    /\ pc[s] = "beginTxn" /\ ~hasId[s] /\ ~active[s] /\ Fault
    /\ readers' = readers \ {s}
    /\ Goto(s, "idle")
    /\ UNCHANGED <<count, writer, txn, bpc, leaked, stray, stmts, backups>>

StatementCounted(s) ==
    /\ pc[s] = "stmtCount"
    /\ count' = count + 1
    /\ Goto(s, "rows")
    /\ UNCHANGED <<lock, txn, bpc, hist>>

(* An auto-commit transaction keeps no undo records.                       *)
WriteRow(s) ==
    /\ pc[s] = "rows" /\ ~wrote[s]
    /\ wrote' = Set(wrote, s, TRUE)
    /\ unrecorded' = Set(unrecorded, s, auto[s])
    /\ UNCHANGED <<count, lock, active, hasId, auto, pc, bpc, hist>>

(* finish_auto_commit_if_needed.                                           *)
EndDml(s) ==
    /\ pc[s] = "rows"
    /\ IF auto[s]
       THEN /\ hasId' = Set(hasId, s, FALSE) /\ active' = Set(active, s, FALSE)
            /\ NoRows(s)
            /\ Goto(s, "autoEnd")
            /\ UNCHANGED readers
       ELSE /\ readers' = readers \ {s}
            /\ Goto(s, "idle")
            /\ UNCHANGED <<hasId, active, rows>>
    /\ UNCHANGED <<count, writer, auto, bpc, hist>>

AutoEndUncounted(s) ==
    /\ pc[s] = "autoEnd"
    /\ auto' = Set(auto, s, FALSE)
    /\ readers' = readers \ {s}
    /\ Goto(s, "idle")
    /\ UNCHANGED <<count, writer, active, hasId, rows, bpc, hist>>

AutoEnd(s) ==
    /\ pc[s] = "autoEnd"
    /\ auto' = Set(auto, s, FALSE)
    /\ count' = count - 1
    /\ readers' = readers \ {s}
    /\ Goto(s, "idle")
    /\ UNCHANGED <<writer, active, hasId, rows, bpc, hist>>

(* A row fails: `?` leaves the transaction open and counted.  The row that *)
(* a unique index refuses is stored and has no undo record.                *)
FailDml(s) ==
    /\ pc[s] = "rows" /\ Fault
    /\ \/ wrote[s] /\ unrecorded' = Set(unrecorded, s, TRUE)
       \/ UNCHANGED unrecorded
    /\ readers' = readers \ {s}
    /\ Goto(s, "idle")
    /\ UNCHANGED <<count, writer, active, hasId, auto, wrote, bpc, leaked, stray, stmts, backups>>

(* The Commit record of an auto-commit cannot be appended: the id has been *)
(* taken, the transaction stays active, auto_commit stays set.             *)
AutoCommitFails(s) ==
    /\ pc[s] = "rows" /\ auto[s] /\ Fault
    /\ hasId' = Set(hasId, s, FALSE)
    /\ readers' = readers \ {s}
    /\ Goto(s, "idle")
    /\ UNCHANGED <<count, writer, active, auto, rows, bpc, leaked, stray, stmts, backups>>

CommitUnchecked(s) ==
    /\ pc[s] = "idle"
    /\ auto' = Set(auto, s, FALSE) /\ hasId' = Set(hasId, s, FALSE)
    /\ active' = Set(active, s, FALSE) /\ NoRows(s)
    /\ Goto(s, "commitEnd")
    /\ UNCHANGED <<count, lock, bpc, hist>>

(* COMMIT: also ends an auto-commit transaction that a failure left open.  *)
Commit(s) ==
    /\ pc[s] = "idle" /\ active[s] /\ hasId[s]
    /\ auto' = Set(auto, s, FALSE) /\ hasId' = Set(hasId, s, FALSE)
    /\ active' = Set(active, s, FALSE) /\ NoRows(s)
    /\ Goto(s, "commitEnd")
    /\ UNCHANGED <<count, lock, bpc, hist>>

(* COMMIT or ROLLBACK whose record cannot be appended; sent again it has   *)
(* no id and is refused.                                                   *)
EndFails(s) ==
    /\ pc[s] = "idle" /\ active[s] /\ hasId[s] /\ Fault
    /\ auto' = Set(auto, s, FALSE) /\ hasId' = Set(hasId, s, FALSE)
    /\ UNCHANGED <<count, lock, active, rows, pc, bpc, leaked, stray, stmts, backups>>

CommitEnd(s) ==
    /\ pc[s] = "commitEnd"
    /\ count' = count - 1
    /\ Goto(s, "idle")
    /\ UNCHANGED <<lock, txn, bpc, hist>>

(* ROLLBACK: the Abort record, then the undo list; rows that are not on it *)
(* stay.                                                                   *)
Rollback(s) ==
    /\ pc[s] = "idle" /\ active[s] /\ hasId[s]
    /\ auto' = Set(auto, s, FALSE) /\ hasId' = Set(hasId, s, FALSE)
    /\ active' = Set(active, s, FALSE)
    /\ stray' = IF unrecorded[s] THEN stray \cup {"rolledBack"} ELSE stray
    /\ Goto(s, "undo")
    /\ UNCHANGED <<count, lock, rows, bpc, leaked, stmts, faults, backups>>

Undo(s) ==
    /\ pc[s] = "undo"
    /\ NoRows(s)
    /\ count' = count - 1
    /\ Goto(s, "idle")
    /\ UNCHANGED <<lock, active, hasId, auto, bpc, hist>>

(* apply_undo fails: `?` skips the rest and the decrement.                 *)
UndoFails(s) ==
    /\ pc[s] = "undo" /\ Fault
    /\ stray' = IF wrote[s] THEN stray \cup {"undoFailed"} ELSE stray
    /\ NoRows(s)
    /\ leaked' = leaked + 1
    /\ Goto(s, "idle")
    /\ UNCHANGED <<count, lock, active, hasId, auto, bpc, stmts, backups>>

(* The connection ends between statements and its Session is dropped.      *)
Disconnect(s) ==
    /\ pc[s] = "idle" /\ active[s] /\ Fault
    /\ active' = Set(active, s, FALSE) /\ hasId' = Set(hasId, s, FALSE)
    /\ auto' = Set(auto, s, FALSE) /\ NoRows(s)
    /\ stray' = IF wrote[s] THEN stray \cup {"disconnected"} ELSE stray
    /\ leaked' = leaked + 1
    /\ UNCHANGED <<count, lock, pc, bpc, stmts, backups>>

-----------------------------------------------------------------------------
(* backup_live.                                                            *)

Backup(from, to) == bpc = from /\ bpc' = to

StartBackup ==
    /\ Backup("idle", "wait1") /\ backups < MaxBackups
    /\ backups' = backups + 1
    /\ UNCHANGED <<count, lock, txn, pc, leaked, stray, stmts, faults>>

(* wait_for_write_txns, before the lock and again under it.                *)
Wait(from, to) ==
    /\ Backup(from, to) /\ count = 0
    /\ UNCHANGED <<count, lock, txn, pc, hist>>

ParkWriter ==
    /\ Backup("lock", "parked")
    /\ writer' = "waiting"
    /\ UNCHANGED <<count, readers, txn, pc, hist>>

AcquireWrite ==
    /\ Backup("parked", "wait2") /\ readers = {}
    /\ writer' = "held"
    /\ UNCHANGED <<count, readers, txn, pc, hist>>

(* Database::checkpoint, then the archive of the data directory.           *)
Save(from, to) ==
    /\ Backup(from, to)
    /\ UNCHANGED <<count, lock, txn, pc, hist>>

Unlock ==
    /\ Backup("unlock", "idle")
    /\ writer' = "none"
    /\ UNCHANGED <<count, readers, txn, pc, hist>>

(* The checkpoint or the archive fails: `?` drops the write guard.         *)
BackupFails ==
    /\ bpc \in {"checkpoint", "archive"} /\ Fault
    /\ bpc' = "idle"
    /\ writer' = "none"
    /\ UNCHANGED <<count, readers, txn, pc, leaked, stray, stmts, backups>>

BackupStep ==
    \/ Wait("wait1", "lock")
    \/ ParkWriter
    \/ AcquireWrite
    \/ Wait("wait2", "checkpoint")
    \/ Save("checkpoint", "archive")
    \/ Save("archive", "unlock")
    \/ Unlock

(* What the server does once a statement has arrived.                      *)
ServerStep(s) ==
    \/ BeginCounted(s)
    \/ AcquireRead(s)
    \/ BeginWriteTxn(s)
    \/ StatementCounted(s)
    \/ EndDml(s)
    \/ AutoEnd(s)
    \/ CommitEnd(s)
    \/ Undo(s)

Next ==
    \/ \E s \in Sessions :
          \/ ServerStep(s)
          \/ Begin(s)
          \/ SendDml(s)
          \/ WriteRow(s)
          \/ Commit(s)
          \/ Rollback(s)
          \/ BeginWriteTxnFails(s)
          \/ FailDml(s)
          \/ AutoCommitFails(s)
          \/ EndFails(s)
          \/ UndoFails(s)
          \/ Disconnect(s)
    \/ StartBackup
    \/ BackupFails
    \/ BackupStep

Spec == Init /\ [][Next]_vars

(* The scheduler runs the backup and every statement, and a client ends    *)
(* the transaction it began.  Nobody is bound to end the implicit one that *)
(* a failed statement left open: the client does not know of it.           *)
CommitBegun(s) == ~auto[s] /\ Commit(s)

FairSpec ==
    /\ Spec
    /\ WF_vars(BackupStep)
    /\ \A s \in Sessions : WF_vars(ServerStep(s)) /\ WF_vars(CommitBegun(s))

-----------------------------------------------------------------------------
(* Sessions whose transaction the counter includes now.                    *)
Counted ==
    {s \in Sessions : \/ active[s] /\ pc[s] \notin {"beginCount", "stmtCount"}
                      \/ pc[s] \in {"autoEnd", "commitEnd", "undo"}}

(* Every variable has its type; in particular the counter, a usize, does   *)
(* not wrap below zero.                                                    *)
TypeOK ==
    /\ count \in Nat
    /\ readers \subseteq Sessions /\ writer \in {"none", "waiting", "held"}
    /\ active \in [Sessions -> BOOLEAN] /\ hasId \in [Sessions -> BOOLEAN]
    /\ auto \in [Sessions -> BOOLEAN] /\ wrote \in [Sessions -> BOOLEAN]
    /\ unrecorded \in [Sessions -> BOOLEAN]
    /\ pc \in [Sessions -> PCs] /\ bpc \in BackupPCs
    /\ leaked \in Nat /\ stray \subseteq {"rolledBack", "undoFailed", "disconnected"}
    /\ stmts \in 0..MaxStmts /\ faults \in 0..MaxFaults /\ backups \in 0..MaxBackups

(* active_write_txns counts the open transactions and the ones whose end   *)
(* was lost to an error or a disconnect, at every step of every handler.   *)
CountExact == count = Cardinality(Counted) + leaked

(* Point-in-time consistency: while the backup checkpoints and archives,   *)
(* memory holds no row of an unfinished transaction, nor of one that was   *)
(* cut off by a disconnect or a failing undo: those keep the backup out.   *)
(* Rows that a ROLLBACK left behind are the exception.                     *)
ArchiveIsAtomic ==
    bpc \in {"checkpoint", "archive"} =>
        (\A s \in Sessions : ~wrote[s]) /\ stray \subseteq {"rolledBack"}

(* Nothing has to bring the counter to zero for this backup: an end was    *)
(* lost, a session can no longer end its transaction, a session is idle in *)
(* the implicit transaction of a statement that failed, or a statement of  *)
(* a counted transaction waits for the lock under which the backup waits.  *)
Blocked ==
    \/ leaked > 0
    \/ \E s \in Sessions : active[s] /\ ~hasId[s]
    \/ \E s \in Sessions : active[s] /\ auto[s] /\ pc[s] = "idle"
    \/ bpc = "wait2" /\ \E s \in Counted : pc[s] = "wantRead"

(* A backup that has started ends, by success or by failure, unless one of *)
(* the causes above holds it: backup_live has no other way to hang.        *)
BackupEndsUnlessBlocked == bpc = "wait1" ~> (bpc = "idle" \/ Blocked)
=============================================================================
