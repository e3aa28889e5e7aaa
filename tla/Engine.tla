------------------------------- MODULE Engine -------------------------------
(***************************************************************************)
(* Transactions against each other and against crashes: sessions           *)
(* (transaction.rs and the write paths of executor.rs), the table and its  *)
(* file (storage.rs), the log as recovery reads it (recovery.rs), and open *)
(* (engine.rs).                                                            *)
(*                                                                         *)
(* One table without indexes.  Every write writes a new value, so that a   *)
(* value names its writer.  A write (change memory, append, maybe          *)
(* checkpoint) is one step here, which may come to an error after each     *)
(* part; WriteAheadLog takes it apart, with the LSN or the piece of a      *)
(* frame that a failed append leaves behind.  A statement is several       *)
(* steps: the scan, one for each row, the end.  Sessions interleave        *)
(* between them and the process may die there.  ON CONFLICT is in          *)
(* IndexedTable.                                                           *)
(***************************************************************************)
EXTENDS Integers, Sequences, FiniteSets, SequencesExt, Functions

CONSTANTS
    Sessions,
    Interval,    \* CHECKPOINT_INTERVAL
    MaxWrites,   \* bound on row writes
    MaxTxns,     \* bound on transactions
    MaxStmts,    \* bound on statements and failing writes
    MaxRestarts  \* bound on crashes and shutdowns

ASSUME EngineAssumption ==
    /\ IsFiniteSet(Sessions) /\ Interval \in Nat
    /\ MaxWrites \in Nat /\ MaxTxns \in Nat /\ MaxStmts \in Nat /\ MaxRestarts \in Nat

VARIABLES
    paged,     \* the table is a paged one: its file is mapped
    db,        \* memory, table file, log and counters: see EmptyDb
    up,        \* the database is open
    sess,      \* the session of each connection
    committed, \* the values the committed transactions left (history)
    dirty,     \* sessions whose uncommitted writes are in the table file
               \* (history)
    damage,    \* what has gone wrong, by name (history)
    writes, txns, stmts, restarts

Attempt == stmts < MaxStmts /\ stmts' = stmts + 1

bounds == <<writes, txns, stmts, restarts>>
vars == <<paged, db, up, sess, committed, dirty, damage, bounds>>

(* A row is [val, ver]: Row.values and Row.version.                        *)
EmptyTable == [rows |-> <<>>, next |-> 1]

EmptyDb == [mem |-> EmptyTable, dat |-> EmptyTable, wal |-> <<>>, ckpt |-> 0,
            lsn |-> 0, ops |-> 0, nextTxn |-> 1]

(* Session::new, and the statement the session executes: its kind and the  *)
(* rows its scan found and it has not come to.  txn = 0 is `txn_id: None`, *)
(* and `active` goes with it.  `pending` and `unrecorded` are history: the *)
(* value that each row the transaction has written has by now, 0 if it is  *)
(* deleted, and whether a write has no undo record, which is so of every   *)
(* write of an implicit transaction and of the row of a failing INSERT.    *)
NewSession == [txn |-> 0, auto |-> FALSE, undo |-> <<>>, stmt |-> "none", scan |-> <<>>,
               pending |-> <<>>, unrecorded |-> FALSE]

Init ==
    /\ paged \in BOOLEAN /\ db = EmptyDb /\ up = TRUE
    /\ sess = [s \in Sessions |-> NewSession]
    /\ committed = <<>> /\ dirty = {} /\ damage = {}
    /\ writes = 0 /\ txns = 0 /\ stmts = 0 /\ restarts = 0

-----------------------------------------------------------------------------
(* The table.  An effect is [kind, id, row].                               *)

Put(rows, id, row) == [i \in DOMAIN rows \cup {id} |-> IF i = id THEN row ELSE rows[i]]
Without(rows, id) == Restrict(rows, DOMAIN rows \ {id})

(* apply_insert, which also keeps next_id ahead, apply_update, which       *)
(* leaves a missing row missing and counts its own version, and            *)
(* apply_delete.                                                           *)
ApplyInsertStale(table, id, row) == [table EXCEPT !.rows = Put(@, id, row)]

ApplyInsert(table, id, row) ==
    [rows |-> Put(table.rows, id, row),
     next |-> IF id >= table.next THEN id + 1 ELSE table.next]

ApplyUpdate(table, id, row) ==
    IF id \in DOMAIN table.rows
    THEN [table EXCEPT !.rows = Put(@, id, [row EXCEPT !.ver = table.rows[id].ver + 1])]
    ELSE table

ApplyDelete(table, id) == [table EXCEPT !.rows = Without(@, id)]

Apply(table, e) ==
    CASE e.kind = "Insert" -> ApplyInsert(table, e.id, e.row)
      [] e.kind = "Update" -> ApplyUpdate(table, e.id, e.row)
      [] e.kind = "Delete" -> ApplyDelete(table, e.id)
      [] OTHER -> table

(* apply_undo, as the effect that takes a write back.                      *)
UndoOf(kind, id, old) ==
    [kind |-> CASE kind = "Insert" -> "Delete" [] kind = "Update" -> "Update"
                [] kind = "Delete" -> "Insert",
     id |-> id, row |-> old]

(* Transaction::rollback drains the undo list in reverse.                  *)
RewoundForward(table, undo) == FoldLeft(Apply, table, undo)

Rewound(table, undo) == FoldLeft(Apply, table, Reverse(undo))

Values(table) == [i \in DOMAIN table.rows |-> table.rows[i].val]

-----------------------------------------------------------------------------
(* The log.                                                                *)

NoRow == [val |-> 0, ver |-> 0]

Control(kind) == [kind |-> kind, id |-> 0, row |-> NoRow]

Log(d, txn, e) ==
    [d EXCEPT !.lsn = @ + 1, !.ops = @ + 1,
              !.wal = Append(@, [lsn |-> d.lsn + 1, txn |-> txn, op |-> e])]

(* A paged table is written in its mapped file, which a kill leaves as it  *)
(* is; the other kind is in memory until a checkpoint.                     *)
Filed(d) == IF paged THEN [d EXCEPT !.dat = d.mem] ELSE d

(* recovery::checkpoint: the tables as they are in memory, the LSN into    *)
(* checkpoint.bin, the log emptied and its LSN counter reset.              *)
Checkpointed(d) ==
    [d EXCEPT !.dat = d.mem, !.ckpt = d.lsn, !.wal = <<>>, !.lsn = 0, !.ops = 0]

CheckpointDue(d) == d.ops >= Interval

(* replay_since filters by LSN; replay_wal keeps the data records of the   *)
(* transactions whose last Commit or Abort record is a Commit, and applies *)
(* them in LSN order, which here is file order.                            *)
Seen(d) == {i \in DOMAIN d.wal : d.wal[i].lsn > d.ckpt}

OutcomeOpenCommits(d, txn) ==
    IF \E i \in Seen(d) : d.wal[i].txn = txn /\ d.wal[i].op.kind = "Abort"
    THEN "Abort" ELSE "Commit"

Outcome(d, txn) ==
    LET ends == {i \in Seen(d) : d.wal[i].txn = txn /\ d.wal[i].op.kind \in {"Commit", "Abort"}}
    IN  IF ends = {} THEN "open" ELSE d.wal[Max(ends)].op.kind

DataKinds == {"Insert", "Update", "Delete"}

(* A record that is not kept stands here as a control record, which        *)
(* apply_wal_op passes over.                                               *)
Winners(d) == {txn \in {d.wal[i].txn : i \in Seen(d)} : Outcome(d, txn) = "Commit"}

Kept(d) ==
    LET winners == Winners(d)
    IN  [i \in DOMAIN d.wal |-> IF d.wal[i].lsn > d.ckpt /\ d.wal[i].txn \in winners
                                THEN d.wal[i].op ELSE Control("Begin")]

Recovered(d) == FoldLeft(Apply, d.dat, Kept(d))

(* Records that replay will not see because truncate restarted the LSNs.   *)
Hidden(d) == \E i \in DOMAIN d.wal : d.wal[i].lsn <= d.ckpt

-----------------------------------------------------------------------------
(* Statements.                                                             *)

InTxn(s) == sess[s].txn # 0
Idle(s) == up /\ sess[s].stmt = "none"

(* Transaction::begin: a new id and a Begin record.  Ids restart at 1 with *)
(* the process, so one may already be in the log.                          *)
Begun(d) == [Log(d, d.nextTxn, Control("Begin")) EXCEPT !.nextTxn = @ + 1]

Reuse(d) == IF \E i \in DOMAIN d.wal : d.wal[i].txn = d.nextTxn THEN {"txnReuse"} ELSE {}

BeginAs(s, new) ==
    /\ txns < MaxTxns /\ txns' = txns + 1
    /\ db' = Begun(db)
    /\ sess' = [sess EXCEPT ![s] = [new EXCEPT !.txn = db.nextTxn]]
    /\ damage' = damage \cup Reuse(db)

(* BEGIN.                                                                  *)
Begin(s) ==
    /\ Idle(s) /\ ~InTxn(s)
    /\ BeginAs(s, NewSession)
    /\ UNCHANGED <<up, committed, dirty, writes, stmts, restarts>>

(* INSERT, UPDATE or DELETE: the scan (of UPDATE and DELETE) and           *)
(* begin_write_txn.                                                        *)
StartStatement(s, kind) ==
    LET scan == IF kind = "Insert" THEN <<>> ELSE db.mem.rows
        in(x) == [x EXCEPT !.stmt = kind, !.scan = scan]
    IN  /\ Idle(s) /\ Attempt
        /\ IF InTxn(s)
           THEN sess' = [sess EXCEPT ![s] = in(@)] /\ UNCHANGED <<db, damage, txns>>
           ELSE BeginAs(s, [in(NewSession) EXCEPT !.auto = TRUE])
        /\ UNCHANGED <<up, committed, dirty, writes, restarts>>

(* The session after its statement.                                        *)
Ended(me) == [me EXCEPT !.stmt = "none", !.scan = <<>>]

(* The session after a row: the row is done, and there is an undo record   *)
(* unless the transaction is an auto-commit one.                           *)
RowDone(me, id, undo) ==
    [me EXCEPT !.scan = Without(@, id), !.undo = IF me.auto THEN @ ELSE Append(@, undo)]

MemoryDamage == {"partial", "disconnect"}

(* history: a checkpoint writes what should not be in memory.              *)
Spread == IF damage \cap MemoryDamage # {} THEN {"dirtyFile"} ELSE {}

(* The write itself: log and maybe_checkpoint.  `fails`: the checkpoint    *)
(* that is due fails at its start.  `harm` is history, what the write adds *)
(* to `damage`.                                                            *)
Write(s, e, mem, me, harm, fails) ==
    LET d  == Log(Filed([db EXCEPT !.mem = mem]), me.txn, e)
        saves == CheckpointDue(d) /\ ~fails
        me2 == [me EXCEPT !.pending = Put(@, e.id, e.row.val), !.unrecorded = @ \/ me.auto]
    IN  /\ writes < MaxWrites /\ writes' = writes + 1
        /\ fails => CheckpointDue(d)
        /\ sess' = [sess EXCEPT ![s] = me2]
        /\ db' = IF saves THEN Checkpointed(d) ELSE d
        /\ dirty' = IF paged THEN dirty \cup {s}
                    ELSE IF saves THEN {u \in Sessions : DOMAIN sess'[u].pending # {}} ELSE dirty
        /\ damage' = damage \cup harm \cup (IF saves THEN Spread ELSE {})

(* The write of which the log takes no record: memory, and a mapped file,  *)
(* have it all the same, and keep it when the transaction commits.         *)
Unlogged(s, mem, me, harm) ==
    /\ writes < MaxWrites /\ writes' = writes + 1
    /\ sess' = [sess EXCEPT ![s] = Ended(me)]
    /\ db' = Filed([db EXCEPT !.mem = mem])
    /\ dirty' = IF paged THEN dirty \cup {s} ELSE dirty
    /\ damage' = damage \cup harm \cup (IF paged THEN {"dirtyFile"} ELSE {"partial"})

(* UPDATE and DELETE of a row, whose undo record is there already.         *)
Rewrite(s, e, mem, me, harm) ==
    \/ Write(s, e, mem, me, harm, FALSE) /\ UNCHANGED stmts
    \/ Write(s, e, mem, Ended(me), harm, TRUE) /\ Attempt
    \/ Unlogged(s, mem, me, harm) /\ Attempt

Unwritten(s, me, harm) ==
    /\ sess' = [sess EXCEPT ![s] = me]
    /\ damage' = damage \cup harm
    /\ UNCHANGED <<db, dirty, writes, stmts>>

(* The rows that a session has written or means to put back.               *)
Touched(u) ==
    DOMAIN sess[u].pending \cup {sess[u].undo[i].id : i \in DOMAIN sess[u].undo}

(* history: another open transaction has touched the row, the scan of this *)
(* statement is stale, or the row is one that a transaction has left in    *)
(* memory without committing it.                                           *)
Interference(s, id) ==
    IF \/ \E u \in Sessions \ {s} : id \in Touched(u)
       \/ id \notin DOMAIN db.mem.rows
       \/ db.mem.rows[id] # sess[s].scan[id]
       \/ /\ id \notin DOMAIN sess[s].pending
          /\ id \notin DOMAIN committed \/ committed[id] # db.mem.rows[id].val
    THEN {"interference"} ELSE {}

(* INSERT: storage.insert of one of the rows, and the undo record after    *)
(* it.                                                                     *)
NewRow == [val |-> writes + 1, ver |-> 1]
Inserted == [rows |-> Put(db.mem.rows, db.mem.next, NewRow), next |-> db.mem.next + 1]
InsertOf == [kind |-> "Insert", id |-> db.mem.next, row |-> NewRow]

InsertRow(s) ==
    /\ up /\ sess[s].stmt = "Insert"
    /\ Write(s, InsertOf, Inserted,
             RowDone(sess[s], db.mem.next, UndoOf("Insert", db.mem.next, NoRow)), {}, FALSE)
    /\ UNCHANGED <<up, committed, txns, stmts, restarts>>

(* INSERT: the row is stored, and `?` returns before the undo record is    *)
(* made, in an explicit transaction too: the append fails, before or after *)
(* the log has the record, the checkpoint fails, or the index refuses the  *)
(* row.                                                                    *)
InsertRowFails(s) ==
    LET me == [Ended(sess[s]) EXCEPT !.unrecorded = TRUE]
    IN  /\ up /\ sess[s].stmt = "Insert" /\ Attempt
        /\ \/ \E fails \in BOOLEAN : Write(s, InsertOf, Inserted, me, {}, fails)
           \/ Unlogged(s, Inserted, sess[s], {})
        /\ UNCHANGED <<up, committed, txns, restarts>>

(* UPDATE: under the row lock, the undo record with the row as scanned,    *)
(* then storage.update: a row that is gone is skipped, one whose version   *)
(* has changed ends the statement with VersionConflict.                    *)
UpdateRow(s, id) ==
    LET old == sess[s].scan[id]
        row == [val |-> writes + 1, ver |-> old.ver + 1]
        me  == RowDone(sess[s], id, UndoOf("Update", id, old))
    IN  /\ up /\ sess[s].stmt = "Update" /\ id \in DOMAIN sess[s].scan
        /\ \/ /\ id \notin DOMAIN db.mem.rows
              /\ Unwritten(s, me, Interference(s, id))
           \/ /\ id \in DOMAIN db.mem.rows /\ db.mem.rows[id].ver # old.ver
              /\ Unwritten(s, Ended(me), Interference(s, id))
           \/ /\ id \in DOMAIN db.mem.rows /\ db.mem.rows[id].ver = old.ver
              /\ Rewrite(s, [kind |-> "Update", id |-> id, row |-> row],
                         [db.mem EXCEPT !.rows = Put(@, id, row)], me, Interference(s, id))
        /\ UNCHANGED <<up, committed, txns, restarts>>

(* UPDATE: an assignment does not evaluate or coerce, or NOT NULL fails,   *)
(* after the undo record has been made.                                    *)
UpdateRowFails(s, id) ==
    /\ up /\ sess[s].stmt = "Update" /\ id \in DOMAIN sess[s].scan
    /\ Unwritten(s, Ended(RowDone(sess[s], id, UndoOf("Update", id, sess[s].scan[id]))),
                 Interference(s, id))
    /\ UNCHANGED <<up, committed, txns, restarts>>

(* DELETE: the undo record, then storage.delete, which compares no version *)
(* and logs nothing if the row is gone.                                    *)
DeleteRow(s, id) ==
    LET me == RowDone(sess[s], id, UndoOf("Delete", id, sess[s].scan[id]))
    IN  /\ up /\ sess[s].stmt = "Delete" /\ id \in DOMAIN sess[s].scan
        /\ IF id \in DOMAIN db.mem.rows
           THEN Rewrite(s, [kind |-> "Delete", id |-> id, row |-> NoRow],
                        ApplyDelete(db.mem, id), me, Interference(s, id))
           ELSE Unwritten(s, me, Interference(s, id))
        /\ UNCHANGED <<up, committed, txns, restarts>>

(* history: the committed values when the writes of a transaction join     *)
(* them.                                                                   *)
CommittedWith(pending) ==
    [i \in {i \in DOMAIN committed \cup DOMAIN pending : i \in DOMAIN pending => pending[i] # 0}
        |-> IF i \in DOMAIN pending THEN pending[i] ELSE committed[i]]

(* Transaction::commit.                                                    *)
Commit(s) ==
    /\ db' = Log(db, sess[s].txn, Control("Commit"))
    /\ committed' = CommittedWith(sess[s].pending)
    /\ dirty' = dirty \ {s}
    /\ sess' = [sess EXCEPT ![s] = NewSession]

(* finish_auto_commit_if_needed.                                           *)
EndStatement(s) ==
    /\ up /\ sess[s].stmt # "none"
    /\ IF sess[s].auto
       THEN Commit(s)
       ELSE /\ sess' = [sess EXCEPT ![s] = Ended(@)]
            /\ UNCHANGED <<db, committed, dirty>>
    /\ UNCHANGED <<up, damage, bounds>>

(* A statement fails between two rows, or at its first (a WHERE clause     *)
(* that does not evaluate, an INSERT whose values do not coerce): `?`      *)
(* returns before finish_auto_commit_if_needed, and an implicit            *)
(* transaction stays open with auto_commit set.                            *)
FailStatement(s) ==
    /\ up /\ sess[s].stmt # "none"
    /\ sess' = [sess EXCEPT ![s] = Ended(@)]
    /\ UNCHANGED <<db, up, committed, dirty, damage, bounds>>

(* COMMIT.                                                                 *)
CommitStatement(s) ==
    /\ Idle(s) /\ InTxn(s)
    /\ Commit(s)
    /\ UNCHANGED <<up, damage, bounds>>

(* ROLLBACK: the Abort record, then the undo list, of which nothing is     *)
(* logged.                                                                 *)
Rollback(s) ==
    /\ Idle(s) /\ InTxn(s)
    /\ db' = Filed([Log(db, sess[s].txn, Control("Abort")) EXCEPT !.mem = Rewound(@, sess[s].undo)])
    /\ sess' = [sess EXCEPT ![s] = NewSession]
    /\ dirty' = dirty \ {s}
    /\ damage' = damage \cup (IF s \in dirty /\ (paged => sess[s].unrecorded)
                                  THEN {"dirtyFile"} ELSE {})
                        \cup (IF sess[s].unrecorded THEN {"partial"} ELSE {})
    /\ UNCHANGED <<up, committed, bounds>>

(* The connection ends: the Session is dropped, nothing is rolled back.    *)
(* So it is, for the database, when the append of a COMMIT or ROLLBACK     *)
(* fails: the id is gone, and the session is left with statements that     *)
(* fail and this.                                                          *)
Disconnect(s) ==
    /\ Idle(s) /\ InTxn(s)
    /\ sess' = [sess EXCEPT ![s] = NewSession]
    /\ dirty' = dirty \ {s}
    /\ damage' = damage \cup {"disconnect"}
                        \cup (IF s \in dirty THEN {"dirtyFile"} ELSE {})
    /\ UNCHANGED <<db, up, committed, bounds>>

-----------------------------------------------------------------------------
(* Database::checkpoint, crash, shutdown and open.                         *)

Quiescent == \A s \in Sessions : ~InTxn(s)

(* backup_live checkpoints when no transaction is open.                    *)
BackupCheckpoint ==
    /\ up /\ Quiescent /\ db.wal # <<>>
    /\ db' = Checkpointed(db)
    /\ damage' = damage \cup Spread
    /\ UNCHANGED <<up, sess, committed, dirty, bounds>>

Down(d, lost) ==
    /\ up /\ restarts < MaxRestarts
    /\ up' = FALSE
    /\ restarts' = restarts + 1
    /\ db' = [d EXCEPT !.mem = EmptyTable, !.lsn = 0, !.ops = 0, !.nextTxn = 1]
    /\ sess' = [s \in Sessions |-> NewSession]
    /\ dirty' = {}
    /\ damage' = damage \cup lost
    /\ UNCHANGED <<committed, writes, txns, stmts>>

(* The process is killed.                                                  *)
Crash == Down(db, (IF dirty # {} THEN {"dirtyFile"} ELSE {})
                     \cup (IF Hidden(db) THEN {"hidden"} ELSE {}))

(* The server stops after its drain timeout: a final checkpoint, whatever  *)
(* transactions are open.                                                  *)
Shutdown == Down(Checkpointed(db), IF Quiescent THEN Spread ELSE {"dirtyFile"})

(* Database::open: memory is what recovery makes of the files.             *)
Open ==
    /\ ~up
    /\ up' = TRUE
    /\ db' = Filed([db EXCEPT !.mem = Recovered(db),
                              !.lsn = IF db.wal = <<>> THEN 0 ELSE Last(db.wal).lsn])
    /\ damage' = damage \ MemoryDamage
    /\ UNCHANGED <<sess, committed, dirty, bounds>>

-----------------------------------------------------------------------------
SessionStep(s) ==
    \/ Begin(s)
    \/ \E kind \in DataKinds : StartStatement(s, kind)
    \/ InsertRow(s)
    \/ InsertRowFails(s)
    \/ \E id \in DOMAIN sess[s].scan :
          UpdateRow(s, id) \/ UpdateRowFails(s, id) \/ DeleteRow(s, id)
    \/ EndStatement(s)
    \/ FailStatement(s)
    \/ CommitStatement(s)
    \/ Rollback(s)
    \/ Disconnect(s)

Next ==
    /\ \/ \E s \in Sessions : SessionStep(s)
       \/ BackupCheckpoint
       \/ Crash
       \/ Shutdown
       \/ Open
    /\ UNCHANGED paged

Spec == Init /\ [][Next]_vars

-----------------------------------------------------------------------------
DiskDamage == {"dirtyFile", "hidden", "txnReuse", "interference"}

(* The tables and the log are well formed, a statement runs in a           *)
(* transaction, and row ids stay below next_id.                            *)
TypeOK ==
    /\ DOMAIN db = DOMAIN EmptyDb
    /\ \A t \in {db.mem, db.dat} : \A i \in DOMAIN t.rows :
          i \in 1..(t.next - 1) /\ t.rows[i].val \in 1..MaxWrites /\ t.rows[i].ver \in Nat \ {0}
    /\ \A i \in DOMAIN db.wal : db.wal[i].lsn \in Nat \ {0} /\ db.wal[i].txn \in 1..MaxTxns
    /\ up \in BOOLEAN
    /\ \A s \in Sessions :
          sess[s].auto \/ DOMAIN sess[s].pending # {} \/ sess[s].stmt # "none" => InTxn(s)
    /\ dirty \subseteq Sessions
    /\ damage \subseteq DiskDamage \cup MemoryDamage

(* Crash atomicity: at every moment, in the middle of transactions too,    *)
(* recovery would produce exactly the committed rows.  The exceptions are  *)
(* the ones named: uncommitted rows in the table file, LSNs hidden behind  *)
(* checkpoint.bin, a reused transaction id, and a transaction that meets   *)
(* what another one, open or abandoned, has done to a row.                 *)
CrashAtomicity ==
    damage \cap DiskDamage = {} /\ dirty = {} /\ ~Hidden(db)
        => Values(Recovered(db)) = committed

(* Rollback: taking back what the open transactions recorded for undo      *)
(* leaves the committed rows, whoever wrote what in which order.  The      *)
(* exceptions are a transaction with a row that has no undo record (each   *)
(* row of an auto-commit statement that failed half-way; in any            *)
(* transaction the row whose INSERT failed after storage.insert had it in  *)
(* memory), and the damage named: rows left in memory ("partial": by a     *)
(* transaction that ended so, or by a write that the log did not take;     *)
(* "disconnect"), and what CrashAtomicity names.                           *)
TakenBack(table, s) == Rewound(table, sess[s].undo)

UndoAll == FoldLeft(TakenBack, db.mem, SetToSeq({s \in Sessions : InTxn(s)}))

RollbackRestores ==
    up /\ damage = {} /\ (\A s \in Sessions : ~sess[s].unrecorded)
        => Values(UndoAll) = committed

(* What a crash would leave changes only when a transaction commits or a   *)
(* checkpoint runs; in particular no write, rollback or failed statement   *)
(* of a transaction changes it, and neither does a restart.  Of a paged    *)
(* table a crash leaves the rows of open transactions too, also those that *)
(* the log did not take, and what their undo put back over the rows of     *)
(* others.                                                                 *)
AppendsCommit == Len(db'.wal) > Len(db.wal) /\ Last(db'.wal).op.kind = "Commit"

OnlyCommitChangesRecovery ==
    [][ \/ UNCHANGED <<db.dat, db.wal, db.ckpt>>
        \/ AppendsCommit
        \/ db'.wal = <<>>
        \/ "txnReuse" \in damage'
        \/ paged /\ (dirty \cup dirty' # {} \/ "interference" \in damage)
        \/ Values(Recovered(db')) = Values(Recovered(db)) ]_vars

=============================================================================
