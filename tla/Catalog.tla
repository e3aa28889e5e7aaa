------------------------------ MODULE Catalog ------------------------------
(***************************************************************************)
(* The schema and everything that has to agree with it: the catalog        *)
(* (catalog.rs), the index manager (index.rs), the tables in memory and    *)
(* their files (storage.rs), meta.bin (meta.rs), the log as recovery reads *)
(* it (recovery.rs), and open and persist (engine.rs).                     *)
(*                                                                         *)
(* Sessions send batches of statements.  CREATE TABLE, DROP TABLE and      *)
(* CREATE INDEX hold the DDL lock of their table for several steps, and    *)
(* persist comes after the lock is released; INSERT, UPDATE and DELETE     *)
(* take no DDL lock, and look the schema up one step before they write.    *)
(*                                                                         *)
(* `gen` names the CREATE TABLE that made a schema, and a row carries the  *)
(* gen of the schema it was written under.  DML is auto-committed and the  *)
(* log holds its data records only (Engine has the transactions); a        *)
(* checkpoint is one step (WriteAheadLog takes it apart, and has the .dat  *)
(* file that is cut off in the middle of one).                             *)
(***************************************************************************)
EXTENDS Integers, Sequences, FiniteSets, SequencesExt, Functions

CONSTANTS
    Tables,
    Sessions,
    Interval,    \* CHECKPOINT_INTERVAL, in data records
    MaxStmts,    \* bound on statements
    MaxRestarts  \* bound on kills

ASSUME CatalogAssumption == MaxStmts \in Nat

VARIABLES
    catalog,  \* Catalog.tables: [gen, idx] of each table there is
    indexes,  \* IndexManager.indexes: the names of the indexes of a table
    tables,   \* StorageEngine.tables: [rows, next]
    files,    \* the .dat files
    meta,     \* meta.bin, as load reads it
    torn,     \* meta.bin is cut off, and load fails
    log,      \* [wal, ckpt, lsn]
    up,       \* the database is open
    sess,     \* the batch of each session: see NewBatch
    stale,    \* tables whose last change was never persisted, or was
              \* overwritten by an older snapshot (history)
    damage,   \* what has gone wrong, by name (history)
    stmts, restarts

bounds == <<stmts, restarts>>
vars == <<catalog, indexes, tables, files, meta, torn, log, up, sess, stale, damage, bounds>>

PKey == "pkey"   \* the name {table}_pkey
IndexNames == {PKey, "idx"}

EmptyTable == [rows |-> <<>>, next |-> 1]
NoRow == [gen |-> 0, ver |-> 0]

(* A session: where it is (pc), the statement (table, gen, index, row id   *)
(* and row as scanned), whether this is a second statement of the batch,   *)
(* the meta_changed of its last result, and persist's snapshot.  `touched` *)
(* and `old` are history: the tables the batch has changed, and those that *)
(* changed after persist read them.                                        *)
NewBatch ==
    [pc |-> "idle", table |-> "", gen |-> 0, index |-> "", id |-> 0, row |-> NoRow,
     kind |-> "", many |-> FALSE, last |-> FALSE, read |-> {}, snap |-> <<>>,
     touched |-> {}, old |-> {}]

Init ==
    /\ catalog = <<>> /\ indexes = <<>> /\ tables = <<>> /\ files = <<>>
    /\ meta = <<>> /\ torn = FALSE
    /\ log = [wal |-> <<>>, ckpt |-> 0, lsn |-> 0]
    /\ up = TRUE
    /\ sess = [s \in Sessions |-> NewBatch]
    /\ stale = {} /\ damage = {}
    /\ stmts = 0 /\ restarts = 0

-----------------------------------------------------------------------------
Put(f, k, v) == [x \in DOMAIN f \cup {k} |-> IF x = k THEN v ELSE f[x]]
Without(f, k) == Restrict(f, DOMAIN f \ {k})
OrInsert(f, k, v) == IF k \in DOMAIN f THEN f ELSE Put(f, k, v)

NamesOf(t) == IF t \in DOMAIN indexes THEN indexes[t] ELSE {}

(* The DDL lock of a table is held from a DDL statement's first step to    *)
(* its last.                                                               *)
DdlSteps == {"ensure", "create", "add", "dropMem", "dropFile", "dropIdx"}
Locked(t) == \E s \in Sessions : sess[s].pc \in DdlSteps /\ sess[s].table = t

Ready(s) == up /\ sess[s].pc \in {"idle", "more"}

(* The session begins a statement of its batch.                            *)
Statement(s, pc, t) ==
    [sess[s] EXCEPT !.pc = pc, !.table = t, !.many = (sess[s].pc = "more")]

(* A statement changes the catalog entry of t.                             *)
Touch(s, t, me) ==
    sess' = [u \in Sessions |->
                IF u = s THEN [me EXCEPT !.touched = @ \cup {t}]
                ELSE IF t \in sess[u].read THEN [sess[u] EXCEPT !.old = @ \cup {t}]
                ELSE sess[u]]

(* The statement returns Ok; QueryResult::ddl sets meta_changed.           *)
Done(s, changed) ==
    [NewBatch EXCEPT !.pc = "more", !.last = changed, !.many = sess[s].many,
                     !.touched = sess[s].touched]

(* A statement fails: execute returns at `?`, and nothing is persisted.    *)
Fails(s) ==
    /\ sess' = [sess EXCEPT ![s] = NewBatch]
    /\ stale' = stale \cup sess[s].touched

-----------------------------------------------------------------------------
(* CREATE TABLE, with or without a primary key.                            *)

CreateTable(s, t, index) ==
    /\ Ready(s) /\ ~Locked(t) /\ stmts < MaxStmts /\ stmts' = stmts + 1
    /\ IF t \in DOMAIN catalog
       THEN Fails(s) /\ UNCHANGED catalog
       ELSE /\ catalog' = Put(catalog, t, [gen |-> stmts + 1, idx |-> {}])
            /\ Touch(s, t, [Statement(s, "ensure", t) EXCEPT !.index = index])
            /\ UNCHANGED stale
    /\ UNCHANGED <<indexes, tables, files, meta, torn, log, up, damage, restarts>>

(* storage.ensure_table, which keeps the rows it finds.                    *)
EnsureTable(s) ==
    /\ up /\ sess[s].pc = "ensure"
    /\ tables' = OrInsert(tables, sess[s].table, EmptyTable)
    /\ sess' = [sess EXCEPT ![s] = IF sess[s].index = "" THEN Done(s, TRUE)
                                   ELSE [@ EXCEPT !.pc = "create"]]
    /\ UNCHANGED <<catalog, indexes, files, meta, torn, log, up, stale, damage, bounds>>

(* indexes.create_index: of the primary key, or of CREATE INDEX.           *)
CreateIndexTree(s) ==
    LET t == sess[s].table
    IN  /\ up /\ sess[s].pc = "create"
        /\ IF sess[s].index \in NamesOf(t)
           THEN Fails(s) /\ UNCHANGED indexes
           ELSE /\ indexes' = Put(indexes, t, NamesOf(t) \cup {sess[s].index})
                /\ sess' = [sess EXCEPT ![s].pc = "add"]
                /\ UNCHANGED stale
        /\ UNCHANGED <<catalog, tables, files, meta, torn, log, up, damage, bounds>>

(* catalog.add_index.                                                      *)
AddIndexUnflagged(s) ==
    LET t == sess[s].table
    IN  /\ up /\ sess[s].pc = "add"
        /\ catalog' = [catalog EXCEPT ![t].idx = @ \cup {sess[s].index}]
        /\ Touch(s, t, Done(s, FALSE))
        /\ UNCHANGED <<indexes, tables, files, meta, torn, log, up, stale, damage, bounds>>

AddIndex(s) ==
    LET t == sess[s].table
    IN  /\ up /\ sess[s].pc = "add"
        /\ IF sess[s].index \in catalog[t].idx
           THEN Fails(s) /\ UNCHANGED catalog
           ELSE /\ catalog' = [catalog EXCEPT ![t].idx = @ \cup {sess[s].index}]
                /\ Touch(s, t, Done(s, TRUE))
                /\ UNCHANGED stale
        /\ UNCHANGED <<indexes, tables, files, meta, torn, log, up, damage, bounds>>

(* CREATE INDEX: get_table and the build from a scan, which may find a     *)
(* column that does not exist or a duplicate key.                          *)
CreateIndex(s, t) ==
    /\ Ready(s) /\ ~Locked(t) /\ stmts < MaxStmts /\ stmts' = stmts + 1
    /\ \/ Fails(s)
       \/ /\ t \in DOMAIN catalog
          /\ sess' = [sess EXCEPT ![s] = [Statement(s, "create", t) EXCEPT !.index = "idx"]]
          /\ UNCHANGED stale
    /\ UNCHANGED <<catalog, indexes, tables, files, meta, torn, log, up, damage, restarts>>

-----------------------------------------------------------------------------
(* DROP TABLE.                                                             *)

Logged(t) == \E i \in DOMAIN log.wal : log.wal[i].table = t
InFlight(t) == \E s \in Sessions : sess[s].pc = "writeRow" /\ sess[s].table = t

(* catalog.drop_table.  history: a DML statement has looked this schema up *)
(* and has not written yet, or the log holds records of the table, which   *)
(* no record will take back.                                               *)
DropTable(s, t) ==
    /\ Ready(s) /\ ~Locked(t) /\ stmts < MaxStmts /\ stmts' = stmts + 1
    /\ IF t \notin DOMAIN catalog
       THEN Fails(s) /\ UNCHANGED <<catalog, damage>>
       ELSE /\ catalog' = Without(catalog, t)
            /\ Touch(s, t, Statement(s, "dropMem", t))
            /\ damage' = damage \cup (IF InFlight(t) THEN {"overtaken"} ELSE {})
                                \cup (IF Logged(t) THEN {"logged"} ELSE {})
            /\ UNCHANGED stale
    /\ UNCHANGED <<indexes, tables, files, meta, torn, log, up, restarts>>

(* storage.drop_table: the table goes, then its file, which may fail.      *)
DropFromMemoryKept(s) ==
    /\ up /\ sess[s].pc = "dropMem"
    /\ sess' = [sess EXCEPT ![s].pc = "dropFile"]
    /\ UNCHANGED <<catalog, indexes, tables, files, meta, torn, log, up, stale, damage, bounds>>

DropFromMemory(s) ==
    /\ up /\ sess[s].pc = "dropMem"
    /\ tables' = Without(tables, sess[s].table)
    /\ sess' = [sess EXCEPT ![s].pc = "dropFile"]
    /\ UNCHANGED <<catalog, indexes, files, meta, torn, log, up, stale, damage, bounds>>

DropFile(s) ==
    /\ up /\ sess[s].pc = "dropFile"
    /\ \/ /\ files' = Without(files, sess[s].table)
          /\ sess' = [sess EXCEPT ![s].pc = "dropIdx"]
          /\ UNCHANGED <<stale, damage>>
       \/ /\ sess[s].table \in DOMAIN files
          /\ Fails(s)
          /\ damage' = damage \cup {"fileLeft", "indexesLeft"}
          /\ UNCHANGED files
    /\ UNCHANGED <<catalog, indexes, tables, meta, torn, log, up, bounds>>

(* indexes.drop_table.                                                     *)
DropIndexesKept(s) ==
    /\ up /\ sess[s].pc = "dropIdx"
    /\ sess' = [sess EXCEPT ![s] = Done(s, TRUE)]
    /\ UNCHANGED <<catalog, indexes, tables, files, meta, torn, log, up, stale, damage, bounds>>

DropIndexes(s) ==
    /\ up /\ sess[s].pc = "dropIdx"
    /\ indexes' = Without(indexes, sess[s].table)
    /\ sess' = [sess EXCEPT ![s] = Done(s, TRUE)]
    /\ UNCHANGED <<catalog, tables, files, meta, torn, log, up, stale, damage, bounds>>

-----------------------------------------------------------------------------
(* The end of a batch, and persist.                                        *)

(* execute_session looks at the last result only.                          *)
EndBatch(s) ==
    /\ up /\ sess[s].pc = "more"
    /\ IF sess[s].last
       THEN sess' = [sess EXCEPT ![s].pc = "snapshot"] /\ UNCHANGED stale
       ELSE /\ sess' = [sess EXCEPT ![s] = NewBatch]
            /\ stale' = stale \cup (IF sess[s].many THEN sess[s].touched ELSE {})
    /\ UNCHANGED <<catalog, indexes, tables, files, meta, torn, log, up, damage, bounds>>

(* Catalog::snapshot iterates over a map that others change meanwhile.     *)
SnapshotTable(s, t) ==
    /\ up /\ sess[s].pc = "snapshot" /\ t \notin sess[s].read
    /\ LET read == sess[s].read \cup {t}
       IN  sess' = [sess EXCEPT ![s].read = read,
                                ![s].snap = IF t \in DOMAIN catalog THEN Put(@, t, catalog[t]) ELSE @,
                                ![s].pc = IF read = Tables THEN "open" ELSE @]
    /\ UNCHANGED <<catalog, indexes, tables, files, meta, torn, log, up, stale, damage, bounds>>

(* MetaStore::save opens meta.bin with truncate(true), or fails to.        *)
OpenMeta(s) ==
    /\ up /\ sess[s].pc = "open"
    /\ \/ /\ meta' = <<>> /\ torn' = FALSE
          /\ sess' = [sess EXCEPT ![s].pc = "write"]
          /\ UNCHANGED stale
       \/ Fails(s) /\ UNCHANGED <<meta, torn>>
    /\ UNCHANGED <<catalog, indexes, tables, files, log, up, damage, bounds>>

Truncated == \E s \in Sessions : sess[s].pc = "write"
TouchedBy(S) == UNION {sess[s].touched : s \in S}

(* write_all and sync_all.  Writers start at offset 0 and bincode ignores  *)
(* what follows, so the last one's bytes are what load reads.  history: a  *)
(* table that changed after it was read is stale, unless its changer has   *)
(* still to persist.                                                       *)
WriteMeta(s) ==
    /\ up /\ sess[s].pc = "write"
    /\ meta' = sess[s].snap /\ torn' = FALSE
    /\ sess' = [sess EXCEPT ![s] = NewBatch]
    /\ stale' = sess[s].old \ TouchedBy(Sessions \ {s})
    /\ UNCHANGED <<catalog, indexes, tables, files, log, up, damage, bounds>>

(* The write fails, before the first byte or half way.  (When only         *)
(* sync_all fails, the file is as after WriteMeta.)                        *)
WriteMetaFails(s) ==
    /\ up /\ sess[s].pc = "write"
    /\ torn' \in {torn, TRUE}
    /\ sess' = [sess EXCEPT ![s] = NewBatch]
    /\ stale' = Tables
    /\ UNCHANGED <<catalog, indexes, tables, files, meta, log, up, damage, bounds>>

-----------------------------------------------------------------------------
(* INSERT, UPDATE and DELETE.                                              *)

Rows(t) == IF t \in DOMAIN tables THEN tables[t].rows ELSE <<>>

(* get_table; of UPDATE and DELETE also the scan.                          *)
StartInsert(s, t) ==
    /\ Ready(s) /\ stmts < MaxStmts /\ stmts' = stmts + 1
    /\ t \in DOMAIN catalog
    /\ sess' = [sess EXCEPT ![s] =
                   [Statement(s, "writeRow", t) EXCEPT !.kind = "Insert", !.gen = catalog[t].gen]]
    /\ UNCHANGED <<catalog, indexes, tables, files, meta, torn, log, up, stale, damage, restarts>>

StartScan(s, t, kind, id) ==
    /\ Ready(s) /\ stmts < MaxStmts /\ stmts' = stmts + 1
    /\ t \in DOMAIN catalog /\ id \in DOMAIN Rows(t)
    /\ sess' = [sess EXCEPT ![s] =
                   [Statement(s, "writeRow", t) EXCEPT !.kind = kind, !.gen = catalog[t].gen,
                                                        !.id = id, !.row = Rows(t)[id]]]
    /\ UNCHANGED <<catalog, indexes, tables, files, meta, torn, log, up, stale, damage, restarts>>

Missing(s, t) ==
    /\ Ready(s) /\ t \notin DOMAIN catalog /\ sess[s].pc = "more"
    /\ Fails(s)
    /\ UNCHANGED <<catalog, indexes, tables, files, meta, torn, log, up, damage, bounds>>

Record(t, kind, id, row) == [lsn |-> log.lsn + 1, table |-> t, kind |-> kind, id |-> id, row |-> row]

(* recovery::checkpoint of the tables given.                               *)
Checkpoint(memory, l) ==
    /\ files' = [t \in DOMAIN memory \cup DOMAIN files |->
                    IF t \in DOMAIN memory THEN memory[t] ELSE files[t]]
    /\ log' = [wal |-> <<>>, ckpt |-> l.lsn, lsn |-> 0]

(* The write, its record and maybe_checkpoint.  A checkpoint leaves no     *)
(* record of a dropped table behind.                                       *)
Write(s, memory, r) ==
    LET l == [log EXCEPT !.lsn = @ + 1, !.wal = Append(@, r)]
    IN  /\ tables' = memory
        /\ sess' = [sess EXCEPT ![s] = Done(s, FALSE)]
        /\ IF Len(l.wal) >= Interval
           THEN Checkpoint(memory, l) /\ damage' = damage \ {"logged"}
           ELSE log' = l /\ UNCHANGED <<files, damage>>
        /\ UNCHANGED stale

(* storage.insert creates the table if it is not there.                    *)
InsertRow(s) ==
    LET t   == sess[s].table
        old == IF t \in DOMAIN tables THEN tables[t] ELSE EmptyTable
        row == [gen |-> sess[s].gen, ver |-> 1]
    IN  /\ up /\ sess[s].pc = "writeRow" /\ sess[s].kind = "Insert"
        /\ Write(s, Put(tables, t, [rows |-> Put(old.rows, old.next, row), next |-> old.next + 1]),
                 Record(t, "Insert", old.next, row))
        /\ UNCHANGED <<catalog, indexes, meta, torn, up, bounds>>

(* storage.update: a table that is gone is an error, and so is another     *)
(* version; a row that is gone is skipped.                                 *)
UpdateRow(s) ==
    LET t   == sess[s].table
        id  == sess[s].id
        row == [gen |-> sess[s].gen, ver |-> sess[s].row.ver + 1]
    IN  /\ up /\ sess[s].pc = "writeRow" /\ sess[s].kind = "Update"
        /\ \/ /\ t \notin DOMAIN tables \/ (id \in DOMAIN Rows(t) /\ Rows(t)[id].ver # sess[s].row.ver)
              /\ Fails(s)
              /\ UNCHANGED <<tables, files, log, damage>>
           \/ /\ t \in DOMAIN tables /\ id \notin DOMAIN Rows(t)
              /\ sess' = [sess EXCEPT ![s] = Done(s, FALSE)]
              /\ UNCHANGED <<tables, files, log, stale, damage>>
           \/ /\ id \in DOMAIN Rows(t) /\ Rows(t)[id].ver = sess[s].row.ver
              /\ Write(s, [tables EXCEPT ![t].rows = Put(@, id, row)], Record(t, "Update", id, row))
        /\ UNCHANGED <<catalog, indexes, meta, torn, up, bounds>>

(* storage.delete.                                                         *)
DeleteRow(s) ==
    LET t  == sess[s].table
        id == sess[s].id
    IN  /\ up /\ sess[s].pc = "writeRow" /\ sess[s].kind = "Delete"
        /\ \/ /\ t \notin DOMAIN tables
              /\ Fails(s)
              /\ UNCHANGED <<tables, files, log, damage>>
           \/ /\ t \in DOMAIN tables /\ id \notin DOMAIN Rows(t)
              /\ sess' = [sess EXCEPT ![s] = Done(s, FALSE)]
              /\ UNCHANGED <<tables, files, log, stale, damage>>
           \/ /\ id \in DOMAIN Rows(t)
              /\ Write(s, [tables EXCEPT ![t].rows = Without(@, id)], Record(t, "Delete", id, NoRow))
        /\ UNCHANGED <<catalog, indexes, meta, torn, up, bounds>>

-----------------------------------------------------------------------------
(* backup_live checkpoints too.  It waits for the write transactions, but  *)
(* neither DDL nor a DML statement that has only looked up keeps it out.   *)
BackupCheckpoint ==
    /\ up /\ log.wal # <<>>
    /\ Checkpoint(tables, log)
    /\ damage' = damage \ {"logged"}
    /\ UNCHANGED <<catalog, indexes, tables, meta, torn, up, sess, stale, bounds>>

(* The process is killed, perhaps in the middle of a write_all of save.    *)
(* history: before a schema change was persisted.                          *)
Kill ==
    /\ up /\ restarts < MaxRestarts /\ restarts' = restarts + 1
    /\ up' = FALSE
    /\ torn' \in {torn, Truncated \/ torn}
    /\ catalog' = <<>> /\ indexes' = <<>> /\ tables' = <<>>
    /\ sess' = [s \in Sessions |-> NewBatch]
    /\ damage' = damage \cup (IF Truncated \/ stale \cup TouchedBy(Sessions) # {}
                             THEN {"unsaved"} ELSE {})
    /\ UNCHANGED <<files, meta, log, stale, stmts>>

(* replay_wal.                                                             *)

ApplyInsertStale(T, r) ==
    LET old == IF r.table \in DOMAIN T THEN T[r.table] ELSE EmptyTable
    IN  Put(T, r.table, [old EXCEPT !.rows = Put(@, r.id, r.row)])

ApplyInsert(T, r) ==
    LET old == IF r.table \in DOMAIN T THEN T[r.table] ELSE EmptyTable
    IN  Put(T, r.table, [rows |-> Put(old.rows, r.id, r.row),
                         next |-> IF r.id >= old.next THEN r.id + 1 ELSE old.next])

ApplyUpdate(T, r) ==
    IF r.id \in DOMAIN T[r.table].rows
    THEN [T EXCEPT ![r.table].rows[r.id] = [r.row EXCEPT !.ver = T[r.table].rows[r.id].ver + 1]]
    ELSE T

ApplyDelete(T, r) == [T EXCEPT ![r.table].rows = Without(@, r.id)]

(* apply_wal_op: an Update or Delete of a table that is not there fails.   *)
Apply(T, r) ==
    CASE T.failed -> T
      [] ~T.failed /\ r.kind = "Insert" -> [T EXCEPT !.tables = ApplyInsert(@, r)]
      [] ~T.failed /\ r.kind # "Insert" /\ r.table \notin DOMAIN T.tables -> [T EXCEPT !.failed = TRUE]
      [] ~T.failed /\ r.kind = "Update" /\ r.table \in DOMAIN T.tables ->
            [T EXCEPT !.tables = ApplyUpdate(@, r)]
      [] ~T.failed /\ r.kind = "Delete" /\ r.table \in DOMAIN T.tables ->
            [T EXCEPT !.tables = ApplyDelete(@, r)]

(* replay_since keeps the records after the checkpoint's LSN.              *)
Replay(T, r) == IF r.lsn > log.ckpt THEN Apply(T, r) ELSE T

(* The table files, ensure_table for every schema loaded, the log.         *)
LoadedKnown == [t \in DOMAIN meta |-> IF t \in DOMAIN files THEN files[t] ELSE EmptyTable]

Loaded == [t \in DOMAIN files \cup DOMAIN meta |-> IF t \in DOMAIN files THEN files[t] ELSE EmptyTable]

Recovered == FoldLeft(Replay, [tables |-> Loaded, failed |-> FALSE], log.wal)

(* Database::open.  It fails if load or replay fails, and then stays down. *)
Open ==
    /\ ~up /\ ~torn /\ ~Recovered.failed
    /\ up' = TRUE
    /\ catalog' = meta
    /\ tables' = Recovered.tables
    /\ indexes' = [t \in {t \in DOMAIN meta : meta[t].idx # {}} |-> meta[t].idx]
    /\ log' = [log EXCEPT !.lsn = IF log.wal = <<>> THEN 0 ELSE Last(log.wal).lsn]
    /\ stale' = {}
    /\ damage' = (damage \ {"indexesLeft"}) \cup (IF "logged" \in damage THEN {"replayed"} ELSE {})
    /\ UNCHANGED <<files, meta, torn, sess, bounds>>

-----------------------------------------------------------------------------
DdlStep(s) ==
    \/ \E t \in Tables : \E index \in {"", PKey} : CreateTable(s, t, index)
    \/ \E t \in Tables : CreateIndex(s, t) \/ DropTable(s, t)
    \/ EnsureTable(s) \/ CreateIndexTree(s) \/ AddIndex(s)
    \/ DropFromMemory(s) \/ DropFile(s) \/ DropIndexes(s)

PersistStep(s) ==
    \/ EndBatch(s)
    \/ \E t \in Tables : SnapshotTable(s, t)
    \/ OpenMeta(s) \/ WriteMeta(s) \/ WriteMetaFails(s)

DmlStep(s) ==
    \/ \E t \in Tables : StartInsert(s, t) \/ Missing(s, t)
    \/ \E t \in Tables : \E id \in DOMAIN Rows(t) : \E kind \in {"Update", "Delete"} :
          StartScan(s, t, kind, id)
    \/ InsertRow(s) \/ UpdateRow(s) \/ DeleteRow(s)

Next ==
    \/ \E s \in Sessions : DdlStep(s) \/ PersistStep(s) \/ DmlStep(s)
    \/ BackupCheckpoint \/ Kill \/ Open

Spec == Init /\ [][Next]_vars

-----------------------------------------------------------------------------
(* Schemas, rows, log records and batches are well formed, and a row's id  *)
(* is below its table's next_id.                                           *)
Schemas == [gen : 1..MaxStmts, idx : SUBSET IndexNames]

TypeOK ==
    /\ \A f \in {catalog, meta} : DOMAIN f \subseteq Tables /\ Range(f) \subseteq Schemas
    /\ \A f \in {tables, files} : \A t \in DOMAIN f : \A id \in DOMAIN f[t].rows :
          id < f[t].next /\ f[t].rows[id] \in [gen : 1..MaxStmts, ver : Nat \ {0}]
    /\ DOMAIN indexes \subseteq Tables /\ Range(indexes) \subseteq SUBSET IndexNames
    /\ \A i \in DOMAIN log.wal : log.wal[i].table \in Tables /\ log.wal[i].lsn \in Nat \ {0}
    /\ \A s \in Sessions : sess[s].touched \cup sess[s].read \cup sess[s].old \subseteq Tables
    /\ stale \subseteq Tables /\ torn \in BOOLEAN
    /\ damage \subseteq {"overtaken", "logged", "replayed", "unsaved", "fileLeft", "indexesLeft"}

(* Whenever the process may be killed, in the middle of other sessions'    *)
(* DDL and persists too, meta.bin holds exactly the schemas of the catalog *)
(* that no unfinished batch has changed.  The exceptions: while persist    *)
(* has meta.bin truncated, and the tables whose change was not persisted   *)
(* (a batch that went on or failed after the change, a save that failed)   *)
(* or was overwritten by a snapshot older than it.                         *)
MetaCurrent ==
    up /\ ~Truncated =>
        \A t \in Tables \ (stale \cup TouchedBy(Sessions)) :
            Restrict(meta, DOMAIN meta \cap {t}) = Restrict(catalog, DOMAIN catalog \cap {t})

(* A table's rows were written under the schema the catalog has for it,    *)
(* across drops, re-creations and restarts; a CREATE TABLE finds no rows.  *)
(* The exceptions: a DROP TABLE between a DML statement's lookup and its   *)
(* write, one of a table whose records are in the log at the next restart, *)
(* one that left the file, and a kill before a change was persisted.       *)
RowsBelong ==
    damage \cap {"overtaken", "replayed", "fileLeft", "unsaved"} = {} =>
        \A t \in DOMAIN catalog : ~Locked(t) =>
            \A id \in DOMAIN Rows(t) : Rows(t)[id].gen = catalog[t].gen

(* The index manager, which plans and lookups use, and the catalog, which  *)
(* a restart rebuilds it from, name the same indexes of every table that   *)
(* no DDL statement is working on, unless a DROP TABLE failed on the file. *)
IndexesMatch ==
    up /\ "indexesLeft" \notin damage =>
        \A t \in Tables : ~Locked(t) =>
            NamesOf(t) = IF t \in DOMAIN catalog THEN catalog[t].idx ELSE {}

(* Wherever it is killed, the database opens again: replay finds the table *)
(* of every record, whatever meta.bin holds.  The exceptions: a checkpoint *)
(* has run, so that the log may hold a table's updates and not its         *)
(* inserts, and the table is neither in meta.bin nor in a file, because it *)
(* was dropped or was never persisted; and meta.bin is cut off.  That it   *)
(* is only after a save that failed half way, until the next one begins,   *)
(* and after a kill in the middle of a save.  (A kill in the middle of a   *)
(* checkpoint, which is one step here, may cut off a .dat file as well:    *)
(* `corrupt` in WriteAheadLog.)                                            *)
Orphaned ==
    /\ log.ckpt # 0
    /\ \E i \in DOMAIN log.wal : log.wal[i].table \notin DOMAIN meta \cup DOMAIN files

Reopens ==
    /\ ~Orphaned /\ ~torn => ~Recovered.failed
    /\ torn => stale = Tables \/ (~up /\ "unsaved" \in damage)
=============================================================================
