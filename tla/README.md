# MoodengSQL: TLA+ models and proofs

## 1. Inventory of the system

MoodengSQL is a single-node SQL engine (`moodeng-core`), a PostgreSQL-wire server
(`moodeng-server`) and a client (`moodeng-cli`). All durable state lives in one
data directory: `wal.log`, `checkpoint.bin`, `meta.bin`, and one `<table>.dat`
(memory backend) or `<table>.pages` (paged backend) per table.

| Component (source) | State | Operations | Interacts with | Hard behaviour | What makes it correct |
|---|---|---|---|---|---|
| Write-ahead log (`wal.rs`) | the file, `lsn`, `next_txn_id`, `ops_since_checkpoint`, `unsynced_writes`, `checkpoint_lsn` read at open | `open`, `append`, `flush`, `mark_checkpoint`, `truncate`, `replay_since`, `alloc_txn_id` | storage, recovery | LSN taken under one lock and the record written under another; crash between writes; torn tail; counters restarted at open | LSNs distinct; every acknowledged record is in the table files or will be replayed; few records unsynced |
| Recovery (`recovery.rs`) | none | `replay_wal` (two passes), `apply_wal_op`, `checkpoint` | WAL, storage | grouping by transaction id across restarts | exactly the committed transactions come back |
| Storage (`storage.rs`) | table map, `next_id` per table | `insert/update/delete`, `apply_*`, `persist_table`, `checkpoint_all`, `maybe_checkpoint`, `drop_table`, `load_all` | WAL (memory first, log second), recovery | checkpoint in the middle of a transaction or of another thread's write; non-atomic file rewrite | memory, files and log agree |
| Page table (`page_table.rs`) | mmap, LRU cache, `next_id`, `page_count` | `insert/get/update/delete/scan`, `grow_if_needed`, `flush_all`, `import_rows` | storage | cache at its bound; growth remaps | behaves as a map from row ids to rows; cache never stale, never over its bound |
| Transactions (`transaction.rs`) | `active`, `txn_id`, undo list, `auto_commit` | `begin/commit/rollback/record`, `apply_undo` | WAL, storage, indexes | undo not logged; undo after another session wrote the row; statement that fails half way | rollback restores; commit is all or nothing |
| Row and DDL locks (`lock.rs`) | map from row to lock object, reference counts | `row_lock`, `write`, guard drop with eviction, `ddl_lock_for` | executor | eviction races a new user of the entry | one writer per row; the map does not grow |
| Executor (`executor.rs`) | session, backup read guard | one method per statement | everything above | early `?` returns between two state changes; scan taken before the lock | no lost update; index agrees with table |
| Indexes (`index.rs`) | one ordered map per index | `insert_row/remove_row/lookup/create_index/rebuild_all` | executor, recovery | several indexes, one of which refuses | index agrees with table; unique means unique |
| Catalog and metadata (`catalog.rs`, `meta.rs`, `engine.rs`) | schemas, `meta.bin` | `create_table/drop_table/add_index`, `persist`, `load` | storage, indexes | DDL not logged; two `persist` calls race; file rewritten in place | reopening finds the schemas the data needs |
| Backup (`backup.rs`, `engine.rs`) | `backup_lock`, `active_write_txns` | `backup_live`, `backup`, `restore`, `wait_for_write_txns` | executor, checkpoint | busy wait under an exclusive lock; counter leaked by errors and disconnects | archive holds whole transactions; backup ends |
| Server (`main.rs`, `metrics.rs`) | semaphore, counters | accept, reject, shutdown, drain, final checkpoint | wire session, engine | task accepted but not yet counted when the drain looks | at most `max_connections`; drain sees every client |
| Wire session (`protocol.rs`, `session.rs`) | `prepared`, `portal_params`, `last_statement`, `in_error` | TLS negotiation, authentication, `Q/P/B/E/S/X` | engine | pipelined messages, errors between Parse and Sync, disconnect inside a transaction | ready status tells the truth; no session before authentication |
| Authentication (`auth.rs`, `scram.rs`, `tls.rs`) | credentials | cleartext and SCRAM exchanges | wire session | order of messages | only a verified client reaches a session |
| Query evaluation (`parser.rs`, `planner.rs`, `query_util.rs`, `types.rs`) | none | expression evaluation, plan choice, sort, group, limit, projection, parameter substitution | executor | grouped rows projected with base-table columns; width of integers | an index scan returns what a full scan returns |
| CLI, configuration, logging, metrics text | - | formatting and I/O | - | - | not modelled |

## 2. Plan

Order of work, most important behaviour first.

Done, in this order:

1. `WriteAheadLog`: durability, the promise everything else rests on.
2. `Engine`: transactions against each other and against crashes, on both
   backends.
3. `RowLocks`: the row locks and the version check.
4. `BackupGate`: live backup against write transactions.
5. `IndexedTable`: table and indexes under the write statements.
6. `PageTable`: the paged backend, and `RowMap`, what a table promises, which it
   implements.
7. `Server`: connections, shutdown, final checkpoint.
8. `Catalog`: DDL against `meta.bin`, the table files, the log and other
   sessions.
9. `WireSession`: negotiation, authentication and the message loop.
10. `Queries`: literals, expressions, plans, sort, limit and groups.

Proved, in this order: the log, the row locks, the server; then the backup gate,
the table with its indexes, the wire session, the paged file with its refinement
of `RowMap`, and the catalog against `meta.bin` and the index manager; then what
depends on a replay or another fold: the rest of the catalog, the engine,
parameter substitution in the wire session, and the queries with their index,
sort, pages and groups (section 5).

Every invariant that a run checks is proved; what is left to TLC is liveness.

## 3. Modules, state and actions

Each component module has its state as VARIABLES, one action per operation or
step, and history variables marked as such. `MC*` modules only extend a
component and add symmetry sets. Definitions whose names extend that of the
definition that follows them (`SyncDueLate`, `DropIndexesKept`, `RefusingNone`, ...)
are deliberately wrong variants of it, one for each property; they are not part
of any specification.

**`WriteAheadLog`** - `append` is taken apart at every lock and every
`write_all`: `Start` (memory first), `Alloc` (LSN mutex), `WriteHeader`,
`WriteBody` (file mutex, sync batch, counters), with `WriteFails` and `SyncFails`
as its error returns. `MaybeCheckpoint` and `StartCheckpoint` enter the steps of
`recovery::checkpoint`: `PersistOpen`, `PersistWrite`, `ReadLsn`, `Flush`,
`MarkOpen`, `MarkWrite`, `Flush`, `Truncate`, `ResetLsn`. Any may fail before it
takes effect (`CheckpointFails`), and the three that end in an fsync also after it
(`PersistSyncFails`, `MarkSyncFails`, `TruncateSyncFails`).
`ProcessKilled` keeps what was written, `PowerLoss` keeps a prefix of the
unsynced records, the last perhaps torn; `Open` reads the LSN, loads the table
file and replays. Records are opaque operations, `whole` or `torn`.

**`Engine`** - one table, in memory or paged (`paged`, chosen at the start: the
mapped file of a paged table follows every write, `Filed`), the log as recovery
reads it, sessions with undo lists. A row write (memory, append, maybe
checkpoint) is one step, a statement is its scan, a step per row and its end.
The write may come to an error after each of its parts: the log takes no record
(`Unlogged`), or it does and the checkpoint fails (`Write` with `fails`). UPDATE and
DELETE have made their undo record by then (`Rewrite`); INSERT has not, in an
explicit transaction either (`InsertRowFails`, which is also an index that refuses
the row).
`Outcome`/`Winners` and `Kept`/`Apply`/`Recovered` are the two passes of
`replay_wal`. What a transaction has written so far, by row, is kept as history
(`pending`) and joins `committed` when it commits. `FailStatement` is every `?` in a row loop,
`Disconnect` the end of a connection in a transaction, and what a COMMIT or
ROLLBACK whose append fails comes to; `Crash` and `Shutdown` + `Open` are the
restarts.

**`RowLocks`** - the lock map, lock objects with holders, handles with
reference counts, and for each thread the visit of one row: scan, `RowLock`,
`Acquire`, change with the version check, then the four steps of dropping guard
and handle. Lock objects are numbered in the order of their creation.

**`BackupGate`** - `active_write_txns` and `backup_lock` (with a waiting writer
keeping readers out), each session's `active`/`txn_id`/`auto_commit` and every
error return of begin, commit, rollback and the write statements; `backup_live`
as wait, lock, wait, checkpoint, archive, unlock.

**`IndexedTable`** - the table and its indexes as two separately locked
structures; a row value is the key it has in each index. Statements visit one
row: INSERT is `Store`, `Index`; UPDATE and DO UPDATE are `Unindex`, `Write`,
`Reindex`, with `EvalFails` between; DELETE is `Unindex`, `Erase`; ROLLBACK is one
`UndoStep` per record; CREATE INDEX is `BuildIndex`, `AddIndex`; `Close` and `Open` the
restart with `rebuild_all`. `insert_row` iterates a hash map, so a refusal may
come after any subset of the other indexes. `hurt` (history) names the rows
whose own statement failed or was overtaken.

**`PageTable`** - header, page slots and `.dat` file on disk; `next_id`,
`page_count` and the LRU cache in memory. Operations run under the table's mutex
in the steps a kill can separate: `Grow` (which writes the header), `ZeroPage`,
`FillPage` (slot and cache), `EndInsert` (header); growth may fail (`GrowFails`),
as may the decoding of a page and a page that has no room. `Open` with
`ImportRow`, `ImportEnd`, `RemoveDat` is `load_table`. `InsertAtZero` is the first
INSERT after a header of zeros.

**`RowMap`** - the abstract table: a map, one write in progress that is applied as
a whole or aborted, ids that are not given out again after an insert returned,
and a step after which rows may be lost. The refinement mapping is at the end of
`PageTable`: the map is what `get` would return (from the cache, or from the
file within the page count of memory or header), and the `.dat` file until its
import is over.

**`Server`** - `run_serve` between `select!`, the accept branch, drain,
checkpoint and return; the semaphore, `connections_active`, and each client's
connection from the kernel queue to the drop of its guard and permit. A
`shutdown_signal()` exists only while `select!` waits.

**`Catalog`** - the catalog, the index manager's names, tables in memory, their
files, `meta.bin`, and the log. A session's batch is one step per statement
part: CREATE TABLE is `CreateTable`, `EnsureTable`, `CreateIndexTree`, `AddIndex`;
DROP TABLE is `DropTable`, `DropFromMemory`, `DropFile` (which may fail),
`DropIndexes`, all under the DDL lock; then `EndBatch` decides by the last result,
and persist is `SnapshotTable` for each table, `OpenMeta` (truncates), `WriteMeta`
or `WriteMetaFails`, without a lock. A write that fails, or a kill inside one, may
leave a prefix of `meta.bin` (`torn`), at which `Open` fails. INSERT, UPDATE and DELETE are lookup and write.
Every CREATE TABLE gets a number (`gen`) that its rows carry. `stale` and
`damage` are history.

**`WireSession`** - one connection: `SslRequest`, `PlainStartup`, `Startup`, then
`Password` or `SaslFirst` and `SaslFinal` under any configuration, with a hash and
a SCRAM secret that parse or do not (`Configs`);
then messages one at a time, `Query`, `Parse`, `Bind`, `Execute`, `Sync`, `Ignore`,
`Terminate`, on the `ConnectionSession`. The first token
of a text says what kind of statement it is; any other text does not parse. A
client-final message has its frame, its channel binding, its nonce and a proof,
which is the secret and the exchange it was made with and whether it covers the
rest. BEGIN, writes, COMMIT and ROLLBACK may fail at each of their appends and
undo records (`BeginOutcomes`, `WriteOutcomes`, `EndOutcomes`, `UndoFails`). A
parameter is put into the text as `substitute_params` does it, by its first
character and with its quotes as they are (`Replacement`), and `Meant` is what the
value means, each with a definition of its own. The client's own view of
statements and portals, as the PostgreSQL protocol defines them, and of its
transaction by the answers it got, is kept beside it.

**`Queries`** - one column of any type, its rows and its index; literals,
coercion, comparison, arithmetic, keys, plan, sort, limit, groups as operators
translated from the functions of the same names; `Insert`, `Update`, `Delete`,
`CreateIndex` as actions. Integers have their widths (`Int4Max` and `Int8Max`, 7
and 15 in the run); a filter, the index after a statement and the sort are
folds over the rows in the order of a scan (`Only`, `Reindexed`, `SortRows`);
texts are numbered in byte order. Decimals are numbers of half an `f64::EPSILON`;
the doubles are those up to `Fine`, where neighbours count as equal, and every
`Coarse`-th beyond, and literals, conversions, sums and differences are rounded
to them (`Round`). What each statement says is kept beside what it stores (`meant`).

How they fit: `WriteAheadLog` takes apart the write that `Engine` treats as one
step; `Engine` and `IndexedTable` share the statement structure, one for the log
and one for the indexes; `RowLocks` shows what the row lock that `IndexedTable`
assumes really gives; `BackupGate` has the locks around the statements;
`PageTable` is the other backend below `Engine`; `Server` says when
the last checkpoint of `Engine`'s `Shutdown` comes; `WireSession` is one of its
connections between `Open` and `End`; `Catalog` repeats recovery for several
tables whose schemas come and go; `Queries` has the values that
`IndexedTable` treats as keys.

## 4. Runs

| Run | Expect | Properties | Bounds |
|---|---|---|---|
| `wal` | pass | `TypeOK`, `SyncBound`, `LsnDistinct`, `OnlyKnownLosses` | 2 threads, 2 data and 1 control operation, interval 2, batch 2, 2 faults, 1 requested checkpoint |
| `wal_kill` | violation | `AckedSurvivesKill` | 1 thread |
| `engine` | pass | `TypeOK`, `CrashAtomicity`, `RollbackRestores`, `OnlyCommitChangesRecovery` | 2 sessions, either backend, interval 6, 2 writes, 3 transactions, 3 statements or failing writes, 1 restart |
| `row_locks` | pass | `LockTypeOK`, `NoLostUpdate`, `HeldByHandle`, `EveryVisitEnds` | 3 threads, 2 rows, 3 lock objects, 3 visits |
| `backup_gate` | pass | `TypeOK`, `CountExact`, `ArchiveIsAtomic`, `BackupEndsUnlessBlocked` | 2 sessions, 4 statements, 2 faults, 2 backups |
| `indexed_table` | pass | `TypeOK`, `IndexAgrees`, `UniqueRows` | 2 sessions, a unique and a late index, 2 keys, 2 row ids, 4 statements, 1 restart |
| `page_table` | pass | `TypeOK`, `CacheBounded`, `ImplementsRowMap` | 3 pages of 2 rows, cache of 2, 2 imported rows, 4 operations, 2 kills, failing growths or overflows |
| `server` | pass | `TypeOK`, `SlotsExact`, `CheckpointIsLast`, `ShutdownEnds` | 3 clients, 2 slots, 2 signals, 5 connects, 3 statements |
| `catalog` | pass | `TypeOK`, `MetaCurrent`, `RowsBelong`, `IndexesMatch`, `Reopens` | 2 tables, 2 sessions, interval 3, 4 statements, 1 kill |
| `wire_session` | pass | `Admission`, `StatusTruthful`, `ExecutesWhatWasBound`, `Answered` | every configuration, 2 statement names, 2 portals, 12 Binds, 5 messages |
| `queries` | pass | `TypeOK`, `FindsWritten`, `PlansAgree`, `OrderedPages`, `GroupsByValue` | 8 columns, 10 literals, 3 rows, 4 statements |
| `query_group` | violation | `AggregatesReported` | as `queries` |

What the passing runs show:

- `wal`: fewer than `WAL_SYNC_BATCH` acknowledged records of a process are ever
  unsynced; LSNs stay distinct unless a reset overlapped an append; the list of
  ways to lose an acknowledged record is complete.
- `engine`: at every step a crash would leave exactly the committed rows, and
  taking back the undo lists would too, outside the exceptions that the
  properties name; nothing but a Commit record or a checkpoint changes what
  recovery produces.
- `row_locks`: the version check loses no update although eviction makes the
  locks inexclusive; every thread gets through.
- `backup_gate`: the counter is exact through every error return, an archive
  holds no unfinished transaction, and four causes are the only ones that keep
  a backup from ending: a lost end, a session that can no longer end its
  transaction, one idle in the implicit transaction that a failed statement left
  open, and a statement that waits for the lock under which the backup waits.
- `indexed_table`: a statement that fails or is overtaken spoils the index
  entries of its own row only; all other rows are found where a full scan finds
  them and keep unique keys; `rebuild_all` repairs the rest.
- `page_table`: the cached, evicted, grown and reopened table implements
  `RowMap`: it is the map that the operations made, whenever the process is
  killed, except inside a page write or an import, and ids are not given out
  twice.
- `server`: no slot is lost in any order of accept, end and drop; a statement
  runs beside or after the final checkpoint only if the drain gave up or its
  connection was accepted and not yet polled; a shutdown ends, and a signal
  leads to one unless the accept branch dropped it.
- `catalog`: whenever the process may be killed, `meta.bin` holds the schemas of
  all tables that no unfinished batch has changed, but for a truncated file and
  the named ways to leave a change unsaved; rows belong to the schema they are
  under, indexes in use are those the catalog names, replay finds every table it
  needs, each with its exceptions, and `meta.bin` is cut off only by a save that
  failed or was killed half way.
- `wire_session`: no client gets past a configured password or `require_tls`,
  unless the only password is a SCRAM secret that does not parse; none is turned
  away without a cause that the property names; ReadyForQuery never reports idle
  in a transaction, and a transaction that the client did not begin only after a
  failure; Execute runs what was bound for clients that use the unnamed portal in
  the usual order and values that the substitution does not misread; and every
  wait ends unless the query was empty.
- `queries`: through literal, coercion, arithmetic, comparison and plan a row is
  found by the value it was given; the index and the full scan agree; pages
  partition the result. The exceptions are the conversions that change a value
  silently (section 7).

**Why the bounds are enough.** The protocols are symmetric in threads, sessions
and rows, and each failure needs at most two actors and two faults: an append
and a checkpoint, a crash and the restart that meets its leftovers, a
transaction and an interfering writer. Three threads are used where eviction
needs a leaver, a waiter and a newcomer; three clients where two slots are full.
For `catalog` a deeper instance with one table, one session and six statements
passes as well; it is not a run of its own. In `queries` the literals
straddle the range of both widths, so that every conversion meets its edge, and
the decimals are one that is a double and one that is not, whose sums leave the
range of `Fine`.
Intervals and batches are small so that checkpoints and fsyncs fall inside
transactions; in `engine` the interval of 6 leaves room in the log for the
records of three transactions, for replay to tell apart, before the last write
of the run makes a checkpoint due. One restart is enough there, because what the
next crash would leave is evaluated in every state (`Recovered`), before and
after it; an instance with three writes, interval 4 and no restart passes as
well. Every exception in a property (`late`, `damage`, `hurt`,
`missed`, ...) was seen to be needed: without it the run fails. Deadlock is not
checked, because all models stop when their bounds are used up.

**Fairness.** `row_locks`: every thread is scheduled (weak fairness of its
steps), and a waiting `Acquire` is strongly fair, because parking_lot's locks
are eventually fair. `backup_gate`: server steps and the backup go on, and a
client commits the transaction that it began (`CommitBegun`); nothing is assumed
of an implicit transaction that a failed statement left open, which its client
does not know of. Statements are finite in
number, so the starvation of the first wait by a stream of overlapping
transactions is not in question. `server`: the main task, the clock and a running
statement go on; nothing is assumed of clients, and `select!` may choose either
ready branch. `wire_session`: the task of a connection handles a message that has
arrived; clients need not send anything.

## 5. Proofs

Eight modules prove, for any sets of threads, sessions, clients, tables, rows,
operations, keys and texts, any interval, batch, page, cache and connection
limit, and any number of faults, kills and statements:

- `WriteAheadLog_proofs`: `TypeCorrect`, `SyncBounded`, `LsnsDistinct`,
  `LossesKnown`: all four properties of run `wal`;
- `Engine_proofs`: `TypeCorrect`, `CrashesAreAtomic`, `RollbacksRestore` and the
  action property `CommitsChangeRecovery`: all of run `engine`;
- `Concurrency_proofs`, about the two modules that have only locks and counters
  (`RowLocks` names its specification `LockSpec`, so that one module can extend
  both): `LockTypesCorrect`, `NoUpdateIsLost`, `LocksHaveHandles`, the three
  invariants of run `row_locks`; `TypeCorrect`, `SlotsStayExact`,
  `CheckpointStaysLast`, the three of run `server`;
- `BackupGate_proofs`: `TypeCorrect`, `CountStaysExact`, `ArchiveStaysAtomic`: the
  three invariants of run `backup_gate`;
- `IndexedTable_proofs`: `TypeCorrect`, `IndexesStayRight`, `UniqueRowsStay`: all
  of run `indexed_table`;
- `PageTable_proofs`: `TypeCorrect`, `CacheStaysBounded`, and `Implements`, the
  refinement of `RowMap`: all of run `page_table`;
- `Catalog_proofs`: `TypeCorrect`, `MetaStaysCurrent`, `RowsStayTheirs`,
  `IndexesStayMatched`, `AlwaysReopens`: all of run `catalog`;
- `Statements_proofs`, about the two modules whose data are folded sequences
  (`Queries` names its specification `QuerySpec`, so that one module can extend
  both): `AdmissionHolds`, `StatusStaysTruthful`, `ExecuteRunsWhatWasBound`, the
  three invariants of run `wire_session`; `ColumnsHoldTheirType`, `WritesAreFound`,
  `PlansAlwaysAgree`, `GroupsAreOfValues`, `PagesAreOrdered`, the five of run
  `queries`.

Assumptions: data and control operations are disjoint, `NoOp`/`NoThread` are
none of them, interval, batch, rows per page, pages of the cache and the largest
row id are positive, the sets of clients and of sessions (of `BackupGate` and
`Engine`) are finite, unique and plain indexes are different ones, the rows of a
`.dat` file have ids and values of the table, SQL texts and parameters are
sequences of tokens with at most the two parameters that have placeholders in
the model, numbers begin with a digit, doubles are spaced by at least one step, bounds and the connection limit are natural numbers; a literal has no
sign, i32 is narrower than i64, two integers of one type that differ display
differently and so do the truth values. Nothing is assumed of how doubles
display, nor of the place of NULL, `true` and the numerals among the texts.

The argument for the log is one inductive invariant, `IInv`, whose parts need
each other. `LockInv` ties the file mutex to the one torn record at the end of
the file. `OpInv` says an operation is logged once and acknowledged only when
its record is whole; without it an acknowledged operation could be completed
again by `WriteBody`. `LsnInv` extends distinctness to the threads that have a
number and no record yet, because `Alloc` and `WriteHeader` are under different
locks. `SyncInv` says the counter bounds the unsynced acknowledged records,
which survives `truncate` under an append since that only shrinks the set.
`LossInv` says that only the last record may be torn, that memory has what is
acknowledged, and that between the table write and the truncate of a checkpoint the
table file alone has everything that is not `late`; that last conjunct is what
makes `Truncate` harmless to the rest. Each part has a step lemma with a case per
action; the lemmas on sequences (`CompleteLastReadable`, `SurvivingPrefix`, ...)
say what the ways to change the file do to its readable prefix. A sync that fails
after its operation took effect needs no part of its own: it leaves the thread
idle with files that the invariant allows there.

For the row locks `VersionInv` (a row's version counts its updates, and what a
thread has read is a version with the value it had) gives `NoLostUpdate` without
any exclusion; `HandleInv` and `HeldByHandle` are inductive together.

For the server `IInv` adds `PeerInv` and `DrainInv` to the three properties.
`PeerInv` makes `Serve` move exactly one client, so that one permit pays for it.
`SlotsExact` makes the `active = 0` that `drain_connections` reads mean that no
task that has begun is left, and `DrainInv` carries that to the end: from then on
whoever can still answer is in `missed`, because the listener is gone and no new
connection is accepted. The range of `permits` and `active` in `TypeOK` follows
from `SlotsExact`, not from the guards alone. Lemma `Move` says what one
connection's change of phase does to the cardinalities.

For the backup gate, `CountExact` alone says nothing of rows in memory. `PcInv`
ties the place of a statement to its transaction, `LockInv` says which steps
hold `backup_lock` and that the held writer excludes them, and `DebtInv` that
rows of an unfinished transaction are those of one that is counted, and that a
transaction cut off has left the counter above zero. So when the second wait of
`backup_live` reads zero, there are no such rows, and until the unlock no
statement that could write one has the lock.

For the table and its indexes, `HandInv` says of a row a statement is in the
middle of, unless it is `hurt`, that it is there with the value the statement
knows, that it has no entries, and that nobody else has it in hand; so the
statement may put its entries back and leave the row settled. `BuildInv` says
the same of the index that CREATE INDEX has built and not yet added: its entries
are right for every row no statement touched since the scan; `BuildUniqueInv`
carries its uniqueness to the moment it is added. Lemma `OneRow` reduces every
step of a statement, and every undo record of a ROLLBACK, to the row it steps on;
the restart is proved from `rebuild_all` as a whole.

For the wire session, `Admission` needs that a cleartext password is asked for
only where there is a hash to compare, and that TLS was settled before
(`HandshakeInv`). `StatusTruthful` needs `TxnInv`: the session's transaction is
the one the client was told it began, with its id; or one a failed write left
behind in auto-commit; or one that lost its id to a commit or rollback that
failed; and `MessageInv`, that the status shown is withdrawn when the next message
arrives. Lemma `RunSqlChanges` lists what a statement can do to it, once for
`Query` and `Execute`.

For the paged file, every action lemma proves `IInv' /\ Simulates`: the step keeps
the invariant and shows a step of `RowMap` (`Begin`, `Apply`, `Abort`, `Return`,
`Lose`), or nothing. `FileInv` and `MemInv` make the mapping insensitive to where a
page is read from: the cache has what the file has, except for the one page that
`store_page` has zeroed and not filled. `JobInv` says what an operation has
established at each of its steps; without its `job.body = NewBody(Body(Page))` the
fill of a page could change a row that is not its own. `ImportInv` says that the
pages have the imported rows and no others, so that the view can change from the
`.dat` file to the pages when `RemoveDat` deletes it. `AckInv` is why an id is not
given out twice: the header has passed every id that was returned.

For the catalog, `BatchOK` says that a batch that changed a table and ends without
an error had DDL as its last statement, or several statements, so that `EndBatch`
persists. `SnapInv` says what persist has read is what the catalog has, but for
the tables that changed after they were read, which are what `WriteMeta` makes
stale; that is the price of persist without a lock. `LockInv` and `DdlInv` follow
a DDL statement between catalog and index manager. `RowsBelong` and `Reopens` are
about rows in memory, in files, in the log and in the hands of a statement, so
`BelongInv` says of all of them at once that they carry the number of the schema
they will be under after a restart; `DropInv` covers a table between the steps
of its DROP, and `ReplayInv` says that until a checkpoint has run every record
of a table comes after an insert, which makes the table for replay. `TornInv`
says when `meta.bin` may be cut off: a save that failed made every table stale, and
a kill in a save left a change unsaved.

For the engine a table is looked at one row at a time: the cell of a row is its
value, or 0. `Lands` says that a fold of effects that begins in one set of cells
ends in another. `MemOf`: memory has the committed cells but for what open
transactions wrote, and their undo lists land on the committed ones. `FileOf`:
the table file has the cells of the last checkpoint, or of memory if it is
paged. `ReplayOf`: replay lands on the committed cells from every file it may
meet, and would land on what an open transaction wrote should that one commit;
this second half is what `Commit` needs, since a Commit record turns the whole
transaction on at once, wherever its records are in the log. The rest of the
invariant keeps transactions out of each other's way: no two sessions touch a
row unless `damage` says so (`Apart`), each record in the log is its own
session's (`RecordsOwn`, `TxnsApart`), and row ids are used in order (`Tidy`).
That the order in which `UndoAll` takes the sessions does not matter follows
from `Apart`. A write that the log did not take (`Strays`) is in memory and is no
transaction's: it ends what `MemOf` says of memory, so the weaker `ThereIs`, that a
row an open transaction deleted is gone, is kept beside it for the log. On a paged
table such a write is in the file too; every session with a write of its own is
in `dirty` then (`PendingIn`), and the undo lists of the others, which wrote
nothing, put back what is there (`AllSettled`).

`ExecutesWhatWasBound` has two halves. `BindInv` relates what the server keeps to
what the client believes, with the message in flight taken into account: named
statements agree (`PreparedInv`), the unnamed one does until a named one is bound
(`LastInv`), and after a Bind that is not odd the session holds the unnamed
portal (`BoundInv`). Lemma `SubstituteMeant` says that going through the text once
for each parameter, from the last to the first, puts each value in its place: a
value that was put in is not itself replaced, because it does not contain an
earlier placeholder. It rests on `FlattenConcat` and `ReplaceFlatten`, that
flattening and replacing distribute over concatenation.

For the queries, `QueryInv` has three parts. Every stored value fits its type and
its column, and the narrow integer type occurs only in a column of that type:
`GroupsByValue` needs that, since otherwise equal integers of two widths could
stand in one column. `Means` relates a value to what the statements say of it,
for the rows that are not `lost`; `StoredMeans`, `LiteralMeans` and
`AssignedMeans` carry it through coercion, literals and arithmetic, the last with
the two's complement of `WrapIs` and the doubles of `RoundIs`: arithmetic that starts
from doubles rounds once, and the literal of the exact result rounds to the same. `Files` says that the index has under each key
exactly the ids of the rows with that key, once each; `ReindexedIs` carries it
through a statement row by row, with `After` for the table a statement has half
come by. The five properties follow from `QueryInv` in each state: `OnlyIs` says
what a filter keeps, `DisplaysAlike` compares display with equality, `SortIs` says
that the insertion sort keeps the rows and, where `compare_values` is a weak
order (`LessOrders`), sorts them, and `PagesJoin` that the pages join to the whole.
The attempt to prove `FindsWritten` found two exceptions that the first bounds of
the run had not reached, and the run now does: an UPDATE with a literal beyond
i64 whose result is in range again (`TooLarge`), and i64::MIN, which arithmetic
makes and no literal says (`Unwritable`).

Folds (`FoldLeft`, `FlattenSeq`) are recursive functions whose value the provers
cannot take an induction rule for. The proofs name the states a fold goes through
(`Applies`, `Replays`, `Joins`, `Fills`, `Keeps`, `Visits`, `Places`) and show what
holds of all of them by the least index at which it would not (`IndexInduction`,
from the library's `WFMin` and `NatLessThanWellFounded`). That a fold goes through
such states is proved once for each folded operator, by the same argument, because
the provers instantiate no lemma with an operator as its parameter.

Only model-checked, and why:

- `EveryVisitEnds`, `BackupEndsUnlessBlocked`, `ShutdownEnds`, `Answered`: the prover
  does not reason about fairness.

## 6. What is not modelled

- CRC32 is taken to detect every torn record; file names, directory entries and
  the order in which the file system persists different files are left out.
- An fsync that fails takes effect all the same for the table files and the
  emptied log: a power loss that brings the old contents back is left out.
  `checkpoint.bin`, 8 bytes in one `write_all`, is empty or whole.
- `Engine` has one table and no indexes; a page write is one step there, and
  errors inside it are in `PageTable`. ON CONFLICT is in `IndexedTable`. The LSN or
  the torn frame that a failed append leaves in the log, a checkpoint that fails
  part-way and a `.dat` file cut off in one are in `WriteAheadLog`. A BEGIN whose
  append fails, an Abort record whose undo list is not applied and an undo record
  that fails are in `BackupGate` and `WireSession`.
- `IndexedTable` visits one row per statement, treats one undo record as a step
  and the lookup of ON CONFLICT with the read that follows as one step, and
  assumes the exclusive row lock that `RowLocks` shows not to be guaranteed.
- `PageTable` has kills and no power losses, the default of a power-of-two
  number of rows per page in `InsertAtZero`, and no transactions; mapping a file
  that is there (`ensure_mmap`) is taken to succeed.
- `Catalog` has auto-committed statements only, a checkpoint as one step, the
  memory backend, and no row keys; `rebuild_all` failing on a duplicate is in
  `IndexedTable`.
- `WireSession` takes hashes, HMAC and TLS as ideal, and messages as decoded;
  result rows, logs and metrics are left out. The database behind it is the
  outcome of the statement. `$1` inside a string literal of a prepared text, which
  is replaced like any other, is left out.
- `Queries` has one column and one table: JOIN is a nested loop over two scans
  that changes nothing, and EXPLAIN prints the plan. AVG, UPPER, LOWER, `||`,
  -0.0, FLOAT4, TIMESTAMP and JSON values are left out (no literal makes the last
  three), and so are statements that fail, which are in `IndexedTable`. SQL
  parsing is a library.
- CLI, configuration, ping, logging, metrics text, archive files and restore,
  benchmarks: formatting and I/O. `reconcile_storage` only logs warnings.

## 7. Findings

Two claims of the repository have a run that TLC refutes, quoted in `PROJECT.json`:

1. `wal_kill` (`wal.rs:322`): `truncate` restarts the LSNs at 0 and
   `checkpoint.bin` keeps the old one; after a kill, replay filters out what was
   acknowledged since.
2. `query_group` (`executor.rs:693`): `project_rows` evaluates the select items
   again on the grouped rows; COUNT is reported as 1, the other aggregates as
   NULL.

Other behaviour that a reader of the docs would not expect is an exception,
by name, inside a property that holds, and each exception was seen to be needed:

- `CrashAtomicity` (`Engine`): a checkpoint inside a transaction, and every write
  of a paged table, makes rows durable before they commit (`dirtyFile`);
  transaction ids that restart (`txnReuse`); LSNs that restart (`hidden`); a
  transaction that writes a row another one has written, be it open, failed or
  abandoned (`interference`): an update of a row that a failed statement left in
  memory commits and is lost at a crash, since replay skips the row's insert.
- `RollbackRestores`: an auto-commit statement that failed half way, and in an
  explicit transaction the row whose INSERT failed after `storage.insert`, have no
  undo record, so ROLLBACK leaves the rows (`unrecorded`, `partial`); a write that
  the log did not take is in memory, and its transaction may commit without it
  (`partial`; of a paged table, `dirtyFile`).
- `OnlyKnownLosses` (`WriteAheadLog`): a record appended during another thread's
  checkpoint (`late`).
- `BackupEndsUnlessBlocked`: a BEGIN between the two waits of `backup_live`; the
  backup holds the lock that its transaction needs. An auto-commit statement that
  failed leaves an implicit transaction open, and an idle connection then holds
  the backup for as long as it stays.
- `UniqueRows`: a refused INSERT leaves the duplicate row (`hurt`), on which
  `rebuild_all` fails at the next start.
- `ImplementsRowMap`: a kill inside a page write (`tornPage`) or an import
  (`tornImport`).
- `ShutdownEnds`: a SIGTERM that arrives with a connection is dropped with the
  future that received it (`lost`).
- `MetaCurrent`: DDL followed by another statement in one query, or by an error,
  is not saved; a snapshot may overwrite a newer one; `meta.bin` is rewritten in
  place.
- `RowsBelong`, `Reopens`: DROP TABLE is not in the log (`logged`, `replayed`,
  `Orphaned`), may be overtaken by an INSERT that brings the table back
  (`overtaken`), and may fail on the file. A `meta.bin` that a save left cut off
  (`torn`) keeps the database from opening at all.
- `Admission`: a client-final message in the frame of RFC 7677 and libpq, without
  a mechanism and a length, is turned away (`framing`). A `password_scram` that does
  not parse counts as none: if it is the only password, everybody is admitted
  (`OnlyUnreadable`). A `password_hash` that does not parse turns the right password
  away (`hash`).
- `StatusTruthful`: after a COMMIT or ROLLBACK that failed the client is in doubt
  (`unknown`): the status may be that of a transaction that has lost its id and can
  never end, or of none, its undo list applied in part.
- `ExecutesWhatWasBound`: named portals, format codes, unknown statements, the
  unnamed statement after a named one; values that the substitution misreads: the
  word null, what begins with a digit and is no number (a date), what has a quote
  (`Misread`), and what has an earlier placeholder; `Answered`: an empty query.
- `FindsWritten`: numbers cut to INT4, literals beyond i64 stored as 0, signed
  numbers in INSERT and most arithmetic stored as NULL, integers in a double
  column, i64::MIN, whose digits no literal holds, and arithmetic with decimals
  that are no doubles, whose error may exceed `f64::EPSILON` (1.1 + 2.2 is not
  found by 3.3); `PlansAgree`: doubles within `f64::EPSILON`; `OrderedPages`,
  `GroupsByValue`: several types in one VARCHAR column, NULL and 'NULL'.
