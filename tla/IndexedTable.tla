---------------------------- MODULE IndexedTable ----------------------------
(***************************************************************************)
(* A table and its indexes (index.rs) under the write statements of        *)
(* executor.rs, ROLLBACK (transaction.rs apply_undo), CREATE INDEX and the *)
(* rebuilding of the indexes at open (engine.rs).                          *)
(*                                                                         *)
(* The table and the indexes have a lock each, and a statement takes them  *)
(* one after the other for every row: sessions interleave in between.  A   *)
(* row value gives the key the row has in each index; the columns          *)
(* themselves are left out.  Statements here visit one row.                *)
(***************************************************************************)
EXTENDS Integers, Sequences, FiniteSets, SequencesExt, Functions

CONSTANTS
    Sessions,
    Unique, Plain, \* the unique and the other indexes
    Late,          \* the indexes that CREATE INDEX adds; the others are there
    Keys,
    MaxRows,       \* bound on row ids
    MaxStmts,      \* bound on statements
    MaxRestarts    \* bound on restarts

ASSUME IndexAssumption ==
    Unique \cap Plain = {} /\ Late \subseteq Unique \cup Plain /\ MaxRows \in Nat

VARIABLES
    rows,     \* the table: row id -> [val, ver]
    next,     \* its next_id
    idx,      \* IndexManager.indexes: index -> key -> row ids
    defs,     \* the indexes of the table, in IndexManager and in the catalog
    build,    \* the index that a CREATE INDEX has filled and not yet added
    sess,     \* the sessions
    up,       \* "open", "closed", or "broken": open returned an error
    hurt,     \* rows whose entries are known to be wrong (history)
    stmts, restarts

data == <<rows, next, idx>>
schema == <<defs, build>>
bounds == <<stmts, restarts>>
vars == <<data, schema, sess, up, hurt, bounds>>

Indexes == Unique \cup Plain
Values == [Indexes -> Keys]
Ids == 1..MaxRows
NoEntries == [k \in Keys |-> {}]
NoRow == [val |-> <<>>, ver |-> 0]
NoBuild == [index |-> "none", entries |-> NoEntries, missed |-> {}]

(* Session: `open` and `auto` as in transaction.rs, the undo list, and the *)
(* row in hand: the step to do next, its id, the row as scanned, and the   *)
(* value to index.                                                         *)
NewSession == [open |-> FALSE, auto |-> FALSE, undo |-> <<>>,
               step |-> "idle", id |-> 0, old |-> NoRow, new |-> NoRow.val]

Init ==
    /\ rows = <<>> /\ next = 1
    /\ idx = [i \in Indexes |-> NoEntries]
    /\ defs = Indexes \ Late /\ build = NoBuild
    /\ sess = [s \in Sessions |-> NewSession]
    /\ up = "open" /\ hurt = {} /\ stmts = 0 /\ restarts = 0

-----------------------------------------------------------------------------
(* BTreeIndex and IndexManager.                                            *)

(* remove_row: the entry of the id under the key of the given values.      *)
RemoveRowUnique(ix, val, id) ==
    [i \in Indexes |-> IF i \in Unique THEN [ix[i] EXCEPT ![val[i]] = @ \ {id}] ELSE ix[i]]

RemoveRow(ix, val, id) == [i \in Indexes |-> [ix[i] EXCEPT ![val[i]] = @ \ {id}]]

AddTo(ix, which, val, id) ==
    [i \in Indexes |-> IF i \in which THEN [ix[i] EXCEPT ![val[i]] = @ \cup {id}] ELSE ix[i]]

(* BTreeIndex::insert: a unique index refuses a key it has.                *)
RefusingNone(ix, val) == {}

Refusing(ix, val) == {i \in Unique \cap defs : ix[i][val[i]] # {}}

(* insert_row goes through the indexes in the order of a HashMap and stops *)
(* at the first that refuses.                                              *)
InsertRowOutcomes(ix, val, id) ==
    IF Refusing(ix, val) = {} THEN {AddTo(ix, defs, val, id)}
    ELSE {AddTo(ix, done, val, id) : done \in SUBSET (defs \ Refusing(ix, val))}

Refused(ix, val) == Refusing(ix, val) # {}

-----------------------------------------------------------------------------
(* Steps of a statement.                                                   *)

Put(id, row) == [i \in DOMAIN rows \cup {id} |-> IF i = id THEN row ELSE rows[i]]
Without(id) == Restrict(rows, DOMAIN rows \ {id})

Holding == {"write", "reindex", "erase"}
Locked(id) == \E s \in Sessions : sess[s].step \in Holding /\ sess[s].id = id

(* The rows some session is in the middle of.                              *)
Busy(s) == sess[s].step \in Holding \cup {"index"}
InHand == {sess[s].id : s \in {u \in Sessions : Busy(u)}}

(* history: the session acts on a row of which it has a stale value, or    *)
(* that another session has in hand (INSERT and ROLLBACK take no row       *)
(* lock); and a CREATE INDEX has passed the row.                           *)
Stale(id, val) == id \notin DOMAIN rows \/ rows[id].val # val
Overlap(s, id) == \E u \in Sessions \ {s} : Busy(u) /\ sess[u].id = id

Touch(s, id, wrong) ==
    /\ hurt' = IF wrong \/ Overlap(s, id) THEN hurt \cup {id} ELSE hurt
    /\ build' = IF build.index = "none" THEN build ELSE [build EXCEPT !.missed = @ \cup {id}]

Idle(s) == up = "open" /\ sess[s].step = "idle"
Statement == stmts < MaxStmts /\ stmts' = stmts + 1

(* begin_write_txn.                                                        *)
InTxn(me) == IF me.open THEN me ELSE [me EXCEPT !.open = TRUE, !.auto = TRUE]

(* `?`: the transaction stays as it is.  finish_auto_commit_if_needed.     *)
Fail(me) == [me EXCEPT !.step = "idle", !.id = 0, !.old = NoRow, !.new = NoRow.val]
Finish(me) == IF me.auto THEN NewSession ELSE Fail(me)

(* Undo records are kept in explicit transactions.                         *)
Recorded(me, kind, id, old) ==
    IF me.auto THEN me
    ELSE [me EXCEPT !.undo = Append(@, [kind |-> kind, id |-> id, old |-> old])]

Become(s, me) == sess' = [sess EXCEPT ![s] = me]

Begin(s) ==
    /\ Idle(s) /\ ~sess[s].open /\ Statement
    /\ Become(s, [NewSession EXCEPT !.open = TRUE])
    /\ UNCHANGED <<data, schema, up, hurt, restarts>>

(* INSERT.                                                                 *)
StartInsert(s, val) ==
    /\ Idle(s) /\ Statement
    /\ Become(s, [InTxn(sess[s]) EXCEPT !.step = "store", !.new = val])
    /\ UNCHANGED <<data, schema, up, hurt, restarts>>

(* INSERT of values that do not coerce, or of a NULL that may not be.      *)
InsertInvalid(s) ==
    /\ Idle(s) /\ Statement
    /\ Become(s, Fail(InTxn(sess[s])))
    /\ UNCHANGED <<data, schema, up, hurt, restarts>>

(* UPDATE or DELETE comes to a row of its scan.                            *)
StartChange(s, id, step) ==
    /\ Idle(s) /\ id \in DOMAIN rows /\ Statement
    /\ Become(s, [InTxn(sess[s]) EXCEPT !.step = step, !.id = id, !.old = rows[id]])
    /\ UNCHANGED <<data, schema, up, hurt, restarts>>

(* INSERT ... ON CONFLICT: find_conflict_row looks in a unique index, and  *)
(* apply_conflict_update reads the row; a WHERE that is false there ends   *)
(* like DO NOTHING.                                                        *)
Upsert(s, val, i) ==
    LET found == idx[i][val[i]]
        me    == InTxn(sess[s])
    IN  /\ Idle(s) /\ i \in Unique \cap defs /\ Statement
        /\ \/ /\ found = {}
              /\ Become(s, [me EXCEPT !.step = "store", !.new = val])
           \/ /\ found # {}                         \* DO NOTHING, or WHERE is false
              /\ Become(s, Finish(me))
           \/ \E id \in found :                     \* DO UPDATE
                 IF id \in DOMAIN rows
                 THEN Become(s, [me EXCEPT !.step = "unindex", !.id = id, !.old = rows[id]])
                 ELSE Become(s, Fail(me))           \* conflict row vanished
        /\ UNCHANGED <<data, schema, up, hurt, restarts>>

(* storage.insert.                                                         *)
StoreSameId(s) ==
    LET me == sess[s]
    IN  /\ me.step = "store" /\ next <= MaxRows
        /\ rows' = Put(next, [val |-> me.new, ver |-> 1])
        /\ next' = next
        /\ Become(s, [me EXCEPT !.step = "index", !.id = next])
        /\ Touch(s, next, FALSE)
        /\ UNCHANGED <<idx, defs, up, bounds>>

Store(s) ==
    LET me == sess[s]
    IN  /\ me.step = "store" /\ next <= MaxRows
        /\ rows' = Put(next, [val |-> me.new, ver |-> 1])
        /\ next' = next + 1
        /\ Become(s, [me EXCEPT !.step = "index", !.id = next])
        /\ Touch(s, next, FALSE)
        /\ UNCHANGED <<idx, defs, up, bounds>>

(* insert_row after storage.insert; the undo record comes last.            *)
Index(s) ==
    LET me == sess[s]
    IN  /\ me.step = "index"
        /\ idx' \in InsertRowOutcomes(idx, me.new, me.id)
        /\ Become(s, IF Refused(idx, me.new) THEN Fail(me)
                     ELSE Finish(Recorded(me, "Insert", me.id, NoRow)))
        /\ Touch(s, me.id, Refused(idx, me.new) \/ Stale(me.id, me.new))
        /\ UNCHANGED <<rows, next, defs, up, bounds>>

(* UPDATE and DELETE, under the row lock: the undo record, then remove_row *)
(* with the values as scanned.                                             *)
Unindex(s, from, to, kind) ==
    LET me == sess[s]
    IN  /\ me.step = from /\ ~Locked(me.id)
        /\ idx' = RemoveRow(idx, me.old.val, me.id)
        /\ Become(s, [Recorded(me, kind, me.id, me.old) EXCEPT !.step = to])
        /\ Touch(s, me.id, Stale(me.id, me.old.val))
        /\ UNCHANGED <<rows, next, defs, up, bounds>>

(* An assignment or NOT NULL fails; the entries are gone.                  *)
EvalFails(s) ==
    LET me == sess[s]
    IN  /\ me.step = "write"
        /\ Become(s, Fail(me))
        /\ Touch(s, me.id, TRUE)
        /\ UNCHANGED <<data, defs, up, bounds>>

(* storage.update: a row that is gone is no error, another version is.     *)
Write(s, val) ==
    LET me == sess[s]
    IN  /\ me.step = "write"
        /\ \/ /\ me.id \notin DOMAIN rows
              /\ Become(s, [me EXCEPT !.step = "reindex", !.new = val])
              /\ Touch(s, me.id, TRUE)
              /\ UNCHANGED rows
           \/ /\ me.id \in DOMAIN rows /\ rows[me.id].ver # me.old.ver
              /\ Become(s, Fail(me))
              /\ Touch(s, me.id, TRUE)
              /\ UNCHANGED rows
           \/ /\ me.id \in DOMAIN rows /\ rows[me.id].ver = me.old.ver
              /\ rows' = Put(me.id, [val |-> val, ver |-> me.old.ver + 1])
              /\ Become(s, [me EXCEPT !.step = "reindex", !.new = val])
              /\ Touch(s, me.id, FALSE)
        /\ UNCHANGED <<next, idx, defs, up, bounds>>

Reindex(s) ==
    LET me == sess[s]
    IN  /\ me.step = "reindex"
        /\ idx' \in InsertRowOutcomes(idx, me.new, me.id)
        /\ Become(s, IF Refused(idx, me.new) THEN Fail(me) ELSE Finish(me))
        /\ Touch(s, me.id, Refused(idx, me.new) \/ Stale(me.id, me.new))
        /\ UNCHANGED <<rows, next, defs, up, bounds>>

(* storage.delete compares nothing.                                        *)
Erase(s) ==
    LET me == sess[s]
    IN  /\ me.step = "erase"
        /\ rows' = Without(me.id)
        /\ Become(s, Finish(me))
        /\ Touch(s, me.id, Stale(me.id, me.old.val))
        /\ UNCHANGED <<next, idx, defs, up, bounds>>

-----------------------------------------------------------------------------
(* COMMIT, and the end of a connection, which here does the same: the undo *)
(* list goes, the rows stay.                                               *)
Commit(s) ==
    /\ Idle(s) /\ sess[s].open
    /\ Become(s, NewSession)
    /\ UNCHANGED <<data, schema, up, hurt, bounds>>

Rollback(s) ==
    /\ Idle(s) /\ sess[s].open
    /\ Become(s, [NewSession EXCEPT !.undo = Reverse(sess[s].undo), !.step = "undo"])
    /\ UNCHANGED <<data, schema, up, hurt, bounds>>

(* apply_undo of one record, without a row lock.  insert_row may refuse    *)
(* the old key; the rest of the list is then dropped.                      *)
UndoInsert(e) ==
    /\ rows' = Without(e.id)
    /\ idx' = IF e.id \in DOMAIN rows THEN RemoveRow(idx, rows[e.id].val, e.id) ELSE idx

UndoUpdate(e, ix) ==
    /\ rows' = IF e.id \in DOMAIN rows
               THEN Put(e.id, [val |-> e.old.val, ver |-> rows[e.id].ver + 1]) ELSE rows
    /\ idx' \in InsertRowOutcomes(ix, e.old.val, e.id)

UndoDelete(e) ==
    /\ rows' = Put(e.id, e.old)
    /\ idx' \in InsertRowOutcomes(idx, e.old.val, e.id)

UndoStep(s) ==
    LET me    == sess[s]
        e     == Head(me.undo)
        there == e.id \in DOMAIN rows
        ix    == IF e.kind = "Update" /\ there THEN RemoveRow(idx, rows[e.id].val, e.id) ELSE idx
        fails == e.kind # "Insert" /\ Refused(ix, e.old.val)
    IN  /\ me.step = "undo" /\ me.undo # <<>>
        /\ CASE e.kind = "Insert" -> UndoInsert(e)
             [] e.kind = "Update" -> UndoUpdate(e, ix)
             [] e.kind = "Delete" -> UndoDelete(e)
        /\ Become(s, IF fails THEN NewSession ELSE [me EXCEPT !.undo = Tail(@)])
        /\ Touch(s, e.id, fails \/ (e.kind = "Update" /\ ~there) \/ (e.kind = "Delete" /\ there))
        /\ UNCHANGED <<next, defs, up, bounds>>

UndoEnd(s) ==
    /\ sess[s].step = "undo" /\ sess[s].undo = <<>>
    /\ Become(s, NewSession)
    /\ UNCHANGED <<data, schema, up, hurt, bounds>>

-----------------------------------------------------------------------------
(* The entries of an index over the whole table; a unique one cannot be    *)
(* made of rows that share a key.                                          *)
Entries(i) == [k \in Keys |-> {id \in DOMAIN rows : rows[id].val[i] = k}]
Buildable(i) == i \in Unique => \A k \in Keys : Cardinality(Entries(i)[k]) <= 1

(* CREATE INDEX, under the DDL lock that no other statement takes: scan    *)
(* and fill, then add.                                                     *)
BuildIndex(i) ==
    /\ up = "open" /\ build.index = "none" /\ i \in Late \ defs
    /\ Buildable(i)
    /\ build' = [index |-> i, entries |-> Entries(i), missed |-> InHand]
    /\ UNCHANGED <<data, defs, sess, up, hurt, bounds>>

AddIndex ==
    /\ up = "open" /\ build.index # "none"
    /\ idx' = [idx EXCEPT ![build.index] = build.entries]
    /\ defs' = defs \cup {build.index}
    /\ hurt' = hurt \cup build.missed
    /\ build' = NoBuild
    /\ UNCHANGED <<rows, next, sess, up, bounds>>

(* Shutdown with its checkpoint, between statements; open transactions are *)
(* cut off and their rows are saved.                                       *)
Close ==
    /\ up = "open" /\ build.index = "none" /\ restarts < MaxRestarts
    /\ \A s \in Sessions : sess[s].step = "idle"
    /\ up' = "closed" /\ restarts' = restarts + 1
    /\ idx' = [i \in Indexes |-> NoEntries]
    /\ sess' = [s \in Sessions |-> NewSession]
    /\ UNCHANGED <<rows, next, schema, hurt, stmts>>

(* Database::open: rebuild_all over the saved rows.                        *)
Open ==
    /\ up = "closed"
    /\ IF \A i \in defs : Buildable(i)
       THEN /\ up' = "open"
            /\ idx' = [i \in Indexes |-> IF i \in defs THEN Entries(i) ELSE NoEntries]
            /\ hurt' = {}
       ELSE up' = "broken" /\ UNCHANGED <<idx, hurt>>
    /\ UNCHANGED <<rows, next, schema, sess, bounds>>

-----------------------------------------------------------------------------
Insert(s) ==
    \/ InsertInvalid(s)
    \/ \E val \in Values : StartInsert(s, val) \/ \E i \in Unique : Upsert(s, val, i)

Change(s) == \E id \in Ids, step \in {"unindex", "remove"} : StartChange(s, id, step)

RowStep(s) ==
    \/ Store(s)
    \/ Index(s)
    \/ Unindex(s, "unindex", "write", "Update")
    \/ EvalFails(s)
    \/ \E val \in Values : Write(s, val)
    \/ Reindex(s)
    \/ Unindex(s, "remove", "erase", "Delete")
    \/ Erase(s)

Next ==
    \/ \E s \in Sessions :
          \/ Begin(s)
          \/ Insert(s)
          \/ Change(s)
          \/ RowStep(s)
          \/ Commit(s)
          \/ Rollback(s)
          \/ UndoStep(s)
          \/ UndoEnd(s)
    \/ \E i \in Late : BuildIndex(i)
    \/ AddIndex
    \/ Close
    \/ Open

Spec == Init /\ [][Next]_vars

-----------------------------------------------------------------------------
Steps == {"idle", "store", "index", "unindex", "write", "reindex", "remove", "erase", "undo"}

(* The table, the indexes and the sessions are well formed.                *)
TypeOK ==
    /\ DOMAIN rows \subseteq 1..(next - 1) /\ next \in 1..(MaxRows + 1)
    /\ \A id \in DOMAIN rows : rows[id].val \in Values /\ rows[id].ver \in Nat \ {0}
    /\ idx \in [Indexes -> [Keys -> SUBSET Ids]]
    /\ defs \subseteq Indexes /\ build.missed \subseteq Ids
    /\ \A s \in Sessions :
          /\ sess[s].step \in Steps
          /\ sess[s].step \notin {"idle", "undo"} => sess[s].open
          /\ sess[s].auto => sess[s].open /\ sess[s].undo = <<>>
    /\ up \in {"open", "closed", "broken"} /\ hurt \subseteq Ids

Settled == Ids \ (hurt \cup InHand)

(* The indexes say what the table says: a row has its entry under its key  *)
(* in every index and no other, and a row that is gone has none, so that   *)
(* an index scan finds what a full scan finds.  A statement that fails, or *)
(* that another session overtakes, spoils the entries of its own row only, *)
(* and rebuild_all repairs them.                                           *)
IndexAgrees ==
    up = "open" => \A i \in defs, k \in Keys : \A id \in Settled :
        id \in idx[i][k] <=> id \in DOMAIN rows /\ rows[id].val[i] = k

(* Two rows whose statements have succeeded never share a key of a unique  *)
(* index, so only the rows of a failed or overtaken statement can keep     *)
(* rebuild_all from opening the database.                                  *)
UniqueRows ==
    \A i \in Unique \cap defs : \A a, b \in Settled \cap DOMAIN rows :
        a # b => rows[a].val[i] # rows[b].val[i]

=============================================================================
