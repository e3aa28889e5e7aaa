------------------------------ MODULE RowLocks ------------------------------
(***************************************************************************)
(* The row locks (lock.rs) under the loops of UPDATE, DELETE and ON        *)
(* CONFLICT DO UPDATE (executor.rs), and the version check of              *)
(* StorageEngine::update.                                                  *)
(*                                                                         *)
(* A row is read before its lock is asked for.  The lock of a row is an    *)
(* Arc that the map and every handle refer to; it is made when the map has *)
(* no entry for the row, and the guard that goes may remove the entry.     *)
(* An update writes the value it read plus one, so that a lost update      *)
(* shows.                                                                  *)
(***************************************************************************)
EXTENDS Integers, FiniteSets

CONSTANTS
    Threads,
    Rows,
    MaxLocks,   \* bound on the lock objects made
    MaxOps,     \* bound on the rows visited
    NoThread    \* the lock is free

ASSUME RowLocksAssumption == NoThread \notin Threads /\ MaxLocks \in Nat /\ MaxOps \in Nat

VARIABLES
    \* the table
    live,       \* the rows that exist
    val, ver,   \* value and Row.version of each row
    \* LockManager
    map,        \* row_locks: the lock of each row, 0 when there is no entry
    made,       \* lock objects made so far; they are numbered 1..made
    holder,     \* who holds each lock object
    \* each thread
    pc,
    row,        \* the row it visits
    seenVal, seenVer, \* that row as the scan read it
    handle,     \* RowLockHandle.lock; 0 when it has no handle
    \* history
    updates,    \* successful updates of each row
    ops

table == <<live, val, ver, updates>>
locks == <<map, made, holder>>
scanned == <<row, seenVal, seenVer>>
lockVars == <<table, locks, scanned, pc, handle, ops>>

PCs == {"idle", "rowLock", "acquire", "change", "dropGuard", "evict", "unlock", "dropHandle"}

Locks == 1..MaxLocks

LockInit ==
    /\ live = Rows
    /\ val = [r \in Rows |-> 0] /\ ver = [r \in Rows |-> 1]
    /\ updates = [r \in Rows |-> 0]
    /\ map = [r \in Rows |-> 0] /\ made = 0 /\ holder = [l \in Locks |-> NoThread]
    /\ pc = [t \in Threads |-> "idle"]
    /\ row \in [Threads -> Rows]
    /\ seenVal = [t \in Threads |-> 0] /\ seenVer = [t \in Threads |-> 1]
    /\ handle = [t \in Threads |-> 0]
    /\ ops = 0

Goto(t, label) == pc' = [pc EXCEPT ![t] = label]

(* storage.scan, or storage.get of the conflicting row: no lock is held.   *)
Scan(t, r) ==
    /\ pc[t] = "idle" /\ r \in live /\ ops < MaxOps
    /\ ops' = ops + 1
    /\ row' = [row EXCEPT ![t] = r]
    /\ seenVal' = [seenVal EXCEPT ![t] = val[r]]
    /\ seenVer' = [seenVer EXCEPT ![t] = ver[r]]
    /\ Goto(t, "rowLock")
    /\ UNCHANGED <<table, locks, handle>>

(* row_lock, one operation on the shard of the DashMap: the lock of the    *)
(* row, made if there is none, cloned into the handle.                     *)
RowLock(t) ==
    /\ pc[t] = "rowLock"
    /\ IF map[row[t]] = 0
       THEN /\ made < MaxLocks
            /\ made' = made + 1
            /\ map' = [map EXCEPT ![row[t]] = made + 1]
            /\ handle' = [handle EXCEPT ![t] = made + 1]
       ELSE /\ handle' = [handle EXCEPT ![t] = map[row[t]]]
            /\ UNCHANGED <<made, map>>
    /\ Goto(t, "acquire")
    /\ UNCHANGED <<table, scanned, holder, ops>>

(* RowLockHandle::write.                                                   *)
Acquire(t) ==
    /\ pc[t] = "acquire" /\ holder[handle[t]] = NoThread
    /\ holder' = [holder EXCEPT ![handle[t]] = t]
    /\ Goto(t, "change")
    /\ UNCHANGED <<table, scanned, map, made, handle, ops>>

(* StorageEngine::update under the tables lock.  A row that is gone is     *)
(* passed over; a row that has another version than the one scanned is a   *)
(* VersionConflict.                                                        *)
FreshRowUnversioned(t) == row[t] \in live

FreshRow(t) == row[t] \in live /\ ver[row[t]] = seenVer[t]

NextVersionUnset(v) == 0

NextVersion(v) == v + 1

UpdateRow(t) ==
    /\ pc[t] = "change"
    /\ IF FreshRow(t)
       THEN /\ val' = [val EXCEPT ![row[t]] = seenVal[t] + 1]
            /\ ver' = [ver EXCEPT ![row[t]] = NextVersion(seenVer[t])]
            /\ updates' = [updates EXCEPT ![row[t]] = @ + 1]
       ELSE UNCHANGED <<val, ver, updates>>
    /\ Goto(t, "dropGuard")
    /\ UNCHANGED <<live, locks, scanned, handle, ops>>

(* StorageEngine::delete compares no version.                              *)
DeleteRow(t) ==
    /\ pc[t] = "change"
    /\ live' = live \ {row[t]}
    /\ Goto(t, "dropGuard")
    /\ UNCHANGED <<val, ver, updates, locks, scanned, handle, ops>>

(* Arc::strong_count: the entry of the map, and the handles.               *)
StrongCount(l) ==
    Cardinality({r \in Rows : map[r] = l}) + Cardinality({t \in Threads : handle[t] = l})

(* RowLockWriteGuard::drop: the count is read, then the entry of the key   *)
(* is removed, whichever lock it is by then; the inner guard goes last.    *)
DropGuard(t) ==
    /\ pc[t] = "dropGuard"
    /\ Goto(t, IF StrongCount(handle[t]) = 2 THEN "evict" ELSE "unlock")
    /\ UNCHANGED <<table, locks, scanned, handle, ops>>

Evict(t) ==
    /\ pc[t] = "evict"
    /\ map' = [map EXCEPT ![row[t]] = 0]
    /\ Goto(t, "unlock")
    /\ UNCHANGED <<table, scanned, made, holder, handle, ops>>

UnlockNothing(t) ==
    /\ pc[t] = "unlock"
    /\ Goto(t, "dropHandle")
    /\ UNCHANGED <<table, scanned, map, made, holder, handle, ops>>

Unlock(t) ==
    /\ pc[t] = "unlock"
    /\ holder' = [holder EXCEPT ![handle[t]] = NoThread]
    /\ Goto(t, "dropHandle")
    /\ UNCHANGED <<table, scanned, map, made, handle, ops>>

(* The handle goes after the guard, and looks at nothing.                  *)
DropHandle(t) ==
    /\ pc[t] = "dropHandle"
    /\ handle' = [handle EXCEPT ![t] = 0]
    /\ Goto(t, "idle")
    /\ UNCHANGED <<table, locks, scanned, ops>>

Visit(t) ==
    \/ RowLock(t)
    \/ Acquire(t)
    \/ UpdateRow(t)
    \/ DeleteRow(t)
    \/ DropGuard(t)
    \/ Evict(t)
    \/ Unlock(t)
    \/ DropHandle(t)

LockNext == \E t \in Threads : Visit(t) \/ \E r \in Rows : Scan(t, r)

LockSpec == LockInit /\ [][LockNext]_lockVars

(* The scheduler runs every thread, and the RwLock of parking_lot is       *)
(* eventually fair to its waiters.                                         *)
FairLockSpec == LockSpec /\ \A t \in Threads : WF_lockVars(Visit(t)) /\ SF_lockVars(Acquire(t))

-----------------------------------------------------------------------------
(* Every variable has its type.                                            *)
LockTypeOK ==
    /\ live \subseteq Rows
    /\ val \in [Rows -> Nat] /\ ver \in [Rows -> Nat \ {0}] /\ updates \in [Rows -> Nat]
    /\ map \in [Rows -> 0..MaxLocks] /\ made \in 0..MaxLocks
    /\ holder \in [Locks -> Threads \cup {NoThread}]
    /\ pc \in [Threads -> PCs]
    /\ row \in [Threads -> Rows]
    /\ seenVal \in [Threads -> Nat] /\ seenVer \in [Threads -> Nat \ {0}]
    /\ handle \in [Threads -> 0..MaxLocks]
    /\ ops \in 0..MaxOps

(* No lost update: every update that succeeded is in the value of the row, *)
(* although the rows are read outside the locks and two threads may hold   *)
(* "the" lock of a row.  The version check of StorageEngine::update alone  *)
(* makes it so.                                                            *)
NoLostUpdate == \A r \in Rows : val[r] = updates[r]

(* An Arc has one holder and a holder has its handle: nobody waits for a   *)
(* lock that a finished statement left locked.                             *)
HeldByHandle ==
    \A l \in Locks : holder[l] # NoThread =>
        handle[holder[l]] = l /\ pc[holder[l]] \in {"change", "dropGuard", "evict", "unlock"}

(* Every thread that asks for the lock of a row gets it and gives it back: *)
(* a statement holds one row lock at a time, so no two wait for each       *)
(* other.                                                                  *)
EveryVisitEnds == \A t \in Threads : pc[t] = "rowLock" ~> pc[t] = "idle"

=============================================================================
