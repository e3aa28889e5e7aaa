------------------------- MODULE BackupGate_proofs -------------------------
(***************************************************************************)
(* The invariants of BackupGate, for any number of sessions, statements,   *)
(* failures and backups.                                                   *)
(***************************************************************************)
EXTENDS BackupGate, FiniteSetTheorems, TLAPS

(* Where a statement is tells whether its transaction is open.             *)
PcInv ==
    \A s \in Sessions :
        /\ hasId[s] => active[s]
        /\ pc[s] \in {"beginCount", "stmtCount", "rows"} => active[s] /\ hasId[s]
        /\ pc[s] \in {"autoEnd", "commitEnd", "undo"} => ~active[s]

(* Where the statements and the backup are tells who holds the lock.       *)
LockInv ==
    /\ \A s \in Sessions : pc[s] \in {"beginTxn", "stmtCount", "rows", "autoEnd"} => s \in readers
    /\ bpc = "parked" <=> writer = "waiting"
    /\ bpc \in {"wait2", "checkpoint", "archive", "unlock"} <=> writer = "held"
    /\ writer = "held" => readers = {}

(* Rows of an unfinished transaction, or of one that was cut off, keep the *)
(* counter above zero.                                                     *)
DebtInv ==
    /\ \A s \in Sessions : wrote[s] => s \in Counted /\ pc[s] \notin {"autoEnd", "commitEnd"}
    /\ stray \cap {"undoFailed", "disconnected"} # {} => leaked > 0

IInv == TypeOK /\ CountExact /\ PcInv /\ LockInv /\ DebtInv /\ ArchiveIsAtomic

-----------------------------------------------------------------------------
(* What the counter does follows what its transactions do.                 *)
LEMMA CountStep ==
    ASSUME TypeOK, CountExact, NEW s \in Sessions, leaked' \in Nat,
           \/ Counted' = Counted /\ count' = count /\ leaked' = leaked
           \/ s \notin Counted /\ Counted' = Counted \cup {s} /\ count' = count + 1 /\ leaked' = leaked
           \/ s \in Counted /\ Counted' = Counted \ {s} /\ count' = count - 1 /\ leaked' = leaked
           \/ s \in Counted /\ Counted' = Counted \ {s} /\ count' = count /\ leaked' = leaked + 1
    PROVE  CountExact' /\ count' \in Nat
  <1>1. IsFiniteSet(Counted) /\ Cardinality(Counted) \in Nat
    BY FS_Subset, FS_CardinalityType, GateAssumption DEF Counted
  <1>2. IsFiniteSet(Counted') /\ Cardinality(Counted') \in Nat
    BY FS_Subset, FS_CardinalityType, GateAssumption DEF Counted
  <1>3. s \notin Counted => Cardinality(Counted \cup {s}) = Cardinality(Counted) + 1
    BY <1>1, FS_AddElement
  <1>4. s \in Counted => Cardinality(Counted \ {s}) = Cardinality(Counted) - 1
    BY <1>1, FS_RemoveElement
  <1> QED
    BY <1>1, <1>2, <1>3, <1>4 DEF CountExact, TypeOK

(* A counter of zero means that nothing is counted and no end was lost.    *)
LEMMA ZeroMeansNone ==
    ASSUME TypeOK, CountExact, count = 0
    PROVE  Counted = {} /\ leaked = 0
  <1>1. IsFiniteSet(Counted) /\ Cardinality(Counted) \in Nat
    BY FS_Subset, FS_CardinalityType, GateAssumption DEF Counted
  <1>2. Cardinality(Counted) = 0 /\ leaked = 0
    BY <1>1 DEF CountExact, TypeOK
  <1> QED
    BY <1>1, <1>2, FS_EmptySet

-----------------------------------------------------------------------------
(* Every step of a session keeps the invariant.                            *)
LEMMA SessionStepKeeps ==
    ASSUME IInv, NEW s \in Sessions,
           \/ ServerStep(s)
           \/ Begin(s) \/ SendDml(s) \/ WriteRow(s) \/ Commit(s) \/ Rollback(s)
           \/ BeginWriteTxnFails(s) \/ FailDml(s) \/ AutoCommitFails(s) \/ EndFails(s)
           \/ UndoFails(s) \/ Disconnect(s)
    PROVE  IInv'
  <1> USE GateAssumption DEF IInv, lock, rows, txn, hist, Set, Goto, Fault, NoRows, Statement
  <1>1. CASE BeginCounted(s)
    <2> USE <1>1 DEF BeginCounted
    <2>1. PcInv'
      BY DEF TypeOK, PcInv
    <2>2. LockInv'
      BY DEF TypeOK, LockInv
    <2>3. s \notin Counted /\ Counted' = Counted \cup {s}
      BY DEF Counted, TypeOK, PcInv
    <2>4. CountExact' /\ count' \in Nat
      BY <2>3, CountStep DEF TypeOK
    <2>5. DebtInv'
      BY <2>3 DEF TypeOK, PcInv, DebtInv, Counted
    <2>6. ArchiveIsAtomic'
      BY DEF TypeOK, ArchiveIsAtomic, LockInv
    <2>7. TypeOK'
      BY <2>4 DEF TypeOK, PCs
    <2> QED
      BY <2>1, <2>2, <2>4, <2>5, <2>6, <2>7
  <1>2. CASE AcquireRead(s)
    <2> USE <1>2 DEF AcquireRead
    <2>1. PcInv'
      BY DEF TypeOK, PcInv
    <2>2. LockInv'
      BY DEF TypeOK, LockInv
    <2>3. Counted' = Counted
      BY DEF Counted, TypeOK, PcInv
    <2>4. CountExact' /\ count' \in Nat
      BY <2>3, CountStep DEF TypeOK
    <2>5. DebtInv'
      BY <2>3 DEF TypeOK, PcInv, DebtInv, Counted
    <2>6. ArchiveIsAtomic'
      BY DEF TypeOK, ArchiveIsAtomic, LockInv
    <2>7. TypeOK'
      BY <2>4 DEF TypeOK, PCs
    <2> QED
      BY <2>1, <2>2, <2>4, <2>5, <2>6, <2>7
  <1>3. CASE BeginWriteTxn(s)
    <2> USE <1>3 DEF BeginWriteTxn
    <2>1. PcInv'
      BY DEF TypeOK, PcInv
    <2>2. LockInv'
      BY DEF TypeOK, LockInv
    <2>3. Counted' = Counted
      BY DEF Counted, TypeOK, PcInv
    <2>4. CountExact' /\ count' \in Nat
      BY <2>3, CountStep DEF TypeOK
    <2>5. DebtInv'
      BY <2>3 DEF TypeOK, PcInv, DebtInv, Counted
    <2>6. ArchiveIsAtomic'
      BY DEF TypeOK, ArchiveIsAtomic, LockInv
    <2>7. TypeOK'
      BY <2>4 DEF TypeOK, PCs
    <2> QED
      BY <2>1, <2>2, <2>4, <2>5, <2>6, <2>7
  <1>4. CASE StatementCounted(s)
    <2> USE <1>4 DEF StatementCounted
    <2>1. PcInv'
      BY DEF TypeOK, PcInv
    <2>2. LockInv'
      BY DEF TypeOK, LockInv
    <2>3. s \notin Counted /\ Counted' = Counted \cup {s}
      BY DEF Counted, TypeOK, PcInv
    <2>4. CountExact' /\ count' \in Nat
      BY <2>3, CountStep DEF TypeOK
    <2>5. DebtInv'
      BY <2>3 DEF TypeOK, PcInv, DebtInv, Counted
    <2>6. ArchiveIsAtomic'
      BY DEF TypeOK, ArchiveIsAtomic, LockInv
    <2>7. TypeOK'
      BY <2>4 DEF TypeOK, PCs
    <2> QED
      BY <2>1, <2>2, <2>4, <2>5, <2>6, <2>7
  <1>5. CASE EndDml(s)
    <2> USE <1>5 DEF EndDml
    <2>1. PcInv'
      BY DEF TypeOK, PcInv
    <2>2. LockInv'
      BY DEF TypeOK, LockInv
    <2>3. Counted' = Counted
      BY DEF Counted, TypeOK, PcInv
    <2>4. CountExact' /\ count' \in Nat
      BY <2>3, CountStep DEF TypeOK
    <2>5. DebtInv'
      BY <2>3 DEF TypeOK, PcInv, DebtInv, Counted
    <2>6. ArchiveIsAtomic'
      BY DEF TypeOK, ArchiveIsAtomic, LockInv
    <2>7. TypeOK'
      BY <2>4 DEF TypeOK, PCs
    <2> QED
      BY <2>1, <2>2, <2>4, <2>5, <2>6, <2>7
  <1>6. CASE AutoEnd(s)
    <2> USE <1>6 DEF AutoEnd
    <2>1. PcInv'
      BY DEF TypeOK, PcInv
    <2>2. LockInv'
      BY DEF TypeOK, LockInv
    <2>3. s \in Counted /\ Counted' = Counted \ {s}
      BY DEF Counted, TypeOK, PcInv
    <2>4. CountExact' /\ count' \in Nat
      BY <2>3, CountStep DEF TypeOK
    <2>5. DebtInv'
      BY <2>3 DEF TypeOK, PcInv, DebtInv, Counted
    <2>6. ArchiveIsAtomic'
      BY DEF TypeOK, ArchiveIsAtomic, LockInv
    <2>7. TypeOK'
      BY <2>4 DEF TypeOK, PCs
    <2> QED
      BY <2>1, <2>2, <2>4, <2>5, <2>6, <2>7
  <1>7. CASE CommitEnd(s)
    <2> USE <1>7 DEF CommitEnd
    <2>1. PcInv'
      BY DEF TypeOK, PcInv
    <2>2. LockInv'
      BY DEF TypeOK, LockInv
    <2>3. s \in Counted /\ Counted' = Counted \ {s}
      BY DEF Counted, TypeOK, PcInv
    <2>4. CountExact' /\ count' \in Nat
      BY <2>3, CountStep DEF TypeOK
    <2>5. DebtInv'
      BY <2>3 DEF TypeOK, PcInv, DebtInv, Counted
    <2>6. ArchiveIsAtomic'
      BY DEF TypeOK, ArchiveIsAtomic, LockInv
    <2>7. TypeOK'
      BY <2>4 DEF TypeOK, PCs
    <2> QED
      BY <2>1, <2>2, <2>4, <2>5, <2>6, <2>7
  <1>8. CASE Undo(s)
    <2> USE <1>8 DEF Undo
    <2>1. PcInv'
      BY DEF TypeOK, PcInv
    <2>2. LockInv'
      BY DEF TypeOK, LockInv
    <2>3. s \in Counted /\ Counted' = Counted \ {s}
      BY DEF Counted, TypeOK, PcInv
    <2>4. CountExact' /\ count' \in Nat
      BY <2>3, CountStep DEF TypeOK
    <2>5. DebtInv'
      BY <2>3 DEF TypeOK, PcInv, DebtInv, Counted
    <2>6. ArchiveIsAtomic'
      BY DEF TypeOK, ArchiveIsAtomic, LockInv
    <2>7. TypeOK'
      BY <2>4 DEF TypeOK, PCs
    <2> QED
      BY <2>1, <2>2, <2>4, <2>5, <2>6, <2>7
  <1>9. CASE Begin(s)
    <2> USE <1>9 DEF Begin
    <2>1. PcInv'
      BY DEF TypeOK, PcInv
    <2>2. LockInv'
      BY DEF TypeOK, LockInv
    <2>3. Counted' = Counted
      BY DEF Counted, TypeOK, PcInv
    <2>4. CountExact' /\ count' \in Nat
      BY <2>3, CountStep DEF TypeOK
    <2>5. DebtInv'
      BY <2>3 DEF TypeOK, PcInv, DebtInv, Counted
    <2>6. ArchiveIsAtomic'
      BY DEF TypeOK, ArchiveIsAtomic, LockInv
    <2>7. TypeOK'
      BY <2>4 DEF TypeOK, PCs
    <2> QED
      BY <2>1, <2>2, <2>4, <2>5, <2>6, <2>7
  <1>10. CASE SendDml(s)
    <2> USE <1>10 DEF SendDml
    <2>1. PcInv'
      BY DEF TypeOK, PcInv
    <2>2. LockInv'
      BY DEF TypeOK, LockInv
    <2>3. Counted' = Counted
      BY DEF Counted, TypeOK, PcInv
    <2>4. CountExact' /\ count' \in Nat
      BY <2>3, CountStep DEF TypeOK
    <2>5. DebtInv'
      BY <2>3 DEF TypeOK, PcInv, DebtInv, Counted
    <2>6. ArchiveIsAtomic'
      BY DEF TypeOK, ArchiveIsAtomic, LockInv
    <2>7. TypeOK'
      BY <2>4 DEF TypeOK, PCs
    <2> QED
      BY <2>1, <2>2, <2>4, <2>5, <2>6, <2>7
  <1>11. CASE WriteRow(s)
    <2> USE <1>11 DEF WriteRow
    <2>1. PcInv'
      BY DEF TypeOK, PcInv
    <2>2. LockInv'
      BY DEF TypeOK, LockInv
    <2>3. Counted' = Counted
      BY DEF Counted, TypeOK, PcInv
    <2>4. CountExact' /\ count' \in Nat
      BY <2>3, CountStep DEF TypeOK
    <2>5. DebtInv'
      BY <2>3 DEF TypeOK, PcInv, DebtInv, Counted
    <2>6. ArchiveIsAtomic'
      BY DEF TypeOK, ArchiveIsAtomic, LockInv
    <2>7. TypeOK'
      BY <2>4 DEF TypeOK, PCs
    <2> QED
      BY <2>1, <2>2, <2>4, <2>5, <2>6, <2>7
  <1>12. CASE Commit(s)
    <2> USE <1>12 DEF Commit
    <2>1. PcInv'
      BY DEF TypeOK, PcInv
    <2>2. LockInv'
      BY DEF TypeOK, LockInv
    <2>3. Counted' = Counted
      BY DEF Counted, TypeOK, PcInv
    <2>4. CountExact' /\ count' \in Nat
      BY <2>3, CountStep DEF TypeOK
    <2>5. DebtInv'
      BY <2>3 DEF TypeOK, PcInv, DebtInv, Counted
    <2>6. ArchiveIsAtomic'
      BY DEF TypeOK, ArchiveIsAtomic, LockInv
    <2>7. TypeOK'
      BY <2>4 DEF TypeOK, PCs
    <2> QED
      BY <2>1, <2>2, <2>4, <2>5, <2>6, <2>7
  <1>13. CASE Rollback(s)
    <2> USE <1>13 DEF Rollback
    <2>1. PcInv'
      BY DEF TypeOK, PcInv
    <2>2. LockInv'
      BY DEF TypeOK, LockInv
    <2>3. Counted' = Counted
      BY DEF Counted, TypeOK, PcInv
    <2>4. CountExact' /\ count' \in Nat
      BY <2>3, CountStep DEF TypeOK
    <2>5. DebtInv'
      BY <2>3 DEF TypeOK, PcInv, DebtInv, Counted
    <2>6. ArchiveIsAtomic'
      BY DEF TypeOK, ArchiveIsAtomic, LockInv
    <2>7. TypeOK'
      BY <2>4 DEF TypeOK, PCs
    <2> QED
      BY <2>1, <2>2, <2>4, <2>5, <2>6, <2>7
  <1>14. CASE BeginWriteTxnFails(s)
    <2> USE <1>14 DEF BeginWriteTxnFails
    <2>1. PcInv'
      BY DEF TypeOK, PcInv
    <2>2. LockInv'
      BY DEF TypeOK, LockInv
    <2>3. Counted' = Counted
      BY DEF Counted, TypeOK, PcInv
    <2>4. CountExact' /\ count' \in Nat
      BY <2>3, CountStep DEF TypeOK
    <2>5. DebtInv'
      BY <2>3 DEF TypeOK, PcInv, DebtInv, Counted
    <2>6. ArchiveIsAtomic'
      BY DEF TypeOK, ArchiveIsAtomic, LockInv
    <2>7. TypeOK'
      BY <2>4 DEF TypeOK, PCs
    <2> QED
      BY <2>1, <2>2, <2>4, <2>5, <2>6, <2>7
  <1>15. CASE FailDml(s)
    <2> USE <1>15 DEF FailDml
    <2>1. PcInv'
      BY DEF TypeOK, PcInv
    <2>2. LockInv'
      BY DEF TypeOK, LockInv
    <2>3. Counted' = Counted
      BY DEF Counted, TypeOK, PcInv
    <2>4. CountExact' /\ count' \in Nat
      BY <2>3, CountStep DEF TypeOK
    <2>5. DebtInv'
      BY <2>3 DEF TypeOK, PcInv, DebtInv, Counted
    <2>6. ArchiveIsAtomic'
      BY DEF TypeOK, ArchiveIsAtomic, LockInv
    <2>7. TypeOK'
      <3>1. unrecorded' \in [Sessions -> BOOLEAN]
        BY Zenon DEF TypeOK
      <3>2. faults' \in 0..MaxFaults
        BY DEF TypeOK
      <3>3. pc' \in [Sessions -> PCs] /\ readers' \subseteq Sessions
        BY DEF TypeOK, PCs
      <3> QED
        BY <2>4, <3>1, <3>2, <3>3, Zenon DEF TypeOK
    <2> QED
      BY <2>1, <2>2, <2>4, <2>5, <2>6, <2>7
  <1>16. CASE AutoCommitFails(s)
    <2> USE <1>16 DEF AutoCommitFails
    <2>1. PcInv'
      BY DEF TypeOK, PcInv
    <2>2. LockInv'
      BY DEF TypeOK, LockInv
    <2>3. Counted' = Counted
      BY DEF Counted, TypeOK, PcInv
    <2>4. CountExact' /\ count' \in Nat
      BY <2>3, CountStep DEF TypeOK
    <2>5. DebtInv'
      BY <2>3 DEF TypeOK, PcInv, DebtInv, Counted
    <2>6. ArchiveIsAtomic'
      BY DEF TypeOK, ArchiveIsAtomic, LockInv
    <2>7. TypeOK'
      BY <2>4 DEF TypeOK, PCs
    <2> QED
      BY <2>1, <2>2, <2>4, <2>5, <2>6, <2>7
  <1>17. CASE EndFails(s)
    <2> USE <1>17 DEF EndFails
    <2>1. PcInv'
      BY DEF TypeOK, PcInv
    <2>2. LockInv'
      BY DEF TypeOK, LockInv
    <2>3. Counted' = Counted
      BY DEF Counted, TypeOK, PcInv
    <2>4. CountExact' /\ count' \in Nat
      BY <2>3, CountStep DEF TypeOK
    <2>5. DebtInv'
      BY <2>3 DEF TypeOK, PcInv, DebtInv, Counted
    <2>6. ArchiveIsAtomic'
      BY DEF TypeOK, ArchiveIsAtomic, LockInv
    <2>7. TypeOK'
      BY <2>4 DEF TypeOK, PCs
    <2> QED
      BY <2>1, <2>2, <2>4, <2>5, <2>6, <2>7
  <1>18. CASE UndoFails(s)
    <2> USE <1>18 DEF UndoFails
    <2>1. PcInv'
      BY DEF TypeOK, PcInv
    <2>2. LockInv'
      BY DEF TypeOK, LockInv
    <2>3. s \in Counted /\ Counted' = Counted \ {s}
      BY DEF Counted, TypeOK, PcInv
    <2>4. CountExact' /\ count' \in Nat
      BY <2>3, CountStep DEF TypeOK
    <2>5. DebtInv'
      BY <2>3 DEF TypeOK, PcInv, DebtInv, Counted
    <2>6. ArchiveIsAtomic'
      BY DEF TypeOK, ArchiveIsAtomic, LockInv
    <2>7. TypeOK'
      BY <2>4 DEF TypeOK, PCs
    <2> QED
      BY <2>1, <2>2, <2>4, <2>5, <2>6, <2>7
  <1>19. CASE Disconnect(s)
    <2> USE <1>19 DEF Disconnect
    <2>1. PcInv'
      BY DEF TypeOK, PcInv
    <2>2. LockInv'
      BY DEF TypeOK, LockInv
    <2>3. s \in Counted /\ Counted' = Counted \ {s}
      BY DEF Counted, TypeOK, PcInv
    <2>4. CountExact' /\ count' \in Nat
      BY <2>3, CountStep DEF TypeOK
    <2>5. DebtInv'
      BY <2>3 DEF TypeOK, PcInv, DebtInv, Counted
    <2>6. ArchiveIsAtomic'
      BY DEF TypeOK, ArchiveIsAtomic, LockInv
    <2>7. TypeOK'
      BY <2>4 DEF TypeOK, PCs
    <2> QED
      BY <2>1, <2>2, <2>4, <2>5, <2>6, <2>7
  <1> QED
    BY <1>1, <1>2, <1>3, <1>4, <1>5, <1>6, <1>7, <1>8, <1>9, <1>10, <1>11, <1>12, <1>13, <1>14, <1>15, <1>16, <1>17, <1>18, <1>19 DEF ServerStep

(* So does every step of a backup.  The second wait, under the lock, finds *)
(* the counter at zero, which is what makes the archive atomic.            *)
LEMMA BackupStepKeeps ==
    ASSUME IInv, StartBackup \/ BackupFails \/ BackupStep
    PROVE  IInv'
  <1> USE GateAssumption DEF IInv, lock, rows, txn, hist, Fault, Backup
  <1>1. CASE StartBackup
    BY <1>1 DEF StartBackup, TypeOK, BackupPCs, CountExact, Counted, PcInv, LockInv, DebtInv,
                ArchiveIsAtomic
  <1>2. CASE BackupFails
    BY <1>2 DEF BackupFails, TypeOK, BackupPCs, CountExact, Counted, PcInv, LockInv, DebtInv,
                ArchiveIsAtomic
  <1>3. CASE Wait("wait1", "lock")
    BY <1>3 DEF Wait, TypeOK, BackupPCs, CountExact, Counted, PcInv, LockInv, DebtInv,
                ArchiveIsAtomic
  <1>4. CASE ParkWriter
    BY <1>4 DEF ParkWriter, TypeOK, BackupPCs, CountExact, Counted, PcInv, LockInv, DebtInv,
                ArchiveIsAtomic
  <1>5. CASE AcquireWrite
    BY <1>5 DEF AcquireWrite, TypeOK, BackupPCs, CountExact, Counted, PcInv, LockInv, DebtInv,
                ArchiveIsAtomic
  <1>6. CASE Wait("wait2", "checkpoint")
    <2> USE <1>6 DEF Wait
    <2>1. Counted = {} /\ leaked = 0
      BY ZeroMeansNone
    <2>2. (\A s \in Sessions : ~wrote[s]) /\ stray \subseteq {"rolledBack"}
      BY <2>1 DEF TypeOK, DebtInv
    <2>3. ArchiveIsAtomic'
      BY <2>2 DEF ArchiveIsAtomic
    <2> QED
      BY <2>3 DEF TypeOK, BackupPCs, CountExact, Counted, PcInv, LockInv, DebtInv
  <1>7. CASE Save("checkpoint", "archive") \/ Save("archive", "unlock")
    BY <1>7 DEF Save, TypeOK, BackupPCs, CountExact, Counted, PcInv, LockInv, DebtInv,
                ArchiveIsAtomic
  <1>8. CASE Unlock
    BY <1>8 DEF Unlock, TypeOK, BackupPCs, CountExact, Counted, PcInv, LockInv, DebtInv,
                ArchiveIsAtomic
  <1> QED
    BY <1>1, <1>2, <1>3, <1>4, <1>5, <1>6, <1>7, <1>8 DEF BackupStep

LEMMA InitHolds == Init => IInv
  <1> SUFFICES ASSUME Init
               PROVE  IInv
    OBVIOUS
  <1>1. Counted = {}
    BY DEF Init, Counted
  <1>2. CountExact
    BY <1>1, FS_EmptySet DEF Init, CountExact
  <1> QED
    BY <1>1, <1>2, GateAssumption
       DEF IInv, Init, TypeOK, PCs, BackupPCs, PcInv, LockInv, DebtInv, ArchiveIsAtomic

LEMMA StepKeeps == IInv /\ [Next]_vars => IInv'
  <1> SUFFICES ASSUME IInv, [Next]_vars
               PROVE  IInv'
    OBVIOUS
  <1>1. CASE UNCHANGED vars
    BY <1>1 DEF vars, lock, txn, rows, hist, IInv, TypeOK, CountExact, Counted, PcInv, LockInv,
                DebtInv, ArchiveIsAtomic
  <1> QED
    BY <1>1, SessionStepKeeps, BackupStepKeeps DEF Next

LEMMA Invariant == Spec => []IInv
  BY InitHolds, StepKeeps, PTL DEF Spec

(* Every variable keeps its type: active_write_txns never wraps below      *)
(* zero, however handlers fail and connections end (engine.rs, backup.rs). *)
THEOREM TypeCorrect == Spec => []TypeOK
  <1>1. IInv => TypeOK
    BY DEF IInv
  <1> QED
    BY <1>1, Invariant, PTL

(* active_write_txns is the number of open transactions plus the number of *)
(* ends that were lost, between any two steps of the handlers that change  *)
(* it.                                                                     *)
THEOREM CountStaysExact == Spec => []CountExact
  <1>1. IInv => CountExact
    BY DEF IInv
  <1> QED
    BY <1>1, Invariant, PTL

(* While backup_live checkpoints and archives, no row of an unfinished     *)
(* transaction or of one cut off by a disconnect or a failing undo is in   *)
(* memory.                                                                 *)
THEOREM ArchiveStaysAtomic == Spec => []ArchiveIsAtomic
  <1>1. IInv => ArchiveIsAtomic
    BY DEF IInv
  <1> QED
    BY <1>1, Invariant, PTL
=============================================================================
