------------------------ MODULE WriteAheadLog_proofs ------------------------
(* Proofs about WriteAheadLog, for any number of threads, any operations   *)
(* and any values of the batch, the interval and the bounds.               *)
EXTENDS WriteAheadLog, FiniteSetTheorems, SequenceTheorems, TLAPS

(* Mutual exclusion on the file, what the record being written looks like, *)
(* and what a stopped process has.                                         *)
LockInv ==
    /\ \A t \in Threads : pc[t] = "writeBody" <=> fileLock = t
    /\ \A t \in Threads : pc[t] = "writeBody" /\ file # <<>> =>
          file[Len(file)] = [lsn |-> myLsn[t], op |-> op[t], form |-> "torn"]
    /\ ~up => /\ pc = [t \in Threads |-> "idle"]
              /\ fileLock = NoThread

(* An operation is logged by one thread, once, and is acknowledged only    *)
(* when its record is complete.                                            *)
OpInv ==
    /\ \A i \in 1..Len(file) : file[i].op \in started
    /\ \A t \in Threads : pc[t] \in AppendSteps =>
          op[t] \in started /\ op[t] \notin acked
    /\ \A t, u \in Threads :
          t # u /\ pc[t] \in AppendSteps /\ pc[u] \in AppendSteps => op[t] # op[u]
    /\ \A t \in Threads, i \in 1..Len(file) :
          pc[t] \in AppendSteps /\ file[i].op = op[t]
             => pc[t] = "writeBody" /\ i = Len(file)

(* The readable records and the threads that hold a number share no LSN.   *)
LsnInv ==
    ~overlap =>
       /\ \A i \in Readable(file) : up => file[i].lsn <= lsn
       /\ \A i, j \in Readable(file) : i # j => file[i].lsn # file[j].lsn
       /\ \A t \in Threads : pc[t] \in Numbered =>
             /\ myLsn[t] <= lsn
             /\ \A i \in Readable(file) : file[i].lsn # myLsn[t]
       /\ \A t, u \in Threads :
             t # u /\ pc[t] \in Numbered /\ pc[u] \in Numbered => myLsn[t] # myLsn[u]

(* The counter bounds the acknowledged records no fsync has covered.       *)
SyncInv ==
    up => /\ Cardinality(UnsyncedAcked) <= unsynced
          /\ Cardinality(UnsyncedAcked) < Batch

Kept == (acked \cap Data) \ late

(* While nothing of `damage` happened: only the last record can be torn,   *)
(* what is acknowledged or being logged is in memory, and from the table   *)
(* write of a checkpoint to its truncate the table file alone suffices.    *)
LossInv ==
    damage = {} =>
       /\ \A i \in 1..Len(file) : i < Len(file) => file[i].form = "whole"
       /\ up => Kept \subseteq memory
       /\ \A t \in Threads : pc[t] \in AppendSteps /\ op[t] \in Data => op[t] \in memory
       /\ Rewriting \/ Kept \subseteq dat \cup OpsOnLog(file)
       /\ \A t \in Threads : pc[t] \in CheckpointWindow => Rewriting \/ Kept \subseteq dat

IInv == TypeOK /\ LockInv /\ OpInv /\ LsnInv /\ SyncInv /\ LossInv

-----------------------------------------------------------------------------
(* What the three ways to change the log file do to its readable part.     *)

LEMMA ReadableRange ==
    ASSUME NEW f \in Seq(Record)
    PROVE  /\ Len(f) \in Nat
           /\ Readable(f) \subseteq 1..Len(f)
           /\ \A i \in 1..Len(f) : f[i] \in Record
  BY LenProperties, ElementOfSeq DEF Readable

LEMMA CompleteLastElements ==
    ASSUME NEW f \in Seq(Record), f # <<>>, NEW g, g = CompleteLast(f)
    PROVE  /\ g \in Seq(Record)
           /\ Len(g) = Len(f) /\ Len(f) \in Nat \ {0}
           /\ \A j \in 1..Len(f) : j # Len(f) => g[j] = f[j]
           /\ g[Len(f)].lsn = f[Len(f)].lsn
           /\ g[Len(f)].op = f[Len(f)].op
           /\ g[Len(f)].form = "whole"
  <1> DEFINE n == Len(f)
             r == [f[n] EXCEPT !.form = "whole"]
  <1>1. n \in Nat \ {0} /\ n \in 1..Len(f)
    BY EmptySeq, LenProperties
  <1>2. f[n] \in Record
    BY <1>1, ElementOfSeq
  <1>3. r \in Record /\ r.lsn = f[n].lsn /\ r.op = f[n].op /\ r.form = "whole"
    BY <1>2 DEF Record
  <1>4. g = [f EXCEPT ![n] = r]
    BY DEF CompleteLast
  <1> HIDE DEF n, r
  <1>5. /\ g \in Seq(Record)
        /\ Len(g) = Len(f)
        /\ \A j \in 1..Len(f) : g[j] = IF j = n THEN r ELSE f[j]
    BY <1>1, <1>3, <1>4, ExceptSeq
  <1> QED
    BY <1>1, <1>3, <1>5 DEF n

LEMMA TearLastElements ==
    ASSUME NEW f \in Seq(Record), f # <<>>, NEW g, g = TearLast(f)
    PROVE  /\ g \in Seq(Record)
           /\ Len(g) = Len(f) /\ Len(f) \in Nat \ {0}
           /\ \A j \in 1..Len(f) : j # Len(f) => g[j] = f[j]
           /\ g[Len(f)].lsn = f[Len(f)].lsn
           /\ g[Len(f)].op = f[Len(f)].op
           /\ g[Len(f)].form = "torn"
  <1> DEFINE n == Len(f)
             r == [f[n] EXCEPT !.form = "torn"]
  <1>1. n \in Nat \ {0} /\ n \in 1..Len(f)
    BY EmptySeq, LenProperties
  <1>2. f[n] \in Record
    BY <1>1, ElementOfSeq
  <1>3. r \in Record /\ r.lsn = f[n].lsn /\ r.op = f[n].op /\ r.form = "torn"
    BY <1>2 DEF Record
  <1>4. g = [f EXCEPT ![n] = r]
    BY DEF TearLast
  <1> HIDE DEF n, r
  <1>5. /\ g \in Seq(Record)
        /\ Len(g) = Len(f)
        /\ \A j \in 1..Len(f) : g[j] = IF j = n THEN r ELSE f[j]
    BY <1>1, <1>3, <1>4, ExceptSeq
  <1> QED
    BY <1>1, <1>3, <1>5 DEF n

LEMMA PrefixElements ==
    ASSUME NEW f \in Seq(Record), NEW k \in 0..Len(f),
           NEW g, g = SubSeq(f, 1, k)
    PROVE  /\ g \in Seq(Record)
           /\ Len(g) = k
           /\ \A j \in 1..k : g[j] = f[j]
  OBVIOUS

(* WriteHeader adds a record that is not readable.                         *)
LEMMA AppendTorn ==
    ASSUME NEW f \in Seq(Record), NEW r \in Record, r.form = "torn"
    PROVE  /\ Append(f, r) \in Seq(Record)
           /\ Len(Append(f, r)) = Len(f) + 1
           /\ \A i \in 1..Len(f) : Append(f, r)[i] = f[i]
           /\ Append(f, r)[Len(f) + 1] = r
           /\ Readable(Append(f, r)) = Readable(f)
  <1> DEFINE g == Append(f, r)
  <1>1. /\ g \in Seq(Record)
        /\ Len(g) = Len(f) + 1
        /\ \A i \in 1..Len(f) : g[i] = f[i]
        /\ g[Len(f) + 1] = r
        /\ Len(f) \in Nat
    OBVIOUS
  <1> HIDE DEF g
  <1>2. Readable(g) = Readable(f)
    BY <1>1 DEF Readable
  <1> QED
    BY <1>1, <1>2 DEF g

(* WriteBody makes the last record whole; it is readable when the records  *)
(* before it are.                                                          *)
LEMMA CompleteLastReadable ==
    ASSUME NEW f \in Seq(Record), f # <<>>, NEW g, g = CompleteLast(f)
    PROVE  /\ g # <<>>
           /\ Readable(f) \subseteq Readable(g)
           /\ Readable(g) \subseteq Readable(f) \cup {Len(f)}
           /\ (\A i \in 1..Len(f) : i < Len(f) => f[i].form = "whole") => Len(f) \in Readable(g)
  <1>1. Len(f) \in Nat \ {0} /\ Len(f) \in 1..Len(f)
    BY EmptySeq, LenProperties
  <1>2. /\ g \in Seq(Record)
        /\ Len(g) = Len(f)
        /\ \A j \in 1..Len(f) : j # Len(f) => g[j] = f[j]
        /\ g[Len(f)].form = "whole"
    BY CompleteLastElements
  <1>3. g # <<>>
    BY <1>1, <1>2, EmptySeq
  <1>4. /\ Readable(f) \subseteq Readable(g)
        /\ Readable(g) \subseteq Readable(f) \cup {Len(f)}
        /\ (\A i \in 1..Len(f) : i < Len(f) => f[i].form = "whole") => Len(f) \in Readable(g)
    BY <1>1, <1>2 DEF Readable
  <1> QED
    BY <1>1, <1>2, <1>3, <1>4

(* A power loss cuts the file and may tear its last record.                *)
LEMMA SurvivingPrefix ==
    ASSUME NEW f \in Seq(Record), synced \in Nat, NEW g \in Surviving(f)
    PROVE  /\ g \in Seq(Record)
           /\ Len(g) \in Nat /\ Len(g) <= Len(f)
           /\ \A i \in 1..Len(g) : g[i].lsn = f[i].lsn /\ g[i].op = f[i].op
           /\ Readable(g) \subseteq Readable(f)
  <1>1. Len(f) \in Nat /\ \A i \in 1..Len(f) : f[i] \in Record
    BY ReadableRange
  <1>3. CASE \E k \in synced..Len(f) : g = SubSeq(f, 1, k)
    <2>1. PICK k \in 0..Len(f) : g = SubSeq(f, 1, k)
      BY <1>1, <1>3
    <2>2. g \in Seq(Record) /\ Len(g) = k /\ \A i \in 1..k : g[i] = f[i]
      BY <2>1, PrefixElements
    <2> QED
      BY <1>1, <2>2 DEF Readable
  <1>4. CASE \E k \in (synced + 1)..Len(f) : g = TearLast(SubSeq(f, 1, k))
    <2>1. PICK k \in 1..Len(f) : g = TearLast(SubSeq(f, 1, k))
      BY <1>1, <1>4
    <2>2. PICK h : h = SubSeq(f, 1, k)
      OBVIOUS
    <2>3. h \in Seq(Record) /\ Len(h) = k /\ \A i \in 1..k : h[i] = f[i]
      <3>1. k \in 0..Len(f)
        BY <1>1
      <3> QED
        BY <3>1, <2>2, PrefixElements, Zenon
    <2>4. g = TearLast(h) /\ h # <<>>
      BY <1>1, <2>1, <2>2, <2>3
    <2>5. /\ g \in Seq(Record)
          /\ Len(g) = k
          /\ \A j \in 1..k : j # k => g[j] = f[j]
          /\ g[k].lsn = f[k].lsn /\ g[k].op = f[k].op /\ g[k].form = "torn"
      <3>1. /\ g \in Seq(Record)
            /\ Len(g) = Len(h)
            /\ \A j \in 1..Len(h) : j # Len(h) => g[j] = h[j]
            /\ g[Len(h)].lsn = h[Len(h)].lsn
            /\ g[Len(h)].op = h[Len(h)].op
            /\ g[Len(h)].form = "torn"
        BY <2>3, <2>4, TearLastElements
      <3> QED
        BY <2>3, <3>1
    <2> QED
      BY <1>1, <2>5 DEF Readable
  <1> QED
    BY <1>3, <1>4 DEF Surviving

-----------------------------------------------------------------------------
(* The type invariant is inductive together with the facts that an         *)
(* operation is started before it is logged.                               *)
(* The file a completed append leaves, by the two cases of Completed.      *)
LEMMA CompletedFile ==
    ASSUME TypeOK, LockInv, OpInv, NEW t \in Threads, pc[t] = "writeBody",
           file' = Completed(t)
    PROVE  /\ file' \in Seq(Record) /\ file' # <<>>
           /\ \/ /\ file = <<>>
                 /\ Len(file') = 1
                 /\ file'[1] = [lsn |-> myLsn[t], op |-> op[t], form |-> "torn"]
                 /\ Readable(file') = {} /\ Readable(file) = {}
              \/ /\ file # <<>>
                 /\ Len(file') = Len(file) /\ Len(file) \in Nat \ {0}
                 /\ \A i \in 1..Len(file) : i # Len(file) => file'[i] = file[i]
                 /\ file'[Len(file)].lsn = myLsn[t]
                 /\ file'[Len(file)].op = op[t]
                 /\ file'[Len(file)].form = "whole"
                 /\ Readable(file) \subseteq Readable(file')
                 /\ Readable(file') \subseteq Readable(file) \cup {Len(file)}
                 /\ (\A i \in 1..Len(file) : i < Len(file) => file[i].form = "whole")
                       => Len(file) \in Readable(file')
  <1> DEFINE r == [lsn |-> myLsn[t], op |-> op[t], form |-> "torn"]
  <1>1. r \in Record
    BY DEF TypeOK, OpInv, AppendSteps, Record
  <1>2. file \in Seq(Record)
    BY DEF TypeOK
  <1>3. CASE file = <<>>
    <2>1. file' = <<r>>
      BY <1>3 DEF Completed
    <2>2. file' \in Seq(Record) /\ file' # <<>> /\ Len(file') = 1 /\ file'[1] = r
      BY <1>1, <2>1
    <2>3. Readable(file) = {}
      BY <1>3 DEF Readable
    <2>4. Readable(file') = {}
      BY <2>2 DEF Readable
    <2> QED
      BY <1>3, <2>2, <2>3, <2>4
  <1>4. CASE file # <<>>
    <2>1. file' = CompleteLast(file)
      BY <1>4 DEF Completed
    <2>2. file[Len(file)] = r
      BY <1>4 DEF LockInv
    <2>3. /\ file' \in Seq(Record)
          /\ Len(file') = Len(file) /\ Len(file) \in Nat \ {0}
          /\ \A j \in 1..Len(file) : j # Len(file) => file'[j] = file[j]
          /\ file'[Len(file)].lsn = file[Len(file)].lsn
          /\ file'[Len(file)].op = file[Len(file)].op
          /\ file'[Len(file)].form = "whole"
      BY <1>2, <1>4, <2>1, CompleteLastElements
    <2>4. /\ file' # <<>>
          /\ Readable(file) \subseteq Readable(file')
          /\ Readable(file') \subseteq Readable(file) \cup {Len(file)}
          /\ (\A i \in 1..Len(file) : i < Len(file) => file[i].form = "whole")
                => Len(file) \in Readable(file')
      BY <1>2, <1>4, <2>1, CompleteLastReadable
    <2> QED
      BY <1>4, <2>2, <2>3, <2>4
  <1> QED
    BY <1>3, <1>4

(* The file WriteHeader leaves.                                            *)
LEMMA HeaderFile ==
    ASSUME TypeOK, OpInv, NEW t \in Threads, WriteHeader(t)
    PROVE  /\ file' \in Seq(Record)
           /\ Len(file) \in Nat /\ Len(file') = Len(file) + 1
           /\ \A i \in 1..Len(file) : file'[i] = file[i]
           /\ file'[Len(file) + 1] = [lsn |-> myLsn[t], op |-> op[t], form |-> "torn"]
           /\ Readable(file') = Readable(file)
           /\ Readable(file) \subseteq 1..Len(file)
  <1> DEFINE r == [lsn |-> myLsn[t], op |-> op[t], form |-> "torn"]
  <1>1. r \in Record /\ r.form = "torn"
    BY DEF TypeOK, OpInv, WriteHeader, AppendSteps, Record
  <1>2. file \in Seq(Record) /\ file' = Append(file, r)
    BY DEF TypeOK, WriteHeader
  <1> HIDE DEF r
  <1>3. Len(file) \in Nat /\ Readable(file) \subseteq 1..Len(file)
    BY <1>2, ReadableRange
  <1> QED
    BY <1>1, <1>2, <1>3, AppendTorn DEF r

LEMMA TypeStep ==
    ASSUME TypeOK, LockInv, OpInv, [Next]_vars
    PROVE  TypeOK'
  <1>1. ASSUME NEW t \in Threads, NEW o \in Ops, Start(t, o)
        PROVE  TypeOK'
    BY <1>1, BoundsAssumption DEF Start, Goto, TypeOK, disk, hist, PCs, AppendSteps, CheckpointWindow, CheckpointIO, Ops, Damages
  <1>2. ASSUME NEW t \in Threads, Alloc(t)
        PROVE  TypeOK'
    BY <1>2, BoundsAssumption DEF Alloc, Goto, TypeOK, disk, hist, PCs, AppendSteps, CheckpointWindow, CheckpointIO, Ops, Damages
  <1>3. ASSUME NEW t \in Threads, WriteHeader(t)
        PROVE  TypeOK'
    <2>1. file' \in Seq(Record)
      BY <1>3, HeaderFile
    <2>2. damage' \subseteq Damages
      BY <1>3 DEF WriteHeader, TypeOK, Damages
    <2> QED
      BY <1>3, <2>1, <2>2 DEF WriteHeader, Goto, TypeOK, PCs, AppendSteps
  <1>4. ASSUME NEW t \in Threads, WriteBody(t)
        PROVE  TypeOK'
    <2>1. file' \in Seq(Record)
      BY <1>4, CompletedFile DEF WriteBody
    <2>2. Len(file') \in Nat
      BY <2>1
    <2>3. op[t] \in started
      BY <1>4 DEF WriteBody, OpInv, AppendSteps
    <2> QED
      BY <1>4, <2>1, <2>2, <2>3, BoundsAssumption DEF WriteBody, EndAppend, Goto, TypeOK, PCs
  <1>5. ASSUME NEW t \in Threads, SyncFails(t)
        PROVE  TypeOK'
    <2>1. file' \in Seq(Record)
      BY <1>5, CompletedFile DEF SyncFails
    <2>2. Len(file') \in Nat
      BY <2>1
    <2>3. op[t] \in started
      BY <1>5 DEF SyncFails, OpInv, AppendSteps
    <2> QED
      BY <1>5, <2>1, <2>2, <2>3, BoundsAssumption DEF SyncFails, EndAppend, Goto, TypeOK, PCs, Fault
  <1>6. ASSUME NEW t \in Threads, WriteFails(t)
        PROVE  TypeOK'
    BY <1>6, BoundsAssumption DEF WriteFails, EndAppend, Goto, Fault, TypeOK, disk, hist, PCs, AppendSteps, CheckpointWindow, CheckpointIO, Ops, Damages
  <1>7. ASSUME NEW t \in Threads, MaybeCheckpoint(t)
        PROVE  TypeOK'
    BY <1>7, BoundsAssumption DEF MaybeCheckpoint, Goto, TypeOK, disk, hist, PCs, AppendSteps, CheckpointWindow, CheckpointIO, Ops, Damages
  <1>8. ASSUME NEW t \in Threads, StartCheckpoint(t)
        PROVE  TypeOK'
    BY <1>8, BoundsAssumption DEF StartCheckpoint, Goto, TypeOK, disk, hist, PCs, AppendSteps, CheckpointWindow, CheckpointIO, Ops, Damages
  <1>9. ASSUME NEW t \in Threads, PersistOpen(t)
        PROVE  TypeOK'
    BY <1>9, BoundsAssumption DEF PersistOpen, Goto, TypeOK, disk, hist, PCs, AppendSteps, CheckpointWindow, CheckpointIO, Ops, Damages
  <1>10. ASSUME NEW t \in Threads, PersistWrite(t)
        PROVE  TypeOK'
    BY <1>10, BoundsAssumption DEF PersistWrite, Goto, TypeOK, disk, hist, PCs, AppendSteps, CheckpointWindow, CheckpointIO, Ops, Damages
  <1>11. ASSUME NEW t \in Threads, ReadLsn(t)
        PROVE  TypeOK'
    BY <1>11, BoundsAssumption DEF ReadLsn, Goto, TypeOK, disk, hist, PCs, AppendSteps, CheckpointWindow, CheckpointIO, Ops, Damages
  <1>12. ASSUME NEW t \in Threads, Flush(t, "flushMark", "markOpen")
        PROVE  TypeOK'
    BY <1>12, BoundsAssumption DEF Flush, Goto, TypeOK, disk, hist, PCs, AppendSteps, CheckpointWindow, CheckpointIO, Ops, Damages
  <1>13. ASSUME NEW t \in Threads, MarkOpen(t)
        PROVE  TypeOK'
    BY <1>13, BoundsAssumption DEF MarkOpen, Goto, TypeOK, disk, hist, PCs, AppendSteps, CheckpointWindow, CheckpointIO, Ops, Damages
  <1>14. ASSUME NEW t \in Threads, MarkWrite(t)
        PROVE  TypeOK'
    BY <1>14, BoundsAssumption DEF MarkWrite, Goto, TypeOK, disk, hist, PCs, AppendSteps, CheckpointWindow, CheckpointIO, Ops, Damages
  <1>15. ASSUME NEW t \in Threads, Flush(t, "flushTruncate", "truncate")
        PROVE  TypeOK'
    BY <1>15, BoundsAssumption DEF Flush, Goto, TypeOK, disk, hist, PCs, AppendSteps, CheckpointWindow, CheckpointIO, Ops, Damages
  <1>16. ASSUME NEW t \in Threads, Truncate(t)
        PROVE  TypeOK'
    BY <1>16, BoundsAssumption DEF Truncate, Goto, TypeOK, disk, hist, PCs, AppendSteps, CheckpointWindow, CheckpointIO, Ops, Damages
  <1>17. ASSUME NEW t \in Threads, ResetLsn(t)
        PROVE  TypeOK'
    BY <1>17, BoundsAssumption DEF ResetLsn, Goto, TypeOK, disk, hist, PCs, AppendSteps, CheckpointWindow, CheckpointIO, Ops, Damages
  <1>18. ASSUME NEW t \in Threads, CheckpointFails(t)
        PROVE  TypeOK'
    <2>1. corrupt' \in BOOLEAN
      BY <1>18, Zenon DEF CheckpointFails, TypeOK
    <2>2. damage' \subseteq Damages
      BY <1>18 DEF CheckpointFails, TypeOK, Damages
    <2> QED
      BY <1>18, <2>1, <2>2, BoundsAssumption DEF CheckpointFails, Goto, Fault, TypeOK, PCs
  <1>19. CASE ProcessKilled
    <2>1. corrupt' \in BOOLEAN
      BY <1>19, Zenon DEF ProcessKilled, TableFileAfterCrash, TypeOK
    <2>2. damage' \subseteq Damages
      BY <1>19 DEF ProcessKilled, TypeOK, Damages
    <2>a. up' \in BOOLEAN
      BY <1>19, Zenon DEF ProcessKilled, Stopped
    <2>4. /\ memory' \subseteq Data /\ lsn' \in 0..MaxLsn
          /\ opsSince' \in Nat /\ unsynced' \in Nat
          /\ fileLock' \in Threads \cup {NoThread}
      BY <1>19, BoundsAssumption DEF ProcessKilled, Stopped
    <2>5. /\ pc' \in [Threads -> PCs]
          /\ op' \in [Threads -> Ops \cup {NoOp}]
          /\ myLsn' \in [Threads -> 0..MaxLsn]
      BY <1>19, BoundsAssumption DEF ProcessKilled, Stopped, PCs
    <2> QED
      BY <1>19, <2>1, <2>2, <2>a, <2>4, <2>5, BoundsAssumption DEF ProcessKilled, Fault, TypeOK
  <1>20. CASE PowerLoss
    <2>1. corrupt' \in BOOLEAN
      BY <1>20, Zenon DEF PowerLoss, TableFileAfterCrash, TypeOK
    <2>2. damage' \subseteq Damages
      BY <1>20 DEF PowerLoss, TypeOK, Damages
    <2>3. file' \in Seq(Record)
      BY <1>20, SurvivingPrefix DEF PowerLoss, TypeOK
    <2>a. up' \in BOOLEAN
      BY <1>20, Zenon DEF PowerLoss, Stopped
    <2>4. /\ memory' \subseteq Data /\ lsn' \in 0..MaxLsn
          /\ opsSince' \in Nat /\ unsynced' \in Nat
          /\ fileLock' \in Threads \cup {NoThread}
      BY <1>20, BoundsAssumption DEF PowerLoss, Stopped
    <2>5. /\ pc' \in [Threads -> PCs]
          /\ op' \in [Threads -> Ops \cup {NoOp}]
          /\ myLsn' \in [Threads -> 0..MaxLsn]
      BY <1>20, BoundsAssumption DEF PowerLoss, Stopped, PCs
    <2> QED
      BY <1>20, <2>1, <2>2, <2>3, <2>a, <2>4, <2>5, BoundsAssumption DEF PowerLoss, Fault, TypeOK
  <1>21. CASE Open
    <2>1. damage' \subseteq Damages
      BY <1>21 DEF Open, TypeOK, Damages
    <2>2. Len(file) \in Nat /\ \A i \in 1..Len(file) : file[i].lsn \in 0..MaxLsn
      BY ReadableRange DEF TypeOK, Record
    <2>3. lsn' \in 0..MaxLsn
      BY <1>21, <2>2, BoundsAssumption DEF Open, MaxLsnReadings
    <2> QED
      BY <1>21, <2>1, <2>2, <2>3 DEF Open, TypeOK, disk
  <1>22. CASE UNCHANGED vars
    BY <1>22 DEF TypeOK, vars, disk, proc, hist
  <1>23. ASSUME NEW t \in Threads, PersistSyncFails(t)
        PROVE  TypeOK'
    <2>1. corrupt' \in BOOLEAN
      BY <1>23, Zenon DEF PersistSyncFails
    <2>2. damage' \subseteq Damages
      BY <1>23 DEF PersistSyncFails, TypeOK, Damages
    <2> QED
      BY <1>23, <2>1, <2>2, BoundsAssumption DEF PersistSyncFails, Goto, Fault, TypeOK, PCs
  <1>24. ASSUME NEW t \in Threads, MarkSyncFails(t)
        PROVE  TypeOK'
    BY <1>24, BoundsAssumption DEF MarkSyncFails, Goto, Fault, TypeOK, disk, hist, PCs, AppendSteps, CheckpointWindow, CheckpointIO, Ops, Damages
  <1>25. ASSUME NEW t \in Threads, TruncateSyncFails(t)
        PROVE  TypeOK'
    BY <1>25, BoundsAssumption DEF TruncateSyncFails, Goto, Fault, TypeOK, disk, hist, PCs, AppendSteps, CheckpointWindow, CheckpointIO, Ops, Damages
  <1> QED
    BY <1>1, <1>2, <1>3, <1>4, <1>5, <1>6, <1>7, <1>8, <1>9, <1>10, <1>11, <1>12, <1>13, <1>14, <1>15, <1>16, <1>17, <1>18, <1>19,
       <1>20, <1>21, <1>22, <1>23, <1>24, <1>25 DEF Next, AppendStep, CheckpointStep

(* Appends exclude each other, and leave the record of the lock holder last. *)
LEMMA LockStep ==
    ASSUME TypeOK, LockInv, OpInv, [Next]_vars
    PROVE  LockInv'
  <1>1. ASSUME NEW t \in Threads, NEW o \in Ops, Start(t, o)
        PROVE  LockInv'
    BY <1>1, ThreadsAssumption DEF Start, Goto, LockInv, TypeOK, disk, hist, CheckpointIO, CheckpointWindow
  <1>2. ASSUME NEW t \in Threads, Alloc(t)
        PROVE  LockInv'
    BY <1>2, ThreadsAssumption DEF Alloc, Goto, LockInv, TypeOK, disk, hist, CheckpointIO, CheckpointWindow
  <1>3. ASSUME NEW t \in Threads, WriteHeader(t)
        PROVE  LockInv'
    <2>1. /\ Len(file') = Len(file) + 1 /\ Len(file) \in Nat
          /\ file'[Len(file) + 1] = [lsn |-> myLsn[t], op |-> op[t], form |-> "torn"]
      BY <1>3, HeaderFile
    <2> QED
      BY <1>3, <2>1, ThreadsAssumption DEF WriteHeader, Goto, LockInv, TypeOK
  <1>4. ASSUME NEW t \in Threads, WriteBody(t)
        PROVE  LockInv'
    BY <1>4, ThreadsAssumption DEF WriteBody, EndAppend, Goto, LockInv, TypeOK, disk, hist, CheckpointIO, CheckpointWindow
  <1>5. ASSUME NEW t \in Threads, SyncFails(t)
        PROVE  LockInv'
    BY <1>5, ThreadsAssumption DEF SyncFails, EndAppend, Goto, LockInv, TypeOK, disk, hist, CheckpointIO, CheckpointWindow
  <1>6. ASSUME NEW t \in Threads, WriteFails(t)
        PROVE  LockInv'
    BY <1>6, ThreadsAssumption DEF WriteFails, EndAppend, Goto, LockInv, TypeOK, disk, hist, CheckpointIO, CheckpointWindow
  <1>7. ASSUME NEW t \in Threads, MaybeCheckpoint(t)
        PROVE  LockInv'
    BY <1>7, ThreadsAssumption DEF MaybeCheckpoint, Goto, LockInv, TypeOK, disk, hist, CheckpointIO, CheckpointWindow
  <1>8. ASSUME NEW t \in Threads, StartCheckpoint(t)
        PROVE  LockInv'
    BY <1>8, ThreadsAssumption DEF StartCheckpoint, Goto, LockInv, TypeOK, disk, hist, CheckpointIO, CheckpointWindow
  <1>9. ASSUME NEW t \in Threads, PersistOpen(t)
        PROVE  LockInv'
    BY <1>9, ThreadsAssumption DEF PersistOpen, Goto, LockInv, TypeOK, disk, hist, CheckpointIO, CheckpointWindow
  <1>10. ASSUME NEW t \in Threads, PersistWrite(t)
        PROVE  LockInv'
    BY <1>10, ThreadsAssumption DEF PersistWrite, Goto, LockInv, TypeOK, disk, hist, CheckpointIO, CheckpointWindow
  <1>11. ASSUME NEW t \in Threads, ReadLsn(t)
        PROVE  LockInv'
    BY <1>11, ThreadsAssumption DEF ReadLsn, Goto, LockInv, TypeOK, disk, hist, CheckpointIO, CheckpointWindow
  <1>12. ASSUME NEW t \in Threads, Flush(t, "flushMark", "markOpen")
        PROVE  LockInv'
    BY <1>12, ThreadsAssumption DEF Flush, Goto, LockInv, TypeOK, disk, hist, CheckpointIO, CheckpointWindow
  <1>13. ASSUME NEW t \in Threads, MarkOpen(t)
        PROVE  LockInv'
    BY <1>13, ThreadsAssumption DEF MarkOpen, Goto, LockInv, TypeOK, disk, hist, CheckpointIO, CheckpointWindow
  <1>14. ASSUME NEW t \in Threads, MarkWrite(t)
        PROVE  LockInv'
    BY <1>14, ThreadsAssumption DEF MarkWrite, Goto, LockInv, TypeOK, disk, hist, CheckpointIO, CheckpointWindow
  <1>15. ASSUME NEW t \in Threads, Flush(t, "flushTruncate", "truncate")
        PROVE  LockInv'
    BY <1>15, ThreadsAssumption DEF Flush, Goto, LockInv, TypeOK, disk, hist, CheckpointIO, CheckpointWindow
  <1>16. ASSUME NEW t \in Threads, Truncate(t)
        PROVE  LockInv'
    BY <1>16, ThreadsAssumption DEF Truncate, Goto, LockInv, TypeOK, disk, hist, CheckpointIO, CheckpointWindow
  <1>17. ASSUME NEW t \in Threads, ResetLsn(t)
        PROVE  LockInv'
    BY <1>17, ThreadsAssumption DEF ResetLsn, Goto, LockInv, TypeOK, disk, hist, CheckpointIO, CheckpointWindow
  <1>18. ASSUME NEW t \in Threads, CheckpointFails(t)
        PROVE  LockInv'
    BY <1>18, ThreadsAssumption DEF CheckpointFails, Goto, LockInv, TypeOK, disk, hist, CheckpointIO, CheckpointWindow
  <1>19. CASE ProcessKilled
    BY <1>19, ThreadsAssumption DEF ProcessKilled, Stopped, LockInv, TypeOK, disk, hist, CheckpointIO, CheckpointWindow
  <1>20. CASE PowerLoss
    BY <1>20, ThreadsAssumption DEF PowerLoss, Stopped, LockInv, TypeOK, disk, hist, CheckpointIO, CheckpointWindow
  <1>21. CASE Open
    BY <1>21, ThreadsAssumption DEF Open, LockInv, TypeOK, disk, hist, CheckpointIO, CheckpointWindow
  <1>22. CASE UNCHANGED vars
    BY <1>22 DEF LockInv, vars, disk, proc, hist
  <1>23. ASSUME NEW t \in Threads, PersistSyncFails(t)
        PROVE  LockInv'
    BY <1>23, ThreadsAssumption DEF PersistSyncFails, Goto, LockInv, TypeOK, disk, hist, CheckpointIO, CheckpointWindow
  <1>24. ASSUME NEW t \in Threads, MarkSyncFails(t)
        PROVE  LockInv'
    BY <1>24, ThreadsAssumption DEF MarkSyncFails, Goto, LockInv, TypeOK, disk, hist, CheckpointIO, CheckpointWindow
  <1>25. ASSUME NEW t \in Threads, TruncateSyncFails(t)
        PROVE  LockInv'
    BY <1>25, ThreadsAssumption DEF TruncateSyncFails, Goto, LockInv, TypeOK, disk, hist, CheckpointIO, CheckpointWindow
  <1> QED
    BY <1>1, <1>2, <1>3, <1>4, <1>5, <1>6, <1>7, <1>8, <1>9, <1>10, <1>11, <1>12, <1>13, <1>14, <1>15, <1>16, <1>17, <1>18, <1>19,
       <1>20, <1>21, <1>22, <1>23, <1>24, <1>25 DEF Next, AppendStep, CheckpointStep

(* Every operation is logged once.                                         *)
LEMMA OpStep ==
    ASSUME TypeOK, LockInv, OpInv, [Next]_vars
    PROVE  OpInv'
  <1>1. ASSUME NEW t \in Threads, NEW o \in Ops, Start(t, o)
        PROVE  OpInv'
    BY <1>1 DEF Start, Goto, OpInv, TypeOK, disk, hist, AppendSteps, CheckpointIO, CheckpointWindow
  <1>2. ASSUME NEW t \in Threads, Alloc(t)
        PROVE  OpInv'
    BY <1>2 DEF Alloc, Goto, OpInv, TypeOK, disk, hist, AppendSteps, CheckpointIO, CheckpointWindow
  <1>3. ASSUME NEW t \in Threads, WriteHeader(t)
        PROVE  OpInv'
    <2>1. /\ Len(file) \in Nat /\ Len(file') = Len(file) + 1
          /\ \A i \in 1..Len(file) : file'[i] = file[i]
          /\ file'[Len(file) + 1] = [lsn |-> myLsn[t], op |-> op[t], form |-> "torn"]
      BY <1>3, HeaderFile
    <2>a. file'[Len(file) + 1].op = op[t]
      BY <2>1
    <2>2. \A u \in Threads : u # t => pc[u] # "writeBody"
      BY <1>3, ThreadsAssumption DEF WriteHeader, LockInv
    <2> QED
      BY <1>3, <2>1, <2>a, <2>2 DEF WriteHeader, Goto, OpInv, TypeOK, AppendSteps
  <1>4. ASSUME NEW t \in Threads, WriteBody(t)
        PROVE  OpInv'
    <2>0. pc[t] = "writeBody" /\ file' = Completed(t)
      BY <1>4 DEF WriteBody
    <2>1. /\ Len(file') \in Nat
          /\ \A i \in 1..Len(file') : file'[i].op = op[t] \/ (i \in 1..Len(file) /\ file'[i].op = file[i].op)
          /\ \A i \in 1..Len(file') : file'[i].op = op[t] => i = Len(file')
      <3>1. CASE file = <<>>
        <4>1. Len(file') = 1 /\ file'[1] = [lsn |-> myLsn[t], op |-> op[t], form |-> "torn"]
          BY <2>0, <3>1, CompletedFile
        <4>2. file'[1].op = op[t]
          BY <4>1
        <4> QED
          BY <4>1, <4>2
      <3>2. CASE file # <<>>
        <4>1. /\ Len(file') = Len(file) /\ Len(file) \in Nat \ {0}
              /\ \A i \in 1..Len(file) : i # Len(file) => file'[i] = file[i]
              /\ file'[Len(file)].op = op[t]
          BY <2>0, <3>2, CompletedFile
        <4>2. \A i \in 1..Len(file) : file[i].op = op[t] => i = Len(file)
          BY <2>0 DEF OpInv, AppendSteps
        <4> QED
          BY <4>1, <4>2
      <3> QED
        BY <3>1, <3>2
    <2>2. \A u \in Threads : u # t => pc[u] # "writeBody"
      BY <1>4 DEF WriteBody, LockInv
    <2>3. /\ op[t] \in started /\ op[t] \notin acked
          /\ \A u \in Threads : u # t /\ pc[u] \in AppendSteps =>
                op[u] \in started /\ op[u] \notin acked /\ op[u] # op[t]
          /\ \A u \in Threads, i \in 1..Len(file) :
                u # t /\ pc[u] \in AppendSteps => file[i].op # op[u]
      BY <2>0, <2>2 DEF OpInv, AppendSteps
    <2>4. /\ started' = started /\ acked' \subseteq acked \cup {op[t]}
          /\ \A u \in Threads : pc'[u] \in AppendSteps => u # t /\ pc[u] \in AppendSteps /\ op'[u] = op[u]
      BY <1>4 DEF WriteBody, EndAppend, Goto, TypeOK, AppendSteps
    <2>5. \A i \in 1..Len(file') : file'[i].op \in started'
      BY <2>1, <2>3, <2>4 DEF OpInv
    <2>6. \A u \in Threads, i \in 1..Len(file') : pc'[u] \in AppendSteps => file'[i].op # op'[u]
      BY <2>1, <2>3, <2>4
    <2>7. \A u, v \in Threads : u # v /\ pc'[u] \in AppendSteps /\ pc'[v] \in AppendSteps => op'[u] # op'[v]
      BY <2>4 DEF OpInv
    <2> QED
      BY <2>3, <2>4, <2>5, <2>6, <2>7 DEF OpInv
  <1>5. ASSUME NEW t \in Threads, SyncFails(t)
        PROVE  OpInv'
    <2>0. pc[t] = "writeBody" /\ file' = Completed(t)
      BY <1>5 DEF SyncFails
    <2>1. /\ Len(file') \in Nat
          /\ \A i \in 1..Len(file') : file'[i].op = op[t] \/ (i \in 1..Len(file) /\ file'[i].op = file[i].op)
          /\ \A i \in 1..Len(file') : file'[i].op = op[t] => i = Len(file')
      <3>1. CASE file = <<>>
        <4>1. Len(file') = 1 /\ file'[1] = [lsn |-> myLsn[t], op |-> op[t], form |-> "torn"]
          BY <2>0, <3>1, CompletedFile
        <4>2. file'[1].op = op[t]
          BY <4>1
        <4> QED
          BY <4>1, <4>2
      <3>2. CASE file # <<>>
        <4>1. /\ Len(file') = Len(file) /\ Len(file) \in Nat \ {0}
              /\ \A i \in 1..Len(file) : i # Len(file) => file'[i] = file[i]
              /\ file'[Len(file)].op = op[t]
          BY <2>0, <3>2, CompletedFile
        <4>2. \A i \in 1..Len(file) : file[i].op = op[t] => i = Len(file)
          BY <2>0 DEF OpInv, AppendSteps
        <4> QED
          BY <4>1, <4>2
      <3> QED
        BY <3>1, <3>2
    <2>2. \A u \in Threads : u # t => pc[u] # "writeBody"
      BY <1>5 DEF SyncFails, LockInv
    <2>3. /\ op[t] \in started /\ op[t] \notin acked
          /\ \A u \in Threads : u # t /\ pc[u] \in AppendSteps =>
                op[u] \in started /\ op[u] \notin acked /\ op[u] # op[t]
          /\ \A u \in Threads, i \in 1..Len(file) :
                u # t /\ pc[u] \in AppendSteps => file[i].op # op[u]
      BY <2>0, <2>2 DEF OpInv, AppendSteps
    <2>4. /\ started' = started /\ acked' \subseteq acked \cup {op[t]}
          /\ \A u \in Threads : pc'[u] \in AppendSteps => u # t /\ pc[u] \in AppendSteps /\ op'[u] = op[u]
      BY <1>5 DEF SyncFails, EndAppend, Goto, TypeOK, AppendSteps
    <2>5. \A i \in 1..Len(file') : file'[i].op \in started'
      BY <2>1, <2>3, <2>4 DEF OpInv
    <2>6. \A u \in Threads, i \in 1..Len(file') : pc'[u] \in AppendSteps => file'[i].op # op'[u]
      BY <2>1, <2>3, <2>4
    <2>7. \A u, v \in Threads : u # v /\ pc'[u] \in AppendSteps /\ pc'[v] \in AppendSteps => op'[u] # op'[v]
      BY <2>4 DEF OpInv
    <2> QED
      BY <2>3, <2>4, <2>5, <2>6, <2>7 DEF OpInv
  <1>6. ASSUME NEW t \in Threads, WriteFails(t)
        PROVE  OpInv'
    BY <1>6 DEF WriteFails, EndAppend, Goto, OpInv, TypeOK, disk, hist, AppendSteps, CheckpointIO, CheckpointWindow
  <1>7. ASSUME NEW t \in Threads, MaybeCheckpoint(t)
        PROVE  OpInv'
    BY <1>7 DEF MaybeCheckpoint, Goto, OpInv, TypeOK, disk, hist, AppendSteps, CheckpointIO, CheckpointWindow
  <1>8. ASSUME NEW t \in Threads, StartCheckpoint(t)
        PROVE  OpInv'
    BY <1>8 DEF StartCheckpoint, Goto, OpInv, TypeOK, disk, hist, AppendSteps, CheckpointIO, CheckpointWindow
  <1>9. ASSUME NEW t \in Threads, PersistOpen(t)
        PROVE  OpInv'
    BY <1>9 DEF PersistOpen, Goto, OpInv, TypeOK, disk, hist, AppendSteps, CheckpointIO, CheckpointWindow
  <1>10. ASSUME NEW t \in Threads, PersistWrite(t)
        PROVE  OpInv'
    BY <1>10 DEF PersistWrite, Goto, OpInv, TypeOK, disk, hist, AppendSteps, CheckpointIO, CheckpointWindow
  <1>11. ASSUME NEW t \in Threads, ReadLsn(t)
        PROVE  OpInv'
    BY <1>11 DEF ReadLsn, Goto, OpInv, TypeOK, disk, hist, AppendSteps, CheckpointIO, CheckpointWindow
  <1>12. ASSUME NEW t \in Threads, Flush(t, "flushMark", "markOpen")
        PROVE  OpInv'
    BY <1>12 DEF Flush, Goto, OpInv, TypeOK, disk, hist, AppendSteps, CheckpointIO, CheckpointWindow
  <1>13. ASSUME NEW t \in Threads, MarkOpen(t)
        PROVE  OpInv'
    BY <1>13 DEF MarkOpen, Goto, OpInv, TypeOK, disk, hist, AppendSteps, CheckpointIO, CheckpointWindow
  <1>14. ASSUME NEW t \in Threads, MarkWrite(t)
        PROVE  OpInv'
    BY <1>14 DEF MarkWrite, Goto, OpInv, TypeOK, disk, hist, AppendSteps, CheckpointIO, CheckpointWindow
  <1>15. ASSUME NEW t \in Threads, Flush(t, "flushTruncate", "truncate")
        PROVE  OpInv'
    BY <1>15 DEF Flush, Goto, OpInv, TypeOK, disk, hist, AppendSteps, CheckpointIO, CheckpointWindow
  <1>16. ASSUME NEW t \in Threads, Truncate(t)
        PROVE  OpInv'
    <2>1. Len(file') = 0
      BY <1>16 DEF Truncate
    <2> QED
      BY <1>16, <2>1 DEF Truncate, Goto, OpInv, TypeOK, AppendSteps
  <1>17. ASSUME NEW t \in Threads, ResetLsn(t)
        PROVE  OpInv'
    BY <1>17 DEF ResetLsn, Goto, OpInv, TypeOK, disk, hist, AppendSteps, CheckpointIO, CheckpointWindow
  <1>18. ASSUME NEW t \in Threads, CheckpointFails(t)
        PROVE  OpInv'
    BY <1>18 DEF CheckpointFails, Goto, OpInv, TypeOK, disk, hist, AppendSteps, CheckpointIO, CheckpointWindow
  <1>19. CASE ProcessKilled
    BY <1>19 DEF ProcessKilled, Stopped, OpInv, TypeOK, disk, hist, AppendSteps, CheckpointIO, CheckpointWindow
  <1>20. CASE PowerLoss
    <2>1. \A i \in 1..Len(file') : file'[i].op \in started
      BY <1>20, SurvivingPrefix, ReadableRange DEF PowerLoss, TypeOK, OpInv
    <2> QED
      BY <1>20, <2>1 DEF PowerLoss, Stopped, OpInv, AppendSteps
  <1>21. CASE Open
    BY <1>21 DEF Open, OpInv, LockInv, disk, AppendSteps
  <1>22. CASE UNCHANGED vars
    BY <1>22 DEF OpInv, vars, disk, proc, hist
  <1>23. ASSUME NEW t \in Threads, PersistSyncFails(t)
        PROVE  OpInv'
    BY <1>23 DEF PersistSyncFails, Goto, OpInv, TypeOK, disk, hist, AppendSteps, CheckpointIO, CheckpointWindow
  <1>24. ASSUME NEW t \in Threads, MarkSyncFails(t)
        PROVE  OpInv'
    BY <1>24 DEF MarkSyncFails, Goto, OpInv, TypeOK, disk, hist, AppendSteps, CheckpointIO, CheckpointWindow
  <1>25. ASSUME NEW t \in Threads, TruncateSyncFails(t)
        PROVE  OpInv'
    <2>1. Len(file') = 0
      BY <1>25 DEF TruncateSyncFails
    <2> QED
      BY <1>25, <2>1 DEF TruncateSyncFails, Goto, OpInv, TypeOK, AppendSteps
  <1> QED
    BY <1>1, <1>2, <1>3, <1>4, <1>5, <1>6, <1>7, <1>8, <1>9, <1>10, <1>11, <1>12, <1>13, <1>14, <1>15, <1>16, <1>17, <1>18, <1>19,
       <1>20, <1>21, <1>22, <1>23, <1>24, <1>25 DEF Next, AppendStep, CheckpointStep

(* LSNs stay distinct.                                                     *)
LEMMA LsnStep ==
    ASSUME TypeOK, LockInv, OpInv, LsnInv, [Next]_vars
    PROVE  LsnInv'
  <1>1. ASSUME NEW t \in Threads, NEW o \in Ops, Start(t, o)
        PROVE  LsnInv'
    BY <1>1 DEF Start, Goto, LsnInv, Numbered, TypeOK, disk, hist, CheckpointIO, CheckpointWindow
  <1>2. ASSUME NEW t \in Threads, Alloc(t)
        PROVE  LsnInv'
    <2>1. \A i \in Readable(file) : file[i].lsn \in Nat
      <3>1. \A i \in Readable(file) : file[i] \in Record
        BY ReadableRange DEF TypeOK
      <3> QED
        BY <3>1, BoundsAssumption DEF Record
    <2>2. lsn \in Nat /\ \A u \in Threads : myLsn[u] \in Nat
      BY BoundsAssumption DEF TypeOK
    <2> QED
      BY <1>2, <2>1, <2>2 DEF Alloc, Goto, LsnInv, Numbered, TypeOK, disk, hist
  <1>3. ASSUME NEW t \in Threads, WriteHeader(t)
        PROVE  LsnInv'
    <2>1. /\ Readable(file') = Readable(file)
          /\ \A i \in Readable(file) : file'[i] = file[i]
      BY <1>3, HeaderFile
    <2>2. /\ overlap' = overlap /\ up' = up /\ lsn' = lsn /\ myLsn' = myLsn
          /\ \A u \in Threads : pc'[u] \in Numbered => pc[u] \in Numbered
      BY <1>3 DEF WriteHeader, Goto, Numbered, TypeOK
    <2> QED
      BY <2>1, <2>2 DEF LsnInv
  <1>4. ASSUME NEW t \in Threads, WriteBody(t)
        PROVE  LsnInv'
    <2>0. pc[t] = "writeBody" /\ file' = Completed(t)
      BY <1>4 DEF WriteBody
    <2>1. \A i \in Readable(file') :
             \/ i \in Readable(file) /\ file'[i].lsn = file[i].lsn
             \/ i = Len(file) /\ i \notin Readable(file) /\ file'[i].lsn = myLsn[t]
      <3>1. CASE file = <<>>
        BY <2>0, <3>1, CompletedFile
      <3>2. CASE file # <<>>
        <4>1. /\ Len(file) \in Nat \ {0}
              /\ \A i \in 1..Len(file) : i # Len(file) => file'[i] = file[i]
              /\ file'[Len(file)].lsn = myLsn[t]
              /\ Readable(file') \subseteq Readable(file) \cup {Len(file)}
          BY <2>0, <3>2, CompletedFile
        <4>2. Readable(file) \subseteq 1..Len(file)
          BY ReadableRange DEF TypeOK
        <4>3. file[Len(file)].form = "torn"
          <5>1. file[Len(file)] = [lsn |-> myLsn[t], op |-> op[t], form |-> "torn"]
            BY <2>0, <3>2 DEF LockInv
          <5> QED
            BY <5>1
        <4>4. Len(file) \notin Readable(file)
          BY <4>1, <4>3 DEF Readable
        <4> QED
          BY <4>1, <4>2, <4>4
      <3> QED
        BY <3>1, <3>2
    <2>2. /\ overlap' = overlap /\ up' = up /\ lsn' = lsn
          /\ \A u \in Threads : pc'[u] \in Numbered => u # t /\ pc[u] \in Numbered /\ myLsn'[u] = myLsn[u]
      BY <1>4 DEF WriteBody, EndAppend, Goto, Numbered, TypeOK
    <2> QED
      BY <2>0, <2>1, <2>2 DEF LsnInv, Numbered
  <1>5. ASSUME NEW t \in Threads, SyncFails(t)
        PROVE  LsnInv'
    <2>0. pc[t] = "writeBody" /\ file' = Completed(t)
      BY <1>5 DEF SyncFails
    <2>1. \A i \in Readable(file') :
             \/ i \in Readable(file) /\ file'[i].lsn = file[i].lsn
             \/ i = Len(file) /\ i \notin Readable(file) /\ file'[i].lsn = myLsn[t]
      <3>1. CASE file = <<>>
        BY <2>0, <3>1, CompletedFile
      <3>2. CASE file # <<>>
        <4>1. /\ Len(file) \in Nat \ {0}
              /\ \A i \in 1..Len(file) : i # Len(file) => file'[i] = file[i]
              /\ file'[Len(file)].lsn = myLsn[t]
              /\ Readable(file') \subseteq Readable(file) \cup {Len(file)}
          BY <2>0, <3>2, CompletedFile
        <4>2. Readable(file) \subseteq 1..Len(file)
          BY ReadableRange DEF TypeOK
        <4>3. file[Len(file)].form = "torn"
          <5>1. file[Len(file)] = [lsn |-> myLsn[t], op |-> op[t], form |-> "torn"]
            BY <2>0, <3>2 DEF LockInv
          <5> QED
            BY <5>1
        <4>4. Len(file) \notin Readable(file)
          BY <4>1, <4>3 DEF Readable
        <4> QED
          BY <4>1, <4>2, <4>4
      <3> QED
        BY <3>1, <3>2
    <2>2. /\ overlap' = overlap /\ up' = up /\ lsn' = lsn
          /\ \A u \in Threads : pc'[u] \in Numbered => u # t /\ pc[u] \in Numbered /\ myLsn'[u] = myLsn[u]
      BY <1>5 DEF SyncFails, EndAppend, Goto, Numbered, TypeOK
    <2> QED
      BY <2>0, <2>1, <2>2 DEF LsnInv, Numbered
  <1>6. ASSUME NEW t \in Threads, WriteFails(t)
        PROVE  LsnInv'
    BY <1>6 DEF WriteFails, EndAppend, Goto, LsnInv, Numbered, TypeOK, disk, hist, CheckpointIO, CheckpointWindow
  <1>7. ASSUME NEW t \in Threads, MaybeCheckpoint(t)
        PROVE  LsnInv'
    BY <1>7 DEF MaybeCheckpoint, Goto, LsnInv, Numbered, TypeOK, disk, hist, CheckpointIO, CheckpointWindow
  <1>8. ASSUME NEW t \in Threads, StartCheckpoint(t)
        PROVE  LsnInv'
    BY <1>8 DEF StartCheckpoint, Goto, LsnInv, Numbered, TypeOK, disk, hist, CheckpointIO, CheckpointWindow
  <1>9. ASSUME NEW t \in Threads, PersistOpen(t)
        PROVE  LsnInv'
    BY <1>9 DEF PersistOpen, Goto, LsnInv, Numbered, TypeOK, disk, hist, CheckpointIO, CheckpointWindow
  <1>10. ASSUME NEW t \in Threads, PersistWrite(t)
        PROVE  LsnInv'
    BY <1>10 DEF PersistWrite, Goto, LsnInv, Numbered, TypeOK, disk, hist, CheckpointIO, CheckpointWindow
  <1>11. ASSUME NEW t \in Threads, ReadLsn(t)
        PROVE  LsnInv'
    BY <1>11 DEF ReadLsn, Goto, LsnInv, Numbered, TypeOK, disk, hist, CheckpointIO, CheckpointWindow
  <1>12. ASSUME NEW t \in Threads, Flush(t, "flushMark", "markOpen")
        PROVE  LsnInv'
    BY <1>12 DEF Flush, Goto, LsnInv, Numbered, TypeOK, disk, hist, CheckpointIO, CheckpointWindow
  <1>13. ASSUME NEW t \in Threads, MarkOpen(t)
        PROVE  LsnInv'
    BY <1>13 DEF MarkOpen, Goto, LsnInv, Numbered, TypeOK, disk, hist, CheckpointIO, CheckpointWindow
  <1>14. ASSUME NEW t \in Threads, MarkWrite(t)
        PROVE  LsnInv'
    BY <1>14 DEF MarkWrite, Goto, LsnInv, Numbered, TypeOK, disk, hist, CheckpointIO, CheckpointWindow
  <1>15. ASSUME NEW t \in Threads, Flush(t, "flushTruncate", "truncate")
        PROVE  LsnInv'
    BY <1>15 DEF Flush, Goto, LsnInv, Numbered, TypeOK, disk, hist, CheckpointIO, CheckpointWindow
  <1>16. ASSUME NEW t \in Threads, Truncate(t)
        PROVE  LsnInv'
    <2>1. Readable(file') = {}
      BY <1>16 DEF Truncate, Readable
    <2> QED
      BY <1>16, <2>1 DEF Truncate, Goto, LsnInv, Numbered, TypeOK
  <1>17. ASSUME NEW t \in Threads, ResetLsn(t)
        PROVE  LsnInv'
    <2>1. CASE overlap'
      BY <2>1 DEF LsnInv
    <2>2. CASE ~overlap'
      <3>1. file = <<>> /\ file' = file /\ \A u \in Threads : pc[u] \notin Numbered
        BY <1>17, <2>2 DEF ResetLsn, disk
      <3>2. Readable(file') = {}
        BY <3>1 DEF Readable
      <3>3. \A u \in Threads : pc'[u] \notin Numbered
        BY <1>17, <3>1 DEF ResetLsn, Goto, Numbered, TypeOK
      <3> QED
        BY <3>2, <3>3 DEF LsnInv
    <2> QED
      BY <2>1, <2>2
  <1>18. ASSUME NEW t \in Threads, CheckpointFails(t)
        PROVE  LsnInv'
    BY <1>18 DEF CheckpointFails, Goto, LsnInv, Numbered, TypeOK, disk, hist, CheckpointIO, CheckpointWindow
  <1>19. CASE ProcessKilled
    BY <1>19 DEF ProcessKilled, Stopped, LsnInv, Numbered, TypeOK, disk, hist, CheckpointIO, CheckpointWindow
  <1>20. CASE PowerLoss
    <2>1. /\ Readable(file') \subseteq Readable(file)
          /\ \A i \in Readable(file') : file'[i].lsn = file[i].lsn
      BY <1>20, SurvivingPrefix, ReadableRange DEF PowerLoss, TypeOK
    <2> QED
      BY <1>20, <2>1 DEF PowerLoss, Stopped, LsnInv, Numbered
  <1>21. CASE Open
    <2>1. \A i \in Readable(file) : file[i].lsn <= lsn'
      BY <1>21 DEF Open, MaxLsnReadings
    <2>2. \A u \in Threads : pc'[u] \notin Numbered
      BY <1>21 DEF Open, LockInv, Numbered
    <2> QED
      BY <1>21, <2>1, <2>2 DEF Open, LsnInv, disk
  <1>22. CASE UNCHANGED vars
    BY <1>22 DEF LsnInv, vars, disk, proc, hist
  <1>23. ASSUME NEW t \in Threads, PersistSyncFails(t)
        PROVE  LsnInv'
    BY <1>23 DEF PersistSyncFails, Goto, LsnInv, Numbered, TypeOK, disk, hist, CheckpointIO, CheckpointWindow
  <1>24. ASSUME NEW t \in Threads, MarkSyncFails(t)
        PROVE  LsnInv'
    BY <1>24 DEF MarkSyncFails, Goto, LsnInv, Numbered, TypeOK, disk, hist, CheckpointIO, CheckpointWindow
  <1>25. ASSUME NEW t \in Threads, TruncateSyncFails(t)
        PROVE  LsnInv'
    <2>1. Readable(file') = {}
      BY <1>25 DEF TruncateSyncFails, Readable
    <2> QED
      BY <1>25, <2>1 DEF TruncateSyncFails, Goto, LsnInv, Numbered, TypeOK
  <1> QED
    BY <1>1, <1>2, <1>3, <1>4, <1>5, <1>6, <1>7, <1>8, <1>9, <1>10, <1>11, <1>12, <1>13, <1>14, <1>15, <1>16, <1>17, <1>18, <1>19,
       <1>20, <1>21, <1>22, <1>23, <1>24, <1>25 DEF Next, AppendStep, CheckpointStep

LEMMA UnsyncedFinite ==
    ASSUME Len(file) \in Nat
    PROVE  IsFiniteSet(UnsyncedAcked) /\ Cardinality(UnsyncedAcked) \in Nat
  <1>1. IsFiniteSet(1..Len(file))
    BY FS_Interval
  <1>2. UnsyncedAcked \in SUBSET (1..Len(file))
    BY DEF UnsyncedAcked
  <1> QED
    BY <1>1, <1>2, FS_Subset, FS_CardinalityType

(* The unsynced counter bounds what a power loss can take.                 *)
LEMMA SyncStep ==
    ASSUME TypeOK, LockInv, OpInv, SyncInv, [Next]_vars
    PROVE  SyncInv'
  <1>1. ASSUME NEW t \in Threads, NEW o \in Ops, Start(t, o)
        PROVE  SyncInv'
    <2>1. UnsyncedAcked' = UnsyncedAcked /\ unsynced' = unsynced /\ up' = up
      BY <1>1 DEF Start, Goto, UnsyncedAcked, disk, hist
    <2> QED
      BY <2>1 DEF SyncInv
  <1>2. ASSUME NEW t \in Threads, Alloc(t)
        PROVE  SyncInv'
    <2>1. UnsyncedAcked' = UnsyncedAcked /\ unsynced' = unsynced /\ up' = up
      BY <1>2 DEF Alloc, Goto, UnsyncedAcked, disk, hist
    <2> QED
      BY <2>1 DEF SyncInv
  <1>3. ASSUME NEW t \in Threads, WriteHeader(t)
        PROVE  SyncInv'
    <2>1. /\ Len(file) \in Nat /\ Len(file') = Len(file) + 1
          /\ \A i \in 1..Len(file) : file'[i] = file[i]
          /\ file'[Len(file) + 1] = [lsn |-> myLsn[t], op |-> op[t], form |-> "torn"]
      BY <1>3, HeaderFile
    <2>2. file'[Len(file) + 1].op \notin acked
      BY <1>3, <2>1 DEF WriteHeader, OpInv, AppendSteps
    <2>3. /\ synced' = synced /\ openLen' = openLen /\ acked' = acked
          /\ unsynced' = unsynced /\ up' = up
      BY <1>3 DEF WriteHeader
    <2>4. UnsyncedAcked' = UnsyncedAcked
      BY <2>1, <2>2, <2>3 DEF UnsyncedAcked
    <2> QED
      BY <2>3, <2>4 DEF SyncInv
  <1>4. ASSUME NEW t \in Threads, WriteBody(t)
        PROVE  SyncInv'
    <2>0. pc[t] = "writeBody" /\ file' = Completed(t) /\ up /\ up'
          /\ op[t] \notin acked
      BY <1>4 DEF WriteBody, OpInv, AppendSteps
    <2>1. /\ Len(file) \in Nat /\ Len(file') \in Nat
          /\ \A i \in 1..Len(file') : i # Len(file') => i \in 1..Len(file) /\ file'[i].op = file[i].op
          /\ \A i \in 1..Len(file) : file[i].op = op[t] => i = Len(file')
          /\ file'[Len(file')].op = op[t]
      <3>1. CASE file = <<>>
        <4>1. Len(file') = 1 /\ file'[1] = [lsn |-> myLsn[t], op |-> op[t], form |-> "torn"]
          BY <2>0, <3>1, CompletedFile
        <4>2. Len(file) = 0 /\ file'[1].op = op[t]
          BY <3>1, <4>1
        <4> QED
          BY <4>1, <4>2
      <3>2. CASE file # <<>>
        <4>1. /\ Len(file') = Len(file) /\ Len(file) \in Nat \ {0}
              /\ \A i \in 1..Len(file) : i # Len(file) => file'[i] = file[i]
              /\ file'[Len(file)].op = op[t]
          BY <2>0, <3>2, CompletedFile
        <4>2. \A i \in 1..Len(file) : file[i].op = op[t] => i = Len(file)
          BY <2>0 DEF OpInv, AppendSteps
        <4> QED
          BY <4>1, <4>2
      <3> QED
        BY <3>1, <3>2
    <2>2. acked' = acked \cup {op[t]} /\ openLen' = openLen
      BY <1>4 DEF WriteBody
    <2>3. CASE SyncDue
      <3>1. synced' = Len(file') /\ unsynced' = 0
        BY <1>4, <2>3 DEF WriteBody
      <3>2. UnsyncedAcked' = {}
        BY <2>1, <3>1 DEF UnsyncedAcked
      <3> QED
        BY <3>1, <3>2, FS_EmptySet, BoundsAssumption DEF SyncInv
    <2>4. CASE ~SyncDue
      <3>1. synced' = synced /\ unsynced' = unsynced + 1 /\ unsynced + 1 < Batch
        BY <1>4, <2>4, BoundsAssumption DEF WriteBody, SyncDue, TypeOK
      <3>2. UnsyncedAcked' \subseteq UnsyncedAcked \cup {Len(file')}
        BY <2>1, <2>2, <3>1 DEF UnsyncedAcked
      <3>3. IsFiniteSet(UnsyncedAcked) /\ Cardinality(UnsyncedAcked) \in Nat
        BY <2>1, UnsyncedFinite
      <3>4. /\ IsFiniteSet(UnsyncedAcked \cup {Len(file')})
            /\ Cardinality(UnsyncedAcked \cup {Len(file')}) <= Cardinality(UnsyncedAcked) + 1
            /\ Cardinality(UnsyncedAcked \cup {Len(file')}) \in Nat
        <4>1. /\ IsFiniteSet(UnsyncedAcked \cup {Len(file')})
              /\ Cardinality(UnsyncedAcked \cup {Len(file')}) =
                    IF Len(file') \in UnsyncedAcked THEN Cardinality(UnsyncedAcked)
                    ELSE Cardinality(UnsyncedAcked) + 1
          BY <3>3, FS_AddElement, Zenon
        <4> QED
          BY <3>3, <4>1
      <3>5. /\ Cardinality(UnsyncedAcked') <= Cardinality(UnsyncedAcked) + 1
            /\ Cardinality(UnsyncedAcked') \in Nat
        BY <3>2, <3>3, <3>4, FS_Subset, FS_CardinalityType
      <3>6. Cardinality(UnsyncedAcked) <= unsynced /\ unsynced \in Nat /\ Batch \in Nat
        BY <2>0, BoundsAssumption DEF SyncInv, TypeOK
      <3> QED
        BY <3>1, <3>3, <3>5, <3>6 DEF SyncInv
    <2> QED
      BY <2>3, <2>4
  <1>5. ASSUME NEW t \in Threads, SyncFails(t)
        PROVE  SyncInv'
    <2>0. pc[t] = "writeBody" /\ file' = Completed(t) /\ up /\ up'
          /\ op[t] \notin acked
      BY <1>5 DEF SyncFails, OpInv, AppendSteps
    <2>1. /\ Len(file) \in Nat /\ Len(file') \in Nat
          /\ \A i \in 1..Len(file') : i # Len(file') => i \in 1..Len(file) /\ file'[i].op = file[i].op
          /\ \A i \in 1..Len(file) : file[i].op = op[t] => i = Len(file')
          /\ file'[Len(file')].op = op[t]
      <3>1. CASE file = <<>>
        <4>1. Len(file') = 1 /\ file'[1] = [lsn |-> myLsn[t], op |-> op[t], form |-> "torn"]
          BY <2>0, <3>1, CompletedFile
        <4>2. Len(file) = 0 /\ file'[1].op = op[t]
          BY <3>1, <4>1
        <4> QED
          BY <4>1, <4>2
      <3>2. CASE file # <<>>
        <4>1. /\ Len(file') = Len(file) /\ Len(file) \in Nat \ {0}
              /\ \A i \in 1..Len(file) : i # Len(file) => file'[i] = file[i]
              /\ file'[Len(file)].op = op[t]
          BY <2>0, <3>2, CompletedFile
        <4>2. \A i \in 1..Len(file) : file[i].op = op[t] => i = Len(file)
          BY <2>0 DEF OpInv, AppendSteps
        <4> QED
          BY <4>1, <4>2
      <3> QED
        BY <3>1, <3>2
    <2>2. /\ acked' = acked /\ openLen' = openLen /\ synced' = synced
          /\ unsynced' = unsynced + 1
      BY <1>5 DEF SyncFails
    <2>3. UnsyncedAcked' \subseteq UnsyncedAcked
      BY <2>0, <2>1, <2>2 DEF UnsyncedAcked
    <2>4. IsFiniteSet(UnsyncedAcked) /\ Cardinality(UnsyncedAcked) \in Nat
      BY <2>1, UnsyncedFinite
    <2>5. Cardinality(UnsyncedAcked') <= Cardinality(UnsyncedAcked) /\ Cardinality(UnsyncedAcked') \in Nat
      BY <2>3, <2>4, FS_Subset, FS_CardinalityType
    <2>6. /\ Cardinality(UnsyncedAcked) <= unsynced /\ Cardinality(UnsyncedAcked) < Batch
          /\ unsynced \in Nat /\ Batch \in Nat
      BY <2>0, BoundsAssumption DEF SyncInv, TypeOK
    <2> QED
      BY <2>2, <2>4, <2>5, <2>6 DEF SyncInv
  <1>6. ASSUME NEW t \in Threads, WriteFails(t)
        PROVE  SyncInv'
    <2>1. UnsyncedAcked' = UnsyncedAcked /\ unsynced' = unsynced /\ up' = up
      BY <1>6 DEF WriteFails, EndAppend, Goto, UnsyncedAcked, disk, hist
    <2> QED
      BY <2>1 DEF SyncInv
  <1>7. ASSUME NEW t \in Threads, MaybeCheckpoint(t)
        PROVE  SyncInv'
    <2>1. UnsyncedAcked' = UnsyncedAcked /\ unsynced' = unsynced /\ up' = up
      BY <1>7 DEF MaybeCheckpoint, Goto, UnsyncedAcked, disk, hist
    <2> QED
      BY <2>1 DEF SyncInv
  <1>8. ASSUME NEW t \in Threads, StartCheckpoint(t)
        PROVE  SyncInv'
    <2>1. UnsyncedAcked' = UnsyncedAcked /\ unsynced' = unsynced /\ up' = up
      BY <1>8 DEF StartCheckpoint, Goto, UnsyncedAcked, disk, hist
    <2> QED
      BY <2>1 DEF SyncInv
  <1>9. ASSUME NEW t \in Threads, PersistOpen(t)
        PROVE  SyncInv'
    <2>1. UnsyncedAcked' = UnsyncedAcked /\ unsynced' = unsynced /\ up' = up
      BY <1>9 DEF PersistOpen, Goto, UnsyncedAcked, disk, hist
    <2> QED
      BY <2>1 DEF SyncInv
  <1>10. ASSUME NEW t \in Threads, PersistWrite(t)
        PROVE  SyncInv'
    <2>1. UnsyncedAcked' = UnsyncedAcked /\ unsynced' = unsynced /\ up' = up
      BY <1>10 DEF PersistWrite, Goto, UnsyncedAcked, disk, hist
    <2> QED
      BY <2>1 DEF SyncInv
  <1>11. ASSUME NEW t \in Threads, ReadLsn(t)
        PROVE  SyncInv'
    <2>1. UnsyncedAcked' = UnsyncedAcked /\ unsynced' = unsynced /\ up' = up
      BY <1>11 DEF ReadLsn, Goto, UnsyncedAcked, disk, hist
    <2> QED
      BY <2>1 DEF SyncInv
  <1>12. ASSUME NEW t \in Threads, Flush(t, "flushMark", "markOpen")
        PROVE  SyncInv'
    <2>1. UnsyncedAcked' = {} /\ unsynced' \in Nat
      BY <1>12 DEF Flush, Goto, UnsyncedAcked, hist, TypeOK
    <2> QED
      BY <2>1, FS_EmptySet, BoundsAssumption DEF SyncInv
  <1>13. ASSUME NEW t \in Threads, MarkOpen(t)
        PROVE  SyncInv'
    <2>1. UnsyncedAcked' = UnsyncedAcked /\ unsynced' = unsynced /\ up' = up
      BY <1>13 DEF MarkOpen, Goto, UnsyncedAcked, disk, hist
    <2> QED
      BY <2>1 DEF SyncInv
  <1>14. ASSUME NEW t \in Threads, MarkWrite(t)
        PROVE  SyncInv'
    <2>1. UnsyncedAcked' = UnsyncedAcked /\ unsynced' = unsynced /\ up' = up
      BY <1>14 DEF MarkWrite, Goto, UnsyncedAcked, disk, hist
    <2> QED
      BY <2>1 DEF SyncInv
  <1>15. ASSUME NEW t \in Threads, Flush(t, "flushTruncate", "truncate")
        PROVE  SyncInv'
    <2>1. UnsyncedAcked' = {} /\ unsynced' \in Nat
      BY <1>15 DEF Flush, Goto, UnsyncedAcked, hist, TypeOK
    <2> QED
      BY <2>1, FS_EmptySet, BoundsAssumption DEF SyncInv
  <1>16. ASSUME NEW t \in Threads, Truncate(t)
        PROVE  SyncInv'
    <2>1. UnsyncedAcked' = {} /\ unsynced' \in Nat
      BY <1>16 DEF Truncate, Goto, UnsyncedAcked, TypeOK
    <2> QED
      BY <2>1, FS_EmptySet, BoundsAssumption DEF SyncInv
  <1>17. ASSUME NEW t \in Threads, ResetLsn(t)
        PROVE  SyncInv'
    <2>1. UnsyncedAcked' = UnsyncedAcked /\ unsynced' = unsynced /\ up' = up
      BY <1>17 DEF ResetLsn, Goto, UnsyncedAcked, disk, hist
    <2> QED
      BY <2>1 DEF SyncInv
  <1>18. ASSUME NEW t \in Threads, CheckpointFails(t)
        PROVE  SyncInv'
    <2>1. UnsyncedAcked' = UnsyncedAcked /\ unsynced' = unsynced /\ up' = up
      BY <1>18 DEF CheckpointFails, Goto, UnsyncedAcked, disk, hist
    <2> QED
      BY <2>1 DEF SyncInv
  <1>19. CASE ProcessKilled
    BY <1>19 DEF ProcessKilled, Stopped, SyncInv
  <1>20. CASE PowerLoss
    BY <1>20 DEF PowerLoss, Stopped, SyncInv
  <1>21. CASE Open
    <2>0. Len(file) \in Nat
      BY ReadableRange DEF TypeOK
    <2>1. UnsyncedAcked' = {} /\ unsynced' \in Nat
      BY <1>21, <2>0 DEF Open, UnsyncedAcked, disk, TypeOK
    <2> QED
      BY <2>1, FS_EmptySet, BoundsAssumption DEF SyncInv
  <1>22. CASE UNCHANGED vars
    <2>1. UnsyncedAcked' = UnsyncedAcked
      BY <1>22 DEF UnsyncedAcked, vars, disk, proc, hist
    <2> QED
      BY <1>22, <2>1 DEF SyncInv, vars, proc
  <1>23. ASSUME NEW t \in Threads, PersistSyncFails(t)
        PROVE  SyncInv'
    <2>1. UnsyncedAcked' = UnsyncedAcked /\ unsynced' = unsynced /\ up' = up
      BY <1>23 DEF PersistSyncFails, Goto, UnsyncedAcked, disk, hist
    <2> QED
      BY <2>1 DEF SyncInv
  <1>24. ASSUME NEW t \in Threads, MarkSyncFails(t)
        PROVE  SyncInv'
    <2>1. UnsyncedAcked' = UnsyncedAcked /\ unsynced' = unsynced /\ up' = up
      BY <1>24 DEF MarkSyncFails, Goto, UnsyncedAcked, disk, hist
    <2> QED
      BY <2>1 DEF SyncInv
  <1>25. ASSUME NEW t \in Threads, TruncateSyncFails(t)
        PROVE  SyncInv'
    <2>1. UnsyncedAcked' = {} /\ unsynced' \in Nat
      BY <1>25 DEF TruncateSyncFails, Goto, UnsyncedAcked, TypeOK
    <2> QED
      BY <2>1, FS_EmptySet, BoundsAssumption DEF SyncInv
  <1> QED
    BY <1>1, <1>2, <1>3, <1>4, <1>5, <1>6, <1>7, <1>8, <1>9, <1>10, <1>11, <1>12, <1>13, <1>14, <1>15, <1>16, <1>17, <1>18, <1>19,
       <1>20, <1>21, <1>22, <1>23, <1>24, <1>25 DEF Next, AppendStep, CheckpointStep

(* What is kept stays kept.                                                *)
LEMMA LossStep ==
    ASSUME TypeOK, LockInv, OpInv, LossInv, [Next]_vars
    PROVE  LossInv'
  <1>1. ASSUME NEW t \in Threads, NEW o \in Ops, Start(t, o)
        PROVE  LossInv'
    BY <1>1 DEF Start, Goto, LossInv, Kept, Rewriting, TypeOK, disk, hist, AppendSteps, CheckpointWindow
  <1>2. ASSUME NEW t \in Threads, Alloc(t)
        PROVE  LossInv'
    BY <1>2 DEF Alloc, Goto, LossInv, Kept, Rewriting, TypeOK, disk, hist, AppendSteps, CheckpointWindow
  <1>3. ASSUME NEW t \in Threads, WriteHeader(t)
        PROVE  LossInv'
    <2> SUFFICES ASSUME damage' = {} PROVE LossInv'
      BY DEF LossInv
    <2>1. /\ Len(file) \in Nat /\ Len(file') = Len(file) + 1
          /\ \A i \in 1..Len(file) : file'[i] = file[i]
          /\ Readable(file') = Readable(file) /\ Readable(file) \subseteq 1..Len(file)
      BY <1>3, HeaderFile
    <2>2. damage = {} /\ \A i \in 1..Len(file) : file[i].form = "whole"
      BY <1>3 DEF WriteHeader
    <2>3. OpsOnLog(file') = OpsOnLog(file)
      BY <2>1 DEF OpsOnLog
    <2>4. \A i \in 1..Len(file') : i < Len(file') => file'[i].form = "whole"
      BY <2>1, <2>2
    <2>5. /\ Kept' = Kept /\ dat' = dat /\ memory' = memory /\ up' = up /\ op' = op
          /\ \A u \in Threads : pc'[u] \in AppendSteps => pc[u] \in AppendSteps
          /\ \A u \in Threads : pc'[u] \in CheckpointWindow => pc[u] \in CheckpointWindow
          /\ Rewriting => Rewriting'
      BY <1>3 DEF WriteHeader, Goto, Kept, Rewriting, TypeOK, AppendSteps, CheckpointWindow
    <2> QED
      BY <2>2, <2>3, <2>4, <2>5 DEF LossInv
  <1>4. ASSUME NEW t \in Threads, WriteBody(t)
        PROVE  LossInv'
    <2> SUFFICES ASSUME damage' = {} PROVE LossInv'
      BY DEF LossInv
    <2>0. pc[t] = "writeBody" /\ file' = Completed(t) /\ damage = {} /\ up
      BY <1>4 DEF WriteBody
    <2>1. /\ OpsOnLog(file) \subseteq OpsOnLog(file')
          /\ \A i \in 1..Len(file') : i < Len(file') => file'[i].form = "whole"
          /\ file # <<>> => op[t] \in OpsOnLog(file')
      <3>1. CASE file = <<>>
        <4>1. Len(file') = 1 /\ Readable(file) = {}
          BY <2>0, <3>1, CompletedFile
        <4> QED
          BY <3>1, <4>1 DEF OpsOnLog
      <3>2. CASE file # <<>>
        <4>1. /\ Len(file') = Len(file) /\ Len(file) \in Nat \ {0}
              /\ \A i \in 1..Len(file) : i # Len(file) => file'[i] = file[i]
              /\ file'[Len(file)].op = op[t]
              /\ Readable(file) \subseteq Readable(file')
              /\ (\A i \in 1..Len(file) : i < Len(file) => file[i].form = "whole")
                    => Len(file) \in Readable(file')
          BY <2>0, <3>2, CompletedFile
        <4>2. \A i \in 1..Len(file) : i < Len(file) => file[i].form = "whole"
          BY <2>0 DEF LossInv
        <4>3. Readable(file) \subseteq 1..Len(file)
          BY ReadableRange DEF TypeOK
        <4>4. file[Len(file)] = [lsn |-> myLsn[t], op |-> op[t], form |-> "torn"]
          BY <2>0, <3>2 DEF LockInv
        <4>5. \A i \in Readable(file) : file'[i].op = file[i].op
          BY <4>1, <4>3, <4>4
        <4>6. OpsOnLog(file) \subseteq OpsOnLog(file')
          BY <4>1, <4>5 DEF OpsOnLog
        <4>7. op[t] \in OpsOnLog(file')
          BY <4>1, <4>2 DEF OpsOnLog
        <4> QED
          BY <4>1, <4>2, <4>6, <4>7
      <3> QED
        BY <3>1, <3>2
    <2>2. /\ dat' = dat /\ memory' = memory /\ up' = up
          /\ \A u \in Threads : pc'[u] \in AppendSteps => u # t /\ pc[u] \in AppendSteps /\ op'[u] = op[u]
          /\ \A u \in Threads : pc'[u] \in CheckpointWindow => pc[u] \in CheckpointWindow
          /\ Rewriting => Rewriting'
      BY <1>4 DEF WriteBody, EndAppend, Goto, Rewriting, TypeOK, AppendSteps, CheckpointWindow
    <2>3. Kept' \subseteq Kept \cup ({op[t]} \cap Data)
      BY <1>4 DEF WriteBody, Kept
    <2>4. op[t] \in Data => op[t] \in memory
      BY <2>0 DEF LossInv, AppendSteps
    <2>5. CASE late' = late \cup {op[t]}
      <3>1. Kept' \subseteq Kept
        BY <1>4, <2>5 DEF WriteBody, Kept
      <3> QED
        BY <2>0, <2>1, <2>2, <3>1 DEF LossInv
    <2>6. CASE late' # late \cup {op[t]}
      <3>1. file # <<>> /\ \A u \in Threads : pc[u] \notin CheckpointWindow
        BY <1>4, <2>6 DEF WriteBody
      <3> QED
        BY <2>0, <2>1, <2>2, <2>3, <2>4, <3>1 DEF LossInv
    <2> QED
      BY <2>5, <2>6
  <1>5. ASSUME NEW t \in Threads, SyncFails(t)
        PROVE  LossInv'
    <2> SUFFICES ASSUME damage' = {} PROVE LossInv'
      BY DEF LossInv
    <2>0. pc[t] = "writeBody" /\ file' = Completed(t) /\ damage = {} /\ up
      BY <1>5 DEF SyncFails
    <2>1. /\ OpsOnLog(file) \subseteq OpsOnLog(file')
          /\ \A i \in 1..Len(file') : i < Len(file') => file'[i].form = "whole"
          /\ file # <<>> => op[t] \in OpsOnLog(file')
      <3>1. CASE file = <<>>
        <4>1. Len(file') = 1 /\ Readable(file) = {}
          BY <2>0, <3>1, CompletedFile
        <4> QED
          BY <3>1, <4>1 DEF OpsOnLog
      <3>2. CASE file # <<>>
        <4>1. /\ Len(file') = Len(file) /\ Len(file) \in Nat \ {0}
              /\ \A i \in 1..Len(file) : i # Len(file) => file'[i] = file[i]
              /\ file'[Len(file)].op = op[t]
              /\ Readable(file) \subseteq Readable(file')
              /\ (\A i \in 1..Len(file) : i < Len(file) => file[i].form = "whole")
                    => Len(file) \in Readable(file')
          BY <2>0, <3>2, CompletedFile
        <4>2. \A i \in 1..Len(file) : i < Len(file) => file[i].form = "whole"
          BY <2>0 DEF LossInv
        <4>3. Readable(file) \subseteq 1..Len(file)
          BY ReadableRange DEF TypeOK
        <4>4. file[Len(file)] = [lsn |-> myLsn[t], op |-> op[t], form |-> "torn"]
          BY <2>0, <3>2 DEF LockInv
        <4>5. \A i \in Readable(file) : file'[i].op = file[i].op
          BY <4>1, <4>3, <4>4
        <4>6. OpsOnLog(file) \subseteq OpsOnLog(file')
          BY <4>1, <4>5 DEF OpsOnLog
        <4>7. op[t] \in OpsOnLog(file')
          BY <4>1, <4>2 DEF OpsOnLog
        <4> QED
          BY <4>1, <4>2, <4>6, <4>7
      <3> QED
        BY <3>1, <3>2
    <2>2. /\ dat' = dat /\ memory' = memory /\ up' = up
          /\ \A u \in Threads : pc'[u] \in AppendSteps => u # t /\ pc[u] \in AppendSteps /\ op'[u] = op[u]
          /\ \A u \in Threads : pc'[u] \in CheckpointWindow => pc[u] \in CheckpointWindow
          /\ Rewriting => Rewriting'
      BY <1>5 DEF SyncFails, EndAppend, Goto, Rewriting, TypeOK, AppendSteps, CheckpointWindow
    <2>3. Kept' = Kept
      BY <1>5 DEF SyncFails, Kept
    <2> QED
      BY <2>0, <2>1, <2>2, <2>3 DEF LossInv
  <1>6. ASSUME NEW t \in Threads, WriteFails(t)
        PROVE  LossInv'
    BY <1>6 DEF WriteFails, EndAppend, Goto, LossInv, Kept, Rewriting, TypeOK, disk, hist, AppendSteps, CheckpointWindow
  <1>7. ASSUME NEW t \in Threads, MaybeCheckpoint(t)
        PROVE  LossInv'
    BY <1>7 DEF MaybeCheckpoint, Goto, LossInv, Kept, Rewriting, TypeOK, disk, hist, AppendSteps, CheckpointWindow
  <1>8. ASSUME NEW t \in Threads, StartCheckpoint(t)
        PROVE  LossInv'
    BY <1>8 DEF StartCheckpoint, Goto, LossInv, Kept, Rewriting, TypeOK, disk, hist, AppendSteps, CheckpointWindow
  <1>9. ASSUME NEW t \in Threads, PersistOpen(t)
        PROVE  LossInv'
    BY <1>9 DEF PersistOpen, Goto, LossInv, Kept, Rewriting, TypeOK, disk, hist, AppendSteps, CheckpointWindow
  <1>10. ASSUME NEW t \in Threads, PersistWrite(t)
        PROVE  LossInv'
    BY <1>10 DEF PersistWrite, Goto, LossInv, Kept, Rewriting, TypeOK, disk, hist, AppendSteps, CheckpointWindow
  <1>11. ASSUME NEW t \in Threads, ReadLsn(t)
        PROVE  LossInv'
    BY <1>11 DEF ReadLsn, Goto, LossInv, Kept, Rewriting, TypeOK, disk, hist, AppendSteps, CheckpointWindow
  <1>12. ASSUME NEW t \in Threads, Flush(t, "flushMark", "markOpen")
        PROVE  LossInv'
    BY <1>12 DEF Flush, Goto, LossInv, Kept, Rewriting, TypeOK, disk, hist, AppendSteps, CheckpointWindow
  <1>13. ASSUME NEW t \in Threads, MarkOpen(t)
        PROVE  LossInv'
    BY <1>13 DEF MarkOpen, Goto, LossInv, Kept, Rewriting, TypeOK, disk, hist, AppendSteps, CheckpointWindow
  <1>14. ASSUME NEW t \in Threads, MarkWrite(t)
        PROVE  LossInv'
    BY <1>14 DEF MarkWrite, Goto, LossInv, Kept, Rewriting, TypeOK, disk, hist, AppendSteps, CheckpointWindow
  <1>15. ASSUME NEW t \in Threads, Flush(t, "flushTruncate", "truncate")
        PROVE  LossInv'
    BY <1>15 DEF Flush, Goto, LossInv, Kept, Rewriting, TypeOK, disk, hist, AppendSteps, CheckpointWindow
  <1>16. ASSUME NEW t \in Threads, Truncate(t)
        PROVE  LossInv'
    <2>1. Len(file') = 0 /\ OpsOnLog(file') = {}
      BY <1>16 DEF Truncate, OpsOnLog, Readable
    <2>2. damage' = damage /\ Kept' = Kept /\ dat' = dat /\ (Rewriting => Rewriting')
      BY <1>16 DEF Truncate, Goto, Kept, Rewriting, TypeOK
    <2>3. damage = {} => Rewriting \/ Kept \subseteq dat
      BY <1>16 DEF Truncate, LossInv, CheckpointWindow
    <2>4. /\ memory' = memory /\ up' = up /\ op' = op
          /\ \A u \in Threads : pc'[u] \in AppendSteps => pc[u] \in AppendSteps
          /\ \A u \in Threads : pc'[u] \in CheckpointWindow => pc[u] \in CheckpointWindow
      BY <1>16 DEF Truncate, Goto, TypeOK, AppendSteps, CheckpointWindow
    <2> QED
      BY <2>1, <2>2, <2>3, <2>4 DEF LossInv
  <1>17. ASSUME NEW t \in Threads, ResetLsn(t)
        PROVE  LossInv'
    BY <1>17 DEF ResetLsn, Goto, LossInv, Kept, Rewriting, TypeOK, disk, hist, AppendSteps, CheckpointWindow
  <1>18. ASSUME NEW t \in Threads, CheckpointFails(t)
        PROVE  LossInv'
    <2>1. CASE pc[t] = "persistWrite"
      BY <1>18, <2>1 DEF CheckpointFails, LossInv
    <2>2. CASE pc[t] # "persistWrite"
      BY <1>18, <2>2 DEF CheckpointFails, Goto, LossInv, Kept, Rewriting, TypeOK,
                     AppendSteps, CheckpointWindow
    <2> QED
      BY <2>1, <2>2
  <1>19. CASE ProcessKilled
    <2> SUFFICES ASSUME damage' = {} PROVE LossInv'
      BY DEF LossInv
    <2>1. damage = {} /\ ~Rewriting
      BY <1>19 DEF ProcessKilled
    <2>2. file' = file /\ dat' = dat /\ Kept' = Kept /\ ~up' /\ \A u \in Threads : pc'[u] = "idle"
      BY <1>19 DEF ProcessKilled, Stopped, Kept
    <2> QED
      BY <2>1, <2>2 DEF LossInv, AppendSteps, CheckpointWindow
  <1>20. CASE PowerLoss
    <2> SUFFICES ASSUME damage' = {} PROVE LossInv'
      BY DEF LossInv
    <2>1. damage = {} /\ ~Rewriting
      BY <1>20 DEF PowerLoss
    <2>2. file' = file /\ dat' = dat /\ Kept' = Kept /\ ~up' /\ \A u \in Threads : pc'[u] = "idle"
      BY <1>20 DEF PowerLoss, Stopped, Kept
    <2> QED
      BY <2>1, <2>2 DEF LossInv, AppendSteps, CheckpointWindow
  <1>21. CASE Open
    <2> SUFFICES ASSUME damage' = {} PROVE LossInv'
      BY DEF LossInv
    <2>1. damage = {} /\ OpsOnLog(file) \cap Data \subseteq memory' /\ dat \subseteq memory'
      BY <1>21 DEF Open
    <2>2. /\ \A u \in Threads : pc[u] = "idle" /\ pc'[u] = "idle"
          /\ file' = file /\ dat' = dat /\ Kept' = Kept
      BY <1>21 DEF Open, LockInv, Kept, disk
    <2>3. Kept \subseteq dat \cup OpsOnLog(file)
      BY <2>1, <2>2 DEF LossInv, Rewriting
    <2>4. Kept \subseteq memory'
      BY <2>1, <2>3 DEF Kept
    <2> QED
      BY <2>1, <2>2, <2>3, <2>4 DEF LossInv, AppendSteps, CheckpointWindow
  <1>22. CASE UNCHANGED vars
    BY <1>22 DEF LossInv, Kept, Rewriting, vars, disk, proc, hist
  <1>23. ASSUME NEW t \in Threads, PersistSyncFails(t)
        PROVE  LossInv'
    BY <1>23 DEF PersistSyncFails, Goto, LossInv, Kept, Rewriting, TypeOK, disk, hist, AppendSteps, CheckpointWindow
  <1>24. ASSUME NEW t \in Threads, MarkSyncFails(t)
        PROVE  LossInv'
    BY <1>24 DEF MarkSyncFails, Goto, LossInv, Kept, Rewriting, TypeOK, disk, hist, AppendSteps, CheckpointWindow
  <1>25. ASSUME NEW t \in Threads, TruncateSyncFails(t)
        PROVE  LossInv'
    <2>1. Len(file') = 0 /\ OpsOnLog(file') = {}
      BY <1>25 DEF TruncateSyncFails, OpsOnLog, Readable
    <2>2. damage' = damage /\ Kept' = Kept /\ dat' = dat /\ (Rewriting => Rewriting')
      BY <1>25 DEF TruncateSyncFails, Goto, Kept, Rewriting, TypeOK
    <2>3. damage = {} => Rewriting \/ Kept \subseteq dat
      BY <1>25 DEF TruncateSyncFails, LossInv, CheckpointWindow
    <2>4. /\ memory' = memory /\ up' = up /\ op' = op
          /\ \A u \in Threads : pc'[u] \in AppendSteps => pc[u] \in AppendSteps
          /\ \A u \in Threads : pc'[u] \in CheckpointWindow => pc[u] \in CheckpointWindow
      BY <1>25 DEF TruncateSyncFails, Goto, TypeOK, AppendSteps, CheckpointWindow
    <2> QED
      BY <2>1, <2>2, <2>3, <2>4 DEF LossInv
  <1> QED
    BY <1>1, <1>2, <1>3, <1>4, <1>5, <1>6, <1>7, <1>8, <1>9, <1>10, <1>11, <1>12, <1>13, <1>14, <1>15, <1>16, <1>17, <1>18, <1>19,
       <1>20, <1>21, <1>22, <1>23, <1>24, <1>25 DEF Next, AppendStep, CheckpointStep

-----------------------------------------------------------------------------
LEMMA Initially == Init => IInv
  <1> SUFFICES ASSUME Init PROVE IInv
    OBVIOUS
  <1>1. TypeOK
    <2>1. corrupt \in BOOLEAN /\ up \in BOOLEAN /\ overlap \in BOOLEAN
      BY Zenon DEF Init
    <2>2. pc \in [Threads -> PCs]
      BY DEF Init, PCs
    <2> QED
      BY <2>1, <2>2, BoundsAssumption DEF Init, TypeOK
  <1>2. Readable(file) = {} /\ Len(file) = 0
    BY DEF Init, Readable
  <1>3. LockInv /\ OpInv /\ LsnInv
    BY <1>2, ThreadsAssumption DEF Init, LockInv, OpInv, LsnInv, AppendSteps, Numbered
  <1>4. UnsyncedAcked = {}
    BY <1>2 DEF UnsyncedAcked
  <1>5. SyncInv
    BY <1>4, FS_EmptySet, BoundsAssumption DEF Init, SyncInv
  <1>6. LossInv
    BY <1>2 DEF Init, LossInv, Kept, AppendSteps, CheckpointWindow
  <1> QED
    BY <1>1, <1>3, <1>5, <1>6 DEF IInv

LEMMA Inductive == IInv /\ [Next]_vars => IInv'
  BY TypeStep, LockStep, OpStep, LsnStep, SyncStep, LossStep DEF IInv

LEMMA Invariance == Spec => []IInv
  BY Initially, Inductive, PTL DEF Spec

(* Every variable keeps its type in every behaviour of the log.            *)
THEOREM TypeCorrect == Spec => []TypeOK
  <1>1. IInv => TypeOK
    BY DEF IInv
  <1> QED
    BY <1>1, Invariance, PTL

(* However appends, failed fsyncs, checkpoints and crashes interleave,     *)
(* fewer than WAL_SYNC_BATCH records acknowledged since open lie beyond    *)
(* the last fsync.                                                         *)
THEOREM SyncBounded == Spec => []SyncBound
  <1>1. IInv => SyncBound
    BY DEF IInv, SyncInv, SyncBound
  <1> QED
    BY <1>1, Invariance, PTL

(* The LSNs replay sorts by are distinct and below the counter, unless     *)
(* truncate reset the counter under a record already numbered.             *)
THEOREM LsnsDistinct == Spec => []LsnDistinct
  <1>1. IInv => LsnDistinct
    BY DEF IInv, LsnInv, LsnDistinct
  <1> QED
    BY <1>1, Invariance, PTL

(* An acknowledged data record is in the table file or readable in the     *)
(* log, unless one of the five named accidents happened to it.             *)
THEOREM LossesKnown == Spec => []OnlyKnownLosses
  <1>1. IInv => OnlyKnownLosses
    BY DEF IInv, LossInv, OnlyKnownLosses, Kept
  <1> QED
    BY <1>1, Invariance, PTL
=============================================================================
