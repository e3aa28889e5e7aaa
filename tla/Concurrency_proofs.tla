------------------------- MODULE Concurrency_proofs -------------------------
(***************************************************************************)
(* What runs side by side: the connections of Server, for any number of    *)
(* clients, connections, signals and statements, and the row locks that    *)
(* their statements take (RowLocks), for any number of threads, rows and   *)
(* locks.  The two specifications share no variable.                       *)
(***************************************************************************)
EXTENDS Server, RowLocks, FiniteSetTheorems, TLAPS

-----------------------------------------------------------------------------
(* The connections.                                                        *)

(* The accept branch has one stream, and no other place has it.            *)
PeerInv == main = "accepted" => \E c \in Clients : peer = {c} /\ conn[c] = "accepting"

(* Nothing is saved before the drain has ended; from then on every         *)
(* connection that can still answer is one the drain missed.               *)
DrainInv ==
    /\ ~saved => late = {}
    /\ saved => main \in {"returning", "dropping", "stopped"}
    /\ saved \/ main = "checkpoint"
          => expired \/ In({"spawned", "greeting", "open", "busy"}) \subseteq missed

IInv == TypeOK /\ SlotsExact /\ PeerInv /\ DrainInv /\ CheckpointIsLast

-----------------------------------------------------------------------------
(* How the number of clients in some phases changes when one client goes   *)
(* from one phase to another.                                              *)
LEMMA Move ==
    ASSUME TypeOK, NEW c \in Clients, NEW v, NEW states, conn' = [conn EXCEPT ![c] = v]
    PROVE  /\ conn[c] \notin states /\ v \in states
                 => Cardinality(In(states))' = Cardinality(In(states)) + 1
           /\ conn[c] \in states /\ v \notin states
                 => Cardinality(In(states))' = Cardinality(In(states)) - 1
           /\ (conn[c] \in states <=> v \in states)
                 => Cardinality(In(states))' = Cardinality(In(states))
  <1>1. IsFiniteSet(In(states))
    BY FS_Subset, ServerAssumption DEF In
  <1>2. \A d \in Clients : conn'[d] = IF d = c THEN v ELSE conn[d]
    BY DEF TypeOK
  <1>3. ASSUME conn[c] \notin states, v \in states
        PROVE  Cardinality(In(states))' = Cardinality(In(states)) + 1
    <2>1. In(states)' = In(states) \cup {c} /\ c \notin In(states)
      BY <1>2, <1>3 DEF In
    <2> QED
      BY <2>1, <1>1, FS_AddElement
  <1>4. ASSUME conn[c] \in states, v \notin states
        PROVE  Cardinality(In(states))' = Cardinality(In(states)) - 1
    <2>1. In(states)' = In(states) \ {c} /\ c \in In(states)
      BY <1>2, <1>4 DEF In
    <2> QED
      BY <2>1, <1>1, FS_RemoveElement
  <1>5. ASSUME conn[c] \in states <=> v \in states
        PROVE  Cardinality(In(states))' = Cardinality(In(states))
    <2>1. In(states)' = In(states)
      BY <1>2, <1>5 DEF In
    <2> QED
      BY <2>1
  <1> QED
    BY <1>3, <1>4, <1>5

(* The two numbers of SlotsExact are natural numbers, and the counted      *)
(* connections are admitted ones.                                          *)
LEMMA Numbers ==
    /\ Cardinality(Admitted) \in Nat /\ Cardinality(Counted) \in Nat
    /\ Cardinality(Counted) <= Cardinality(Admitted)
    /\ Cardinality(Counted) = 0 => Counted = {}
  <1>1. IsFiniteSet(Admitted) /\ IsFiniteSet(Counted)
    BY FS_Subset, ServerAssumption DEF Admitted, Counted, In
  <1>2. Counted \in SUBSET Admitted
    BY DEF Admitted, Counted, In, AdmittedPhases
  <1> QED
    BY <1>1, <1>2, FS_CardinalityType, FS_Subset, FS_EmptySet

-----------------------------------------------------------------------------
(* IInv holds initially.                                                   *)
LEMMA Initially == Init => IInv
  <1> SUFFICES ASSUME Init PROVE IInv
    OBVIOUS
  <1>1. Admitted = {} /\ Counted = {}
    BY DEF Init, Admitted, Counted, In, AdmittedPhases, CountedPhases
  <1>2. SlotsExact
    BY <1>1, FS_EmptySet, ServerAssumption DEF Init, SlotsExact
  <1>3. TypeOK
    <2>1. conn \in [Clients -> Phases] /\ peer \subseteq Clients
      BY DEF Init, Phases
    <2>2. permits \in 0..MaxConnections /\ active \in 0..MaxConnections
      BY ServerAssumption DEF Init
    <2>3. signals \in 0..MaxSignals /\ connects \in 0..MaxConnects /\ queries \in 0..MaxQueries
      BY ServerAssumption DEF Init
    <2> QED
      BY <2>1, <2>2, <2>3, Zenon DEF Init, TypeOK
  <1>4. PeerInv
    BY DEF Init, PeerInv
  <1>5. DrainInv
    <2>1. main = "select" /\ ~saved /\ late = {}
      BY DEF Init
    <2> QED
      BY <2>1 DEF DrainInv
  <1>6. CheckpointIsLast
    BY DEF Init, CheckpointIsLast
  <1> QED
    BY <1>2, <1>3, <1>4, <1>5, <1>6 DEF IInv

(* The same for the two sets of SlotsExact.                                *)
LEMMA SlotsMove ==
    ASSUME TypeOK, SlotsExact, NEW c \in Clients, NEW v, conn' = [conn EXCEPT ![c] = v],
           permits' = IF conn[c] \in AdmittedPhases THEN IF v \in AdmittedPhases THEN permits ELSE permits + 1
                      ELSE IF v \in AdmittedPhases THEN permits - 1 ELSE permits,
           active' = IF conn[c] \in CountedPhases THEN IF v \in CountedPhases THEN active ELSE active - 1
                     ELSE IF v \in CountedPhases THEN active + 1 ELSE active
    PROVE  SlotsExact'
  <1>1. /\ conn[c] \notin AdmittedPhases /\ v \in AdmittedPhases
              => Cardinality(In(AdmittedPhases))' = Cardinality(In(AdmittedPhases)) + 1
        /\ conn[c] \in AdmittedPhases /\ v \notin AdmittedPhases
              => Cardinality(In(AdmittedPhases))' = Cardinality(In(AdmittedPhases)) - 1
        /\ (conn[c] \in AdmittedPhases <=> v \in AdmittedPhases)
              => Cardinality(In(AdmittedPhases))' = Cardinality(In(AdmittedPhases))
    BY Move
  <1>2. /\ conn[c] \notin CountedPhases /\ v \in CountedPhases
              => Cardinality(In(CountedPhases))' = Cardinality(In(CountedPhases)) + 1
        /\ conn[c] \in CountedPhases /\ v \notin CountedPhases
              => Cardinality(In(CountedPhases))' = Cardinality(In(CountedPhases)) - 1
        /\ (conn[c] \in CountedPhases <=> v \in CountedPhases)
              => Cardinality(In(CountedPhases))' = Cardinality(In(CountedPhases))
    BY Move
  <1>3. permits \in Int /\ active \in Int /\ MaxConnections \in Int
    BY ServerAssumption DEF TypeOK
  <1>4. /\ Cardinality(In(AdmittedPhases)) \in Int
        /\ Cardinality(In(CountedPhases)) \in Int
    BY Numbers DEF Admitted, Counted
  <1>5. (permits + Cardinality(Admitted) = MaxConnections)'
    BY <1>1, <1>3, <1>4 DEF SlotsExact, Admitted
  <1>6. (active = Cardinality(Counted))'
    BY <1>2, <1>3, <1>4 DEF SlotsExact, Counted
  <1> QED
    BY <1>5, <1>6 DEF SlotsExact

(* Every step keeps the slots exact.                                       *)
LEMMA SlotsStep == TypeOK /\ SlotsExact /\ PeerInv /\ [Next]_vars => SlotsExact'
  <1> SUFFICES ASSUME TypeOK, SlotsExact, PeerInv, [Next]_vars PROVE SlotsExact'
    OBVIOUS
  <1> USE DEF AdmittedPhases, CountedPhases
  <1>1. ASSUME NEW c \in Clients, Connect(c) PROVE SlotsExact'
    BY <1>1, SlotsMove DEF Connect, slots
  <1>2. ASSUME NEW c \in Clients, Accept(c) PROVE SlotsExact'
    BY <1>2, SlotsMove DEF Accept, slots
  <1>3. ASSUME NEW c \in Clients, Open(c) PROVE SlotsExact'
    BY <1>3, SlotsMove DEF Open
  <1>4. ASSUME NEW c \in Clients, Greet(c) PROVE SlotsExact'
    BY <1>4, SlotsMove DEF Greet, slots
  <1>5. ASSUME NEW c \in Clients, Query(c) PROVE SlotsExact'
    BY <1>5, SlotsMove DEF Query, slots
  <1>6. ASSUME NEW c \in Clients, Answer(c) PROVE SlotsExact'
    BY <1>6, SlotsMove DEF Answer, slots
  <1>7. ASSUME NEW c \in Clients, End(c) PROVE SlotsExact'
    BY <1>7, SlotsMove DEF End
  <1>8. ASSUME NEW c \in Clients, Release(c) PROVE SlotsExact'
    BY <1>8, SlotsMove DEF Release
  <1>9. CASE Serve
    <2>1. PICK c \in Clients : peer = {c} /\ conn[c] = "accepting"
      BY <1>9 DEF Serve, PeerInv
    <2>2. conn' = [conn EXCEPT ![c] = IF permits > 0 THEN "spawned" ELSE "away"]
      BY <1>9, <2>1 DEF Serve, TypeOK
    <2>3. CASE permits > 0
      BY <1>9, <2>1, <2>2, <2>3, SlotsMove DEF Serve
    <2>4. CASE ~(permits > 0)
      BY <1>9, <2>1, <2>2, <2>4, SlotsMove DEF Serve
    <2> QED
      BY <2>3, <2>4
  <1>10. CASE Shutdown
    <2>1. Admitted' = Admitted /\ Counted' = Counted
      BY <1>10 DEF Shutdown, Admitted, Counted, In
    <2> QED
      BY <2>1, <1>10 DEF Shutdown, SlotsExact, slots
  <1>11. CASE Stop
    <2>1. Admitted' = {} /\ Counted' = {}
      BY <1>11 DEF Stop, Admitted, Counted, In
    <2> QED
      BY <2>1, <1>11, FS_EmptySet, ServerAssumption DEF Stop, SlotsExact
  <1>12. ASSUME UNCHANGED <<slots, conn>> PROVE SlotsExact'
    BY <1>12 DEF SlotsExact, Admitted, Counted, In, slots
  <1> QED
    BY <1>1, <1>2, <1>3, <1>4, <1>5, <1>6, <1>7, <1>8, <1>9, <1>10, <1>11, <1>12
       DEF Next, vars, Signal, AcceptFails, Deadline, Drained, DrainTimeout, Checkpoint, Return

(* Every step keeps the types; the slots bound the two counters.           *)
LEMMA TypeStep == TypeOK /\ SlotsExact /\ SlotsExact' /\ [Next]_vars => TypeOK'
  <1> SUFFICES ASSUME TypeOK, SlotsExact, SlotsExact', [Next]_vars PROVE TypeOK'
    OBVIOUS
  <1> USE DEF loop, slots, seen, bounds
  <1>1. /\ (Cardinality(Admitted) \in Nat /\ Cardinality(Counted) \in Nat)'
        /\ (Cardinality(Counted) <= Cardinality(Admitted))'
    BY Numbers, PTL
  <1>2. permits' \in Nat
    <2>1. permits \in Nat /\ MaxConnections \in Nat
      BY ServerAssumption DEF TypeOK
    <2> QED
      BY <2>1 DEF Next, vars, Connect, Signal, Accept, AcceptFails, Serve, Open, Greet, Query, Answer, End, Release,
           Shutdown, Deadline, Drained, DrainTimeout, Checkpoint, Return, Stop
  <1>3. permits' \in 0..MaxConnections /\ active' \in 0..MaxConnections
    BY <1>1, <1>2, ServerAssumption DEF SlotsExact
  <1>4. conn' \in [Clients -> Phases]
    BY DEF TypeOK, Phases, Next, vars, Connect, Signal, Accept, AcceptFails, Serve, Open, Greet, Query, Answer, End, Release,
           Shutdown, Deadline, Drained, DrainTimeout, Checkpoint, Return, Stop
  <1>5. /\ main' \in {"select", "accepted", "drain", "checkpoint", "returning", "dropping", "stopped"}
        /\ peer' \subseteq Clients /\ missed' \subseteq Clients /\ late' \subseteq Clients
    BY DEF TypeOK, In, Next, vars, Connect, Signal, Accept, AcceptFails, Serve, Open, Greet, Query, Answer, End, Release,
           Shutdown, Deadline, Drained, DrainTimeout, Checkpoint, Return, Stop
  <1>6. /\ sig' \in BOOLEAN /\ timeUp' \in BOOLEAN /\ lost' \in BOOLEAN
        /\ expired' \in BOOLEAN /\ saved' \in BOOLEAN
    <2>1. /\ sig' = sig \/ sig' = FALSE \/ sig' = (main = "select")
          /\ lost' = lost \/ lost' = (lost \/ main = "accepted") \/ lost' = (lost \/ sig)
          /\ timeUp' = timeUp \/ timeUp' = TRUE
          /\ expired' = expired \/ expired' = TRUE
          /\ saved' = saved \/ saved' = TRUE
      BY Zenon DEF Next, vars, Connect, Signal, Accept, AcceptFails, Serve, Open, Greet, Query, Answer, End, Release,
             Shutdown, Deadline, Drained, DrainTimeout, Checkpoint, Return, Stop
    <2> QED
      BY <2>1, Zenon DEF TypeOK
  <1>7. signals' \in 0..MaxSignals /\ connects' \in 0..MaxConnects /\ queries' \in 0..MaxQueries
    BY ServerAssumption DEF TypeOK, Next, vars, Connect, Signal, Accept, AcceptFails, Serve, Open, Greet, Query, Answer, End, Release,
           Shutdown, Deadline, Drained, DrainTimeout, Checkpoint, Return, Stop
  <1> QED
    BY <1>3, <1>4, <1>5, <1>6, <1>7 DEF TypeOK

(* Only Accept fills the accept branch, and only Serve empties it.         *)
LEMMA PeerStep == TypeOK /\ PeerInv /\ [Next]_vars => PeerInv'
  <1> SUFFICES ASSUME TypeOK, PeerInv, [Next]_vars PROVE PeerInv'
    OBVIOUS
  <1> QED
    BY DEF PeerInv, TypeOK, loop, slots, seen, bounds, Next, vars, Connect, Signal, Accept, AcceptFails, Serve, Open, Greet, Query, Answer, End, Release,
           Shutdown, Deadline, Drained, DrainTimeout, Checkpoint, Return, Stop

(* After the drain no connection comes that it has not missed.             *)
LEMMA DrainStep ==
    TypeOK /\ SlotsExact /\ DrainInv /\ CheckpointIsLast /\ [Next]_vars
        => DrainInv' /\ CheckpointIsLast'
  <1> SUFFICES ASSUME TypeOK, SlotsExact, DrainInv, CheckpointIsLast, [Next]_vars
               PROVE  DrainInv' /\ CheckpointIsLast'
    OBVIOUS
  <1> USE DEF loop, slots, seen, bounds
  <1> DEFINE Answering == {"spawned", "greeting", "open", "busy"}
  <1>1. CASE Drained
    <2>1. Counted = {}
      BY <1>1, Numbers DEF Drained, SlotsExact
    <2>2. In(Answering)' \subseteq missed'
      BY <1>1, <2>1 DEF Drained, In, Counted, CountedPhases
    <2> QED
      BY <1>1, <2>2 DEF Drained, DrainInv, CheckpointIsLast
  <1>2. CASE DrainTimeout
    BY <1>2 DEF DrainTimeout, DrainInv, CheckpointIsLast
  <1>3. CASE Checkpoint
    BY <1>3 DEF Checkpoint, DrainInv, CheckpointIsLast, In
  <1>4. ASSUME NEW c \in Clients, Answer(c) PROVE DrainInv' /\ CheckpointIsLast'
    <2>1. In(Answering)' \subseteq In(Answering) /\ c \in In(Answering)
      BY <1>4 DEF Answer, In, TypeOK
    <2> QED
      BY <1>4, <2>1 DEF Answer, DrainInv, CheckpointIsLast
  <1>5. ASSUME NEW c \in Clients, Open(c) \/ Greet(c) \/ Query(c) \/ End(c) \/ Release(c)
        PROVE  DrainInv' /\ CheckpointIsLast'
    <2>1. In(Answering)' \subseteq In(Answering)
      BY <1>5 DEF Open, Greet, Query, End, Release, In, TypeOK
    <2>2. UNCHANGED <<main, seen>>
      BY <1>5 DEF Open, Greet, Query, End, Release
    <2> QED
      BY <2>1, <2>2 DEF DrainInv, CheckpointIsLast
  <1>6. ASSUME \/ Signal \/ AcceptFails \/ Serve \/ Shutdown \/ Deadline
               \/ \E c \in Clients : Connect(c) \/ Accept(c)
        PROVE  DrainInv' /\ CheckpointIsLast'
    <2>1. CASE Signal \/ Deadline
      BY <2>1 DEF Signal, Deadline, DrainInv, CheckpointIsLast, In
    <2>2. CASE AcceptFails \/ Serve \/ Shutdown \/ \E c \in Clients : Connect(c) \/ Accept(c)
      <3>1. ~saved /\ main' # "checkpoint" /\ UNCHANGED <<missed, expired, saved, late>>
        BY <2>2 DEF AcceptFails, Serve, Shutdown, Connect, Accept, Listening, DrainInv
      <3> QED
        BY <3>1 DEF DrainInv, CheckpointIsLast
    <2> QED
      BY <1>6, <2>1, <2>2
  <1>7. CASE Return
    BY <1>7 DEF Return, DrainInv, CheckpointIsLast, In
  <1>8. CASE Stop
    <2>1. In(Answering)' = {}
      BY <1>8 DEF Stop, In
    <2> QED
      BY <1>8, <2>1 DEF Stop, DrainInv, CheckpointIsLast
  <1>9. CASE UNCHANGED vars
    BY <1>9 DEF vars, DrainInv, CheckpointIsLast, In
  <1> QED
    BY <1>1, <1>2, <1>3, <1>4, <1>5, <1>6, <1>7, <1>8, <1>9 DEF Next

-----------------------------------------------------------------------------
LEMMA Invariance == Spec => []IInv
  <1>1. IInv /\ [Next]_vars => IInv'
    BY SlotsStep, TypeStep, PeerStep, DrainStep DEF IInv
  <1> QED
    BY Initially, <1>1, PTL DEF Spec

(* Every variable of the server keeps its type: neither the semaphore nor  *)
(* connections_active leaves 0..max_connections.                           *)
THEOREM TypeCorrect == Spec => []TypeOK
  <1>1. IInv => TypeOK
    BY DEF IInv
  <1> QED
    BY Invariance, <1>1, PTL

(* However accept, first poll, end, guard drop and permit drop of any      *)
(* number of connections interleave, no slot is lost or used twice.        *)
THEOREM SlotsStayExact == Spec => []SlotsExact
  <1>1. IInv => SlotsExact
    BY DEF IInv
  <1> QED
    BY Invariance, <1>1, PTL

(* The final checkpoint comes after every statement, unless the drain gave *)
(* up or the connection was accepted and not yet polled when it ended.     *)
THEOREM CheckpointStaysLast == Spec => []CheckpointIsLast
  <1>1. IInv => CheckpointIsLast
    BY DEF IInv
  <1> QED
    BY Invariance, <1>1, PTL

-----------------------------------------------------------------------------
(* The row locks.                                                          *)

(* A thread that has been given a lock object keeps a reference to it.     *)
HandleInv ==
    \A t \in Threads : pc[t] \notin {"idle", "rowLock"} => handle[t] \in Locks

(* The version of a row counts its updates, and what a thread has read is  *)
(* a version of the row with the value that version had.                   *)
VersionInv ==
    /\ \A r \in Rows : val[r] = updates[r] /\ ver[r] = val[r] + 1
    /\ \A t \in Threads : seenVer[t] = seenVal[t] + 1

LockIInv == LockTypeOK /\ HandleInv /\ HeldByHandle /\ VersionInv

(* LockIInv holds in the initial states.                                   *)
LEMMA LockInitIInv == LockInit => LockIInv
  <1> SUFFICES ASSUME LockInit PROVE LockIInv
    OBVIOUS
  <1>1. LockTypeOK
    BY RowLocksAssumption DEF LockInit, LockTypeOK, PCs, Locks
  <1>2. HandleInv
    BY DEF LockInit, HandleInv
  <1>3. HeldByHandle
    BY DEF LockInit, HeldByHandle
  <1>4. VersionInv
    BY DEF LockInit, VersionInv
  <1> QED
    BY <1>1, <1>2, <1>3, <1>4 DEF LockIInv

(* Every step keeps the types.                                             *)
LEMMA LockTypeStep == LockTypeOK /\ HandleInv /\ [LockNext]_lockVars => LockTypeOK'
  <1> SUFFICES ASSUME LockTypeOK /\ HandleInv, [LockNext]_lockVars PROVE LockTypeOK'
    OBVIOUS
  <1> USE RowLocksAssumption DEF LockTypeOK, HandleInv, PCs, Locks
  <1>1. ASSUME NEW t \in Threads, NEW r \in Rows, Scan(t, r) PROVE LockTypeOK'
    <2>1. ops' \in 0..MaxOps
      BY <1>1 DEF Scan
    <2>2. row' \in [Threads -> Rows] /\ pc' \in [Threads -> PCs]
      BY <1>1 DEF Scan, Goto
    <2>3. val[r] \in Nat /\ ver[r] \in Nat \ {0}
      OBVIOUS
    <2>4. seenVal' \in [Threads -> Nat] /\ seenVer' \in [Threads -> Nat \ {0}]
      BY <1>1, <2>3 DEF Scan
    <2> QED
      BY <1>1, <2>1, <2>2, <2>4 DEF Scan, table, locks
  <1>2. ASSUME NEW t \in Threads, RowLock(t) PROVE LockTypeOK'
    <2>1. pc' \in [Threads -> PCs] /\ row[t] \in Rows /\ map[row[t]] \in 0..MaxLocks
      BY <1>2 DEF RowLock, Goto
    <2>2. CASE map[row[t]] = 0
      <3>1. made' \in 0..MaxLocks /\ made + 1 \in 0..MaxLocks
        BY <1>2, <2>2 DEF RowLock
      <3>2. map' = [map EXCEPT ![row[t]] = made + 1] /\ handle' = [handle EXCEPT ![t] = made + 1]
        BY <1>2, <2>2 DEF RowLock
      <3>3. map' \in [Rows -> 0..MaxLocks]
        BY <3>1, <3>2
      <3>4. handle' \in [Threads -> 0..MaxLocks]
        BY <3>1, <3>2
      <3> QED
        BY <1>2, <2>1, <3>1, <3>3, <3>4 DEF RowLock, table, scanned
    <2>3. CASE map[row[t]] # 0
      <3>1. handle' \in [Threads -> 0..MaxLocks]
        BY <1>2, <2>1, <2>3 DEF RowLock
      <3> QED
        BY <1>2, <2>1, <2>3, <3>1 DEF RowLock, table, scanned
    <2> QED
      BY <2>2, <2>3
  <1>3. ASSUME NEW t \in Threads, Acquire(t) PROVE LockTypeOK'
    BY <1>3 DEF Acquire, Goto, lockVars, table, locks, scanned
  <1>4. ASSUME NEW t \in Threads, UpdateRow(t) PROVE LockTypeOK'
    <2>1. pc' \in [Threads -> PCs] /\ row[t] \in Rows
      BY <1>4 DEF UpdateRow, Goto
    <2>2. seenVal[t] + 1 \in Nat /\ NextVersion(seenVer[t]) \in Nat \ {0}
          /\ updates[row[t]] + 1 \in Nat
      BY <2>1 DEF NextVersion
    <2>3. val' \in [Rows -> Nat]
      BY <1>4, <2>2 DEF UpdateRow
    <2>4. ver' \in [Rows -> Nat \ {0}]
      BY <1>4, <2>2 DEF UpdateRow
    <2>5. updates' \in [Rows -> Nat]
      BY <1>4, <2>2 DEF UpdateRow
    <2> QED
      BY <1>4, <2>1, <2>3, <2>4, <2>5 DEF UpdateRow, locks, scanned
  <1>5. ASSUME NEW t \in Threads, DeleteRow(t) PROVE LockTypeOK'
    BY <1>5 DEF DeleteRow, Goto, lockVars, table, locks, scanned
  <1>6. ASSUME NEW t \in Threads, DropGuard(t) PROVE LockTypeOK'
    BY <1>6 DEF DropGuard, Goto, lockVars, table, locks, scanned
  <1>7. ASSUME NEW t \in Threads, Evict(t) PROVE LockTypeOK'
    BY <1>7 DEF Evict, Goto, lockVars, table, locks, scanned
  <1>8. ASSUME NEW t \in Threads, Unlock(t) PROVE LockTypeOK'
    BY <1>8 DEF Unlock, Goto, lockVars, table, locks, scanned
  <1>9. ASSUME NEW t \in Threads, DropHandle(t) PROVE LockTypeOK'
    BY <1>9 DEF DropHandle, Goto, lockVars, table, locks, scanned
  <1>10. CASE UNCHANGED lockVars
    BY <1>10 DEF lockVars, table, locks, scanned
  <1> QED
    BY <1>1, <1>2, <1>3, <1>4, <1>5, <1>6, <1>7, <1>8, <1>9, <1>10 DEF LockNext, Visit

(* Every step keeps the handles of the threads that need one.              *)
LEMMA HandleStep == LockTypeOK /\ HandleInv /\ [LockNext]_lockVars => HandleInv'
  <1> SUFFICES ASSUME LockTypeOK /\ HandleInv, [LockNext]_lockVars PROVE HandleInv'
    OBVIOUS
  <1> USE RowLocksAssumption DEF LockTypeOK, HandleInv, PCs, Locks
  <1>1. ASSUME NEW t \in Threads, NEW r \in Rows, Scan(t, r) PROVE HandleInv'
    BY <1>1 DEF Scan, Goto, lockVars, table, locks, scanned
  <1>2. ASSUME NEW t \in Threads, RowLock(t) PROVE HandleInv'
    BY <1>2 DEF RowLock, Goto, lockVars, table, locks, scanned
  <1>3. ASSUME NEW t \in Threads, Acquire(t) PROVE HandleInv'
    BY <1>3 DEF Acquire, Goto, lockVars, table, locks, scanned
  <1>4. ASSUME NEW t \in Threads, UpdateRow(t) PROVE HandleInv'
    BY <1>4 DEF UpdateRow, Goto, lockVars, table, locks, scanned
  <1>5. ASSUME NEW t \in Threads, DeleteRow(t) PROVE HandleInv'
    BY <1>5 DEF DeleteRow, Goto, lockVars, table, locks, scanned
  <1>6. ASSUME NEW t \in Threads, DropGuard(t) PROVE HandleInv'
    BY <1>6 DEF DropGuard, Goto, lockVars, table, locks, scanned
  <1>7. ASSUME NEW t \in Threads, Evict(t) PROVE HandleInv'
    BY <1>7 DEF Evict, Goto, lockVars, table, locks, scanned
  <1>8. ASSUME NEW t \in Threads, Unlock(t) PROVE HandleInv'
    BY <1>8 DEF Unlock, Goto, lockVars, table, locks, scanned
  <1>9. ASSUME NEW t \in Threads, DropHandle(t) PROVE HandleInv'
    BY <1>9 DEF DropHandle, Goto, lockVars, table, locks, scanned
  <1>10. CASE UNCHANGED lockVars
    BY <1>10 DEF lockVars, table, locks, scanned
  <1> QED
    BY <1>1, <1>2, <1>3, <1>4, <1>5, <1>6, <1>7, <1>8, <1>9, <1>10 DEF LockNext, Visit

(* Every step keeps each lock with a holder that refers to it.             *)
LEMMA HeldStep == LockTypeOK /\ HandleInv /\ HeldByHandle /\ [LockNext]_lockVars => HeldByHandle'
  <1> SUFFICES ASSUME LockTypeOK /\ HandleInv /\ HeldByHandle, [LockNext]_lockVars PROVE HeldByHandle'
    OBVIOUS
  <1> USE RowLocksAssumption DEF LockTypeOK, HandleInv, HeldByHandle, PCs, Locks
  <1>1. ASSUME NEW t \in Threads, NEW r \in Rows, Scan(t, r) PROVE HeldByHandle'
    <2>1. handle' = handle /\ holder' = holder
      BY <1>1 DEF Scan, locks
    <2>2. pc' = [pc EXCEPT ![t] = "rowLock"] /\ pc[t] = "idle"
      BY <1>1 DEF Scan, Goto
    <2> SUFFICES ASSUME NEW l \in Locks, holder[l] # NoThread
                 PROVE  /\ handle[holder[l]] = l
                        /\ pc'[holder[l]] \in {"change", "dropGuard", "evict", "unlock"}
      BY <2>1 DEF HeldByHandle
    <2>3. holder[l] \in Threads /\ holder[l] # t
      BY <2>2
    <2> QED
      BY <2>2, <2>3
  <1>2. ASSUME NEW t \in Threads, RowLock(t) PROVE HeldByHandle'
    BY <1>2 DEF RowLock, Goto, lockVars, table, locks, scanned
  <1>3. ASSUME NEW t \in Threads, Acquire(t) PROVE HeldByHandle'
    <2>1. handle' = handle /\ handle[t] \in Locks /\ pc[t] = "acquire"
      BY <1>3 DEF Acquire
    <2>2. pc' = [pc EXCEPT ![t] = "change"] /\ holder' = [holder EXCEPT ![handle[t]] = t]
      BY <1>3 DEF Acquire, Goto
    <2> SUFFICES ASSUME NEW l \in Locks, holder'[l] # NoThread
                 PROVE  /\ handle'[holder'[l]] = l
                        /\ pc'[holder'[l]] \in {"change", "dropGuard", "evict", "unlock"}
      BY DEF HeldByHandle
    <2>3. CASE l = handle[t]
      BY <2>1, <2>2, <2>3
    <2>4. CASE l # handle[t]
      <3>1. holder'[l] = holder[l] /\ holder[l] \in Threads
        BY <2>2, <2>4
      <3>2. holder[l] # t
        BY <2>1, <2>4, <3>1
      <3> QED
        BY <2>1, <2>2, <3>1, <3>2
    <2> QED
      BY <2>3, <2>4
  <1>4. ASSUME NEW t \in Threads, UpdateRow(t) PROVE HeldByHandle'
    BY <1>4 DEF UpdateRow, Goto, lockVars, table, locks, scanned
  <1>5. ASSUME NEW t \in Threads, DeleteRow(t) PROVE HeldByHandle'
    BY <1>5 DEF DeleteRow, Goto, lockVars, table, locks, scanned
  <1>6. ASSUME NEW t \in Threads, DropGuard(t) PROVE HeldByHandle'
    BY <1>6 DEF DropGuard, Goto, lockVars, table, locks, scanned
  <1>7. ASSUME NEW t \in Threads, Evict(t) PROVE HeldByHandle'
    BY <1>7 DEF Evict, Goto, lockVars, table, locks, scanned
  <1>8. ASSUME NEW t \in Threads, Unlock(t) PROVE HeldByHandle'
    BY <1>8 DEF Unlock, Goto, lockVars, table, locks, scanned
  <1>9. ASSUME NEW t \in Threads, DropHandle(t) PROVE HeldByHandle'
    BY <1>9 DEF DropHandle, Goto, lockVars, table, locks, scanned
  <1>10. CASE UNCHANGED lockVars
    BY <1>10 DEF lockVars, table, locks, scanned
  <1> QED
    BY <1>1, <1>2, <1>3, <1>4, <1>5, <1>6, <1>7, <1>8, <1>9, <1>10 DEF LockNext, Visit

(* Every step keeps the versions: the check makes UpdateRow do so.         *)
LEMMA VersionStep == LockTypeOK /\ VersionInv /\ [LockNext]_lockVars => VersionInv'
  <1> SUFFICES ASSUME LockTypeOK /\ VersionInv, [LockNext]_lockVars PROVE VersionInv'
    OBVIOUS
  <1> USE RowLocksAssumption DEF LockTypeOK, VersionInv, PCs
  <1>1. ASSUME NEW t \in Threads, NEW r \in Rows, Scan(t, r) PROVE VersionInv'
    BY <1>1 DEF Scan, Goto, lockVars, table, locks, scanned
  <1>2. ASSUME NEW t \in Threads, RowLock(t) PROVE VersionInv'
    BY <1>2 DEF RowLock, Goto, lockVars, table, locks, scanned
  <1>3. ASSUME NEW t \in Threads, Acquire(t) PROVE VersionInv'
    BY <1>3 DEF Acquire, Goto, lockVars, table, locks, scanned
  <1>4. ASSUME NEW t \in Threads, UpdateRow(t) PROVE VersionInv'
    BY <1>4 DEF UpdateRow, Goto, lockVars, table, locks, scanned, FreshRow, NextVersion
  <1>5. ASSUME NEW t \in Threads, DeleteRow(t) PROVE VersionInv'
    BY <1>5 DEF DeleteRow, Goto, lockVars, table, locks, scanned
  <1>6. ASSUME NEW t \in Threads, DropGuard(t) PROVE VersionInv'
    BY <1>6 DEF DropGuard, Goto, lockVars, table, locks, scanned
  <1>7. ASSUME NEW t \in Threads, Evict(t) PROVE VersionInv'
    BY <1>7 DEF Evict, Goto, lockVars, table, locks, scanned
  <1>8. ASSUME NEW t \in Threads, Unlock(t) PROVE VersionInv'
    BY <1>8 DEF Unlock, Goto, lockVars, table, locks, scanned
  <1>9. ASSUME NEW t \in Threads, DropHandle(t) PROVE VersionInv'
    BY <1>9 DEF DropHandle, Goto, lockVars, table, locks, scanned
  <1>10. CASE UNCHANGED lockVars
    BY <1>10 DEF lockVars, table, locks, scanned
  <1> QED
    BY <1>1, <1>2, <1>3, <1>4, <1>5, <1>6, <1>7, <1>8, <1>9, <1>10 DEF LockNext, Visit

(* LockIInv holds in every reachable state.                                *)
LEMMA LockInvariant == LockSpec => []LockIInv
  <1>1. LockIInv /\ [LockNext]_lockVars => LockIInv'
    BY LockTypeStep, HandleStep, HeldStep, VersionStep DEF LockIInv
  <1> QED
    BY LockInitIInv, <1>1, PTL DEF LockSpec

(* The types of RowLocks hold in every reachable state.                    *)
THEOREM LockTypesCorrect == LockSpec => []LockTypeOK
  BY LockInvariant, PTL DEF LockIInv

(* StorageEngine::update loses no update that it reported as done, for any *)
(* number of threads, whatever the row locks do.                           *)
THEOREM NoUpdateIsLost == LockSpec => []NoLostUpdate
  <1>1. LockIInv => NoLostUpdate
    BY DEF LockIInv, VersionInv, NoLostUpdate
  <1> QED
    BY LockInvariant, <1>1, PTL

(* RowLockWriteGuard leaves no lock locked that no handle refers to.       *)
THEOREM LocksHaveHandles == LockSpec => []HeldByHandle
  BY LockInvariant, PTL DEF LockIInv
=============================================================================
