------------------------------- MODULE Server -------------------------------
(***************************************************************************)
(* The server process (main.rs run_serve): the accept loop with its        *)
(* connection limit, one task per connection, the shutdown signal, the     *)
(* drain and the final checkpoint.                                         *)
(*                                                                         *)
(* Tasks run on several workers.  A statement is a synchronous call inside *)
(* its task; between statements the task waits in an await, where dropping *)
(* the runtime ends it.                                                    *)
(***************************************************************************)
EXTENDS Integers, FiniteSets

CONSTANTS
    Clients,
    MaxConnections,   \* server.max_connections
    MaxSignals,       \* bound on signals
    MaxConnects,      \* bound on connection attempts
    MaxQueries        \* bound on statements

ASSUME ServerAssumption ==
    /\ IsFiniteSet(Clients) /\ MaxConnections \in Nat
    /\ MaxSignals \in Nat /\ MaxConnects \in Nat /\ MaxQueries \in Nat

VARIABLES
    main,      \* where run_serve is
    peer,      \* the client whose stream the accept branch has, as a set
    sig,       \* a signal waits for the shutdown_signal() of this iteration
    timeUp,    \* the drain deadline has passed
    permits,   \* of the Semaphore
    active,    \* metrics.connections_active
    conn,      \* each client's connection
    \* history
    lost,      \* a signal nobody was listening to
    missed,    \* connections the drain did not count
    expired,   \* the drain ended by its deadline
    saved,     \* the final checkpoint has been made
    late,      \* clients whose statements were answered after it
    signals, connects, queries

loop == <<main, peer, sig, timeUp>>
slots == <<permits, active>>
seen == <<lost, missed, expired, saved, late>>
bounds == <<signals, connects, queries>>
vars == <<loop, slots, conn, seen, bounds>>

Init ==
    /\ main = "select" /\ peer = {} /\ sig = FALSE /\ timeUp = FALSE
    /\ permits = MaxConnections /\ active = 0
    /\ conn = [c \in Clients |-> "away"]
    /\ lost = FALSE /\ missed = {} /\ expired = FALSE /\ saved = FALSE /\ late = {}
    /\ signals = 0 /\ connects = 0 /\ queries = 0

Listening == main \in {"select", "accepted"}   \* the listener is not dropped
Running == main \notin {"dropping", "stopped"} \* tasks are polled
In(states) == {c \in Clients : conn[c] \in states}

-----------------------------------------------------------------------------
(* A client connects; the kernel queues it for accept.                     *)
Connect(c) ==
    /\ Listening /\ conn[c] = "away" /\ connects < MaxConnects
    /\ conn' = [conn EXCEPT ![c] = "backlog"]
    /\ connects' = connects + 1
    /\ UNCHANGED <<loop, slots, seen, signals, queries>>

(* SIGTERM or Ctrl+C.  Only a shutdown_signal() that exists gets it: while *)
(* the accept branch runs there is none, and after the loop none is made.  *)
Signal ==
    /\ main # "stopped" /\ signals < MaxSignals
    /\ signals' = signals + 1
    /\ sig' = (main = "select")
    /\ lost' = (lost \/ main = "accepted")
    /\ UNCHANGED <<main, peer, timeUp, slots, conn, missed, expired, saved, late, connects, queries>>

(* select! takes the accept branch and drops the other future, with the    *)
(* signal it may have received.                                            *)
Accept(c) ==
    /\ main = "select" /\ conn[c] = "backlog"
    /\ main' = "accepted" /\ peer' = {c}
    /\ sig' = FALSE /\ lost' = (lost \/ sig)
    /\ conn' = [conn EXCEPT ![c] = "accepting"]
    /\ UNCHANGED <<timeUp, slots, missed, expired, saved, late, bounds>>

(* accept_result?: the server returns without drain and checkpoint.        *)
AcceptFails ==
    /\ main = "select"
    /\ main' = "returning" /\ sig' = FALSE
    /\ UNCHANGED <<peer, timeUp, slots, conn, seen, bounds>>

(* The accept branch: a permit and a task, or the stream is dropped.       *)
ServeUnlimited ==
    /\ main = "accepted"
    /\ main' = "select" /\ peer' = {}
    /\ conn' = [c \in Clients |-> IF c \in peer THEN "spawned" ELSE conn[c]]
    /\ permits' = permits - 1
    /\ UNCHANGED <<sig, timeUp, active, seen, bounds>>

Serve ==
    /\ main = "accepted"
    /\ main' = "select" /\ peer' = {}
    /\ conn' = [c \in Clients |-> IF c \notin peer THEN conn[c]
                                 ELSE IF permits > 0 THEN "spawned" ELSE "away"]
    /\ permits' = IF permits > 0 THEN permits - 1 ELSE permits
    /\ UNCHANGED <<sig, timeUp, active, seen, bounds>>

-----------------------------------------------------------------------------
(* The task of a connection.  It is counted at its first poll.             *)
Open(c) ==
    /\ Running /\ conn[c] = "spawned"
    /\ conn' = [conn EXCEPT ![c] = "greeting"]
    /\ active' = active + 1
    /\ UNCHANGED <<loop, permits, seen, bounds>>

(* handle_connection up to the first ReadyForQuery.                        *)
Greet(c) ==
    /\ Running /\ conn[c] = "greeting"
    /\ conn' = [conn EXCEPT ![c] = "open"]
    /\ UNCHANGED <<loop, slots, seen, bounds>>

Query(c) ==
    /\ Running /\ conn[c] = "open" /\ queries < MaxQueries
    /\ conn' = [conn EXCEPT ![c] = "busy"]
    /\ queries' = queries + 1
    /\ UNCHANGED <<loop, slots, seen, signals, connects>>

(* The statement returns and is answered.                                  *)
Answer(c) ==
    /\ conn[c] = "busy"
    /\ conn' = [conn EXCEPT ![c] = "open"]
    /\ late' = IF saved THEN late \cup {c} ELSE late
    /\ UNCHANGED <<loop, slots, lost, missed, expired, saved, bounds>>

(* End of input, Terminate, an error or a panic: the locals of the task    *)
(* are dropped, first the guard and then the permit.                       *)
EndFreeing(c) ==
    /\ Running /\ conn[c] \in {"greeting", "open", "busy"}
    /\ conn' = [conn EXCEPT ![c] = "closing"]
    /\ permits' = permits + 1
    /\ UNCHANGED <<loop, active, seen, bounds>>

End(c) ==
    /\ Running /\ conn[c] \in {"greeting", "open", "busy"}
    /\ conn' = [conn EXCEPT ![c] = "closing"]
    /\ active' = active - 1
    /\ UNCHANGED <<loop, permits, seen, bounds>>

Release(c) ==
    /\ Running /\ conn[c] = "closing"
    /\ conn' = [conn EXCEPT ![c] = "away"]
    /\ permits' = permits + 1
    /\ UNCHANGED <<loop, active, seen, bounds>>

-----------------------------------------------------------------------------
(* The shutdown branch: the listener is dropped, with what it has queued.  *)
Shutdown ==
    /\ main = "select" /\ sig
    /\ main' = "drain" /\ sig' = FALSE
    /\ conn' = [c \in Clients |-> IF conn[c] = "backlog" THEN "away" ELSE conn[c]]
    /\ UNCHANGED <<peer, timeUp, slots, seen, bounds>>

(* drain_connections.  Its sleep changes nothing.                          *)
Deadline ==
    /\ main = "drain" /\ ~timeUp
    /\ timeUp' = TRUE
    /\ UNCHANGED <<main, peer, sig, slots, conn, seen, bounds>>

DrainedAnyway ==
    /\ main = "drain"
    /\ main' = "checkpoint"
    /\ missed' = In({"spawned"})
    /\ UNCHANGED <<peer, sig, timeUp, slots, conn, lost, expired, saved, late, bounds>>

Drained ==
    /\ main = "drain" /\ active = 0
    /\ main' = "checkpoint"
    /\ missed' = In({"spawned"})
    /\ UNCHANGED <<peer, sig, timeUp, slots, conn, lost, expired, saved, late, bounds>>

DrainTimeoutNever ==
    /\ main = "drain" /\ active > MaxConnections /\ timeUp
    /\ main' = "checkpoint" /\ expired' = TRUE
    /\ UNCHANGED <<peer, sig, timeUp, slots, conn, lost, missed, saved, late, bounds>>

DrainTimeout ==
    /\ main = "drain" /\ active > 0 /\ timeUp
    /\ main' = "checkpoint" /\ expired' = TRUE
    /\ UNCHANGED <<peer, sig, timeUp, slots, conn, lost, missed, saved, late, bounds>>

(* The final checkpoint; a failure is only logged.                         *)
Checkpoint ==
    /\ main = "checkpoint"
    /\ main' = "returning" /\ saved' = TRUE
    /\ UNCHANGED <<peer, sig, timeUp, slots, conn, lost, missed, expired, late, bounds>>

(* run_serve returns and the runtime is dropped: tasks end at their await, *)
(* a statement that runs returns first.                                    *)
Return ==
    /\ main = "returning"
    /\ main' = "dropping"
    /\ UNCHANGED <<peer, sig, timeUp, slots, conn, seen, bounds>>

Stop ==
    /\ main = "dropping" /\ In({"busy"}) = {}
    /\ main' = "stopped"
    /\ conn' = [c \in Clients |-> "away"]
    /\ permits' = MaxConnections /\ active' = 0
    /\ UNCHANGED <<peer, sig, timeUp, seen, bounds>>

Next ==
    \/ \E c \in Clients :
          Connect(c) \/ Accept(c) \/ Open(c) \/ Greet(c)
              \/ Query(c) \/ Answer(c) \/ End(c) \/ Release(c)
    \/ Signal \/ AcceptFails \/ Serve
    \/ Shutdown \/ Deadline \/ Drained \/ DrainTimeout \/ Checkpoint \/ Return \/ Stop

Spec == Init /\ [][Next]_vars

(* The main task and the clock go on, and a statement returns.  Nothing is *)
(* assumed of clients, and select! may choose either branch.               *)
FairSpec ==
    /\ Spec
    /\ WF_vars(Serve) /\ WF_vars(Shutdown) /\ WF_vars(Deadline)
    /\ WF_vars(Drained \/ DrainTimeout) /\ WF_vars(Checkpoint \/ Return) /\ WF_vars(Stop)
    /\ \A c \in Clients : WF_vars(Answer(c))

-----------------------------------------------------------------------------
Phases == {"away", "backlog", "accepting", "spawned", "greeting", "open", "busy", "closing"}

(* Every variable has its type.                                            *)
TypeOK ==
    /\ main \in {"select", "accepted", "drain", "checkpoint", "returning",
                "dropping", "stopped"}
    /\ peer \subseteq Clients /\ missed \subseteq Clients /\ late \subseteq Clients
    /\ sig \in BOOLEAN /\ timeUp \in BOOLEAN /\ lost \in BOOLEAN
    /\ expired \in BOOLEAN /\ saved \in BOOLEAN
    /\ permits \in 0..MaxConnections /\ active \in 0..MaxConnections
    /\ conn \in [Clients -> Phases]
    /\ signals \in 0..MaxSignals /\ connects \in 0..MaxConnects /\ queries \in 0..MaxQueries

CountedPhases == {"greeting", "open", "busy"}
AdmittedPhases == CountedPhases \cup {"spawned", "closing"}
Admitted == In(AdmittedPhases)
Counted == In(CountedPhases)

(* No slot is lost or used twice: every permit is free or belongs to one   *)
(* connection, and connections_active counts the connections whose task    *)
(* has begun and not ended, so it never exceeds max_connections (permit    *)
(* and guard are acquired and dropped in four separate steps).             *)
SlotsExact ==
    /\ permits + Cardinality(Admitted) = MaxConnections
    /\ active = Cardinality(Counted)

(* The final checkpoint is the last thing that happens to the data: a      *)
(* statement is answered after it only if the drain gave up, or if the     *)
(* drain ran between the accept of that connection and its first poll.     *)
CheckpointIsLast == expired \/ late \subseteq missed

(* A shutdown that has begun ends, whatever the clients do, and a signal   *)
(* stops the server unless it is lost: it came while the accept branch     *)
(* ran, or select! took that branch and dropped it.                        *)
ShutdownEnds ==
    /\ (main = "drain") ~> (main = "stopped")
    /\ (signals > 0) ~> (main = "stopped" \/ lost)
=============================================================================
