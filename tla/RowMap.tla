------------------------------- MODULE RowMap -------------------------------
(***************************************************************************)
(* What a table promises its users (storage.rs TableBackend): a map from   *)
(* row ids to rows that operations change one row at a time, each as a     *)
(* whole or not at all, and ids that are not given out again once an       *)
(* insert has returned.  A failure or a kill may end an operation.  Losing *)
(* rows otherwise is a step of its own, after which nothing is promised    *)
(* of them.                                                                *)
(***************************************************************************)
EXTENDS Integers, Functions

CONSTANTS
    Ids, Vals,  \* row ids and rows
    Rows        \* the table at the beginning: row id -> row

VARIABLES
    map,    \* what get and scan return
    doing,  \* the write in progress: <<>>, or its row id and its row or <<>>
    next,   \* the id that the next insert gets
    given,  \* ids of the rows whose insert has returned
    lost    \* rows may have been lost

vars == <<map, doing, next, given, lost>>

Init == map = Rows /\ doing = <<>> /\ next \in Nat /\ given = {} /\ lost = FALSE

Begin(id, row) ==
    /\ doing = <<>>
    /\ doing' = <<id, row>>
    /\ UNCHANGED <<map, given, lost>>

(* The write happens: the row is put, or removed.                          *)
Apply ==
    LET id == doing[1]
    IN  /\ doing # <<>>
        /\ map' = IF doing[2] = <<>> THEN Restrict(map, DOMAIN map \ {id})
                  ELSE [i \in DOMAIN map \cup {id} |-> IF i = id THEN doing[2][1] ELSE map[i]]
        /\ doing' = <<>>
        /\ UNCHANGED <<next, given, lost>>

(* An error, a kill or a restart.                                          *)
Abort == doing' = <<>> /\ UNCHANGED <<map, given, lost>>

(* Inserts return, and their rows are in the table.                        *)
Return(ids) ==
    /\ ids \subseteq DOMAIN map
    /\ given' = given \cup ids
    /\ UNCHANGED <<map, doing, next, lost>>

(* No promise about the rows from here on.                                 *)
Lose == lost' = TRUE

(* Whatever happens, the next id is beyond those that were given.          *)
Fresh == \A id \in given : id < next

Next ==
    /\ \/ \E id \in Ids, v \in Vals : Begin(id, <<v>>) \/ Begin(id, <<>>)
       \/ Apply
       \/ Abort
       \/ \E ids \in SUBSET Ids : Return(ids)
       \/ Lose
    /\ Fresh'

Spec == Init /\ [][Next]_vars
=============================================================================
