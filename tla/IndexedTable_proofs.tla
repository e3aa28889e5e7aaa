------------------------ MODULE IndexedTable_proofs ------------------------
(***************************************************************************)
(* The invariants of IndexedTable, for any number of sessions, indexes,    *)
(* keys, rows, statements and restarts.                                    *)
(***************************************************************************)
EXTENDS IndexedTable, FiniteSetTheorems, TLAPS

RowType == [val : Values, ver : Nat \ {0}]
UndoType == [kind : {"Insert", "Update", "Delete"}, id : Ids, old : RowType \cup {NoRow}]
SessType == [open : BOOLEAN, auto : BOOLEAN, undo : Seq(UndoType), step : Steps,
             id : Ids \cup {0}, old : RowType \cup {NoRow}, new : Values \cup {NoRow.val}]

(* The rows of the table, and what a session has in hand for its step.     *)
RowsInv == \A id \in DOMAIN rows : rows[id] \in RowType

WellFormed(me, n) ==
    /\ me.step \in {"index", "unindex", "write", "reindex", "remove", "erase"} => me.id \in 1..(n - 1)
    /\ me.step \in {"unindex", "write", "remove", "erase"} => me.old \in RowType
    /\ me.step \in {"store", "index", "reindex"} => me.new \in Values
    /\ \A e \in 1..Len(me.undo) : /\ me.undo[e].id \in 1..(n - 1)
                                  /\ me.undo[e].kind # "Insert" => me.undo[e].old \in RowType
    /\ me.step \notin {"idle", "undo"} => me.open
    /\ me.auto => me.open /\ me.undo = <<>>
    /\ ~me.open /\ me.step # "undo" => me.undo = <<>>

SessInv == sess \in [Sessions -> SessType] /\ \A s \in Sessions : WellFormed(sess[s], next)

(* Statements and CREATE INDEX run in an open database only.               *)
OpenInv ==
    /\ \A s \in Sessions : sess[s].step # "idle" => up = "open"
    /\ build.index # "none" => up = "open"

(* A row that a session is in the middle of, unless it is spoilt: no other *)
(* session has it in hand, it is there with the value the session knows,   *)
(* and it has no entries.                                                  *)
Known(me) == IF me.step \in {"index", "reindex"} THEN me.new ELSE me.old.val

Taken(s) ==
    LET id == sess[s].id
    IN  /\ id \in DOMAIN rows /\ rows[id].val = Known(sess[s])
        /\ \A i \in defs, k \in Keys : id \notin idx[i][k]
        /\ ~Overlap(s, id)

HandInv == \A s \in Sessions : Busy(s) /\ sess[s].id \notin hurt => Taken(s)

(* The index under construction has the entries of every row that no       *)
(* statement has touched since the scan.                                   *)
BuildInv ==
    /\ build \in [index : Indexes \cup {"none"}, entries : [Keys -> SUBSET Ids],
                  missed : SUBSET Ids]
    /\ build.index # "none" =>
          /\ InHand \subseteq build.missed
          /\ \A id \in Ids \ (hurt \cup build.missed) : \A k \in Keys :
                id \in build.entries[k] <=> id \in DOMAIN rows /\ rows[id].val[build.index] = k

(* The unique index under construction refused rows that share a key.      *)
BuildUniqueInv ==
    build.index \in Unique \ {"none"} =>
        \A a, b \in DOMAIN rows \ (hurt \cup build.missed) :
            a # b => rows[a].val[build.index] # rows[b].val[build.index]

IInv == /\ TypeOK /\ RowsInv /\ SessInv /\ OpenInv
        /\ IndexAgrees /\ HandInv /\ UniqueRows /\ BuildInv /\ BuildUniqueInv

-----------------------------------------------------------------------------
(* What a row's entries are, and when no settled row has one of its unique *)
(* keys.                                                                   *)
Agrees(id) == \A i \in defs, k \in Keys : id \in idx[i][k] <=> id \in DOMAIN rows /\ rows[id].val[i] = k
Bare(id) == \A i \in defs, k \in Keys : id \notin idx[i][k]
Free(id, val) ==
    \A i \in Unique \cap defs : \A b \in Settled \cap DOMAIN rows : b # id => rows[b].val[i] # val[i]
BusyWith(me) == me.step \in Holding \cup {"index"}

(* A session steps on one row: nothing changes for the others, so it is    *)
(* enough to look at that row.  If it is not spoilt, either the session    *)
(* still has it in hand, or its entries are those of the table.            *)
Touched(s, id) ==
    /\ hurt' = hurt \cup {id} \/ (hurt' = hurt /\ ~Overlap(s, id))
    /\ build' = IF build.index = "none" THEN build ELSE [build EXCEPT !.missed = @ \cup {id}]

RowSettles(s, id) ==
    IF BusyWith(sess'[s])
    THEN id \in DOMAIN rows' /\ rows'[id].val = Known(sess'[s]) /\ Bare(id)'
    ELSE Agrees(id)' /\ (id \in DOMAIN rows' => Free(id, rows'[id].val))

SameRows(id) ==
    \A j \in Ids \ {id} : /\ j \in DOMAIN rows' <=> j \in DOMAIN rows
                          /\ j \in DOMAIN rows => rows'[j] = rows[j]

SameEntries(id) ==
    \A i \in Indexes, k \in Keys : \A j \in Ids \ {id} : j \in idx'[i][k] <=> j \in idx[i][k]

TableOK ==
    /\ DOMAIN rows' \subseteq 1..(next' - 1) /\ RowsInv' /\ next' \in next..(MaxRows + 1)
    /\ idx' \in [Indexes -> [Keys -> SUBSET Ids]]

SessionOK(s) ==
    /\ sess' = [sess EXCEPT ![s] = sess'[s]]
    /\ sess'[s] \in SessType /\ WellFormed(sess'[s], next')

LEMMA OneRow ==
    ASSUME IInv, NEW s \in Sessions, NEW id \in Ids, up = "open", UNCHANGED <<defs, up>>,
           SessionOK(s), Touched(s, id), TableOK, SameRows(id), SameEntries(id),
           Busy(s) => sess[s].id = id,
           BusyWith(sess'[s]) => sess'[s].id = id,
           id \notin hurt' => RowSettles(s, id)
    PROVE  IInv'
  <1> USE DEF IInv, SameRows, SameEntries, TableOK, SessionOK, RowSettles
  <1>0. DOMAIN rows' \subseteq Ids
    BY IndexAssumption DEF TypeOK, Ids
  <1> DEFINE me == sess'[s]
  <1>1. \A u \in Sessions \ {s} : sess'[u] = sess[u]
    BY DEF SessInv, SessionOK
  <1>2. \A u \in Sessions \ {s} : Busy(u)' <=> Busy(u)
    BY <1>1 DEF Busy
  <1>3. Busy(s)' <=> BusyWith(me)
    BY <1>1 DEF Busy, BusyWith
  <1>4. \A j : j \in InHand <=> \E u \in Sessions : Busy(u) /\ sess[u].id = j
    BY DEF InHand
  <1>5. \A j : j \in InHand' <=> \E u \in Sessions : Busy(u)' /\ sess'[u].id = j
    BY DEF InHand
  <1>6. \A j \in Ids \ {id} : j \in InHand' <=> j \in InHand
    BY <1>1, <1>2, <1>3, <1>4, <1>5
  <1>7. hurt \subseteq hurt' /\ hurt' \subseteq hurt \cup {id}
    BY DEF Touched
  <1>8. \A j \in Ids \ {id} : j \in Settled' <=> j \in Settled
    BY <1>6, <1>7 DEF Settled, Ids
  <1>9. id \notin hurt' => \A u \in Sessions \ {s} : ~(Busy(u)' /\ sess'[u].id = id)
    BY <1>1, <1>2 DEF Touched, Overlap
  <1>10. id \notin hurt' => (id \in InHand' <=> BusyWith(me))
    BY <1>1, <1>3, <1>5, <1>9
  <1>11. IndexAgrees'
    <2> SUFFICES ASSUME up' = "open", NEW i \in defs', NEW k \in Keys, NEW j \in Settled'
                 PROVE  (j \in idx[i][k] <=> j \in DOMAIN rows /\ rows[j].val[i] = k)'
      BY DEF IndexAgrees
    <2>1. i \in Indexes /\ i \in defs /\ j \in Ids
      BY DEF TypeOK, Settled, Ids
    <2>2. CASE j # id
      BY <2>1, <2>2, <1>8 DEF IndexAgrees
    <2>3. CASE j = id
      BY <2>1, <2>3, <1>10 DEF Settled, Agrees
    <2> QED
      BY <2>2, <2>3
  <1>12. HandInv'
    <2> SUFFICES ASSUME NEW u \in Sessions, Busy(u)', sess'[u].id \notin hurt'
                 PROVE  Taken(u)'
      BY DEF HandInv
    <2>1. sess'[u].id \in Ids
      <3>1. CASE u = s
        BY <3>1, <1>1, <1>3
      <3>2. CASE u # s
        <4>1. sess'[u] = sess[u] /\ Busy(u)
          BY <3>2, <1>1, <1>2
        <4>2. sess[u].id \in 1..(next - 1)
          BY <4>1 DEF Busy, SessInv, WellFormed, Holding
        <4> QED
          BY <4>1, <4>2, IndexAssumption DEF TypeOK, Ids
      <3> QED
        BY <3>1, <3>2
    <2>2. CASE u = s
      <3>1. BusyWith(me) /\ sess'[s].id = id
        BY <2>2, <1>1, <1>3
      <3>2. id \in DOMAIN rows' /\ rows'[id].val = Known(sess'[s]) /\ Bare(id)'
        BY <2>2, <3>1, <1>1
      <3>3. ~Overlap(s, id)'
        BY <2>2, <3>1, <1>9 DEF Overlap
      <3> QED
        BY <2>2, <3>1, <3>2, <3>3 DEF Taken, Bare
    <2>3. CASE u # s
      <3>1. Busy(u) /\ sess'[u] = sess[u] /\ sess[u].id \notin hurt
        BY <2>3, <1>1, <1>2, <1>7
      <3>2. sess[u].id # id
        BY <2>3, <3>1, <1>9
      <3>3. Taken(u)
        BY <3>1 DEF HandInv
      <3>4. sess[u].id \in DOMAIN rows' /\ rows'[sess[u].id] = rows[sess[u].id]
        BY <2>1, <3>1, <3>2, <3>3 DEF Taken
      <3>5. Bare(sess[u].id)'
        BY <2>1, <3>1, <3>2, <3>3 DEF Taken, Bare, TypeOK
      <3>6. ~Overlap(u, sess[u].id)'
        BY <2>3, <3>1, <3>2, <3>3, <1>1, <1>2, <1>3 DEF Taken, Overlap
      <3> QED
        BY <3>1, <3>3, <3>4, <3>5, <3>6 DEF Taken, Bare
    <2> QED
      BY <2>2, <2>3
  <1>13. UniqueRows'
    <2> SUFFICES ASSUME NEW i \in Unique \cap defs', NEW a \in Settled' \cap DOMAIN rows',
                        NEW b \in Settled' \cap DOMAIN rows', a # b
                 PROVE  rows'[a].val[i] # rows'[b].val[i]
      BY DEF UniqueRows
    <2>1. i \in Unique \cap defs /\ a \in Ids /\ b \in Ids
      BY DEF Settled, Ids
    <2>2. \A j \in {a, b} : j # id => j \in Settled \cap DOMAIN rows /\ rows'[j] = rows[j]
      BY <2>1, <1>8
    <2>3. id \in {a, b} => Free(id, rows'[id].val)
      BY <1>10 DEF Settled
    <2>4. CASE a # id /\ b # id
      BY <2>1, <2>2, <2>4 DEF UniqueRows
    <2>5. CASE a = id
      BY <2>1, <2>2, <2>3, <2>5 DEF Free
    <2>6. CASE b = id
      BY <2>1, <2>2, <2>3, <2>6 DEF Free
    <2> QED
      BY <2>4, <2>5, <2>6
  <1>14. /\ build' \in [index : Indexes \cup {"none"}, entries : [Keys -> SUBSET Ids],
                        missed : SUBSET Ids]
         /\ build'.index = build.index /\ build'.entries = build.entries
         /\ build.missed \subseteq build'.missed
         /\ build.index # "none" => id \in build'.missed
    BY DEF Touched, BuildInv
  <1>15. BuildInv'
    <2> SUFFICES ASSUME build.index # "none"
                 PROVE  /\ InHand' \subseteq build'.missed
                        /\ \A j \in Ids \ (hurt' \cup build'.missed) : \A k \in Keys :
                              j \in build'.entries[k]
                                 <=> j \in DOMAIN rows' /\ rows'[j].val[build'.index] = k
      BY <1>14 DEF BuildInv
    <2>1. InHand' \subseteq InHand \cup {id}
      BY <1>1, <1>2, <1>3, <1>4, <1>5
    <2>2. InHand' \subseteq build'.missed
      BY <2>1, <1>14 DEF BuildInv
    <2>3. ASSUME NEW j \in Ids \ (hurt' \cup build'.missed), NEW k \in Keys
          PROVE  j \in build'.entries[k] <=> j \in DOMAIN rows' /\ rows'[j].val[build'.index] = k
      <3>1. j # id /\ j \in Ids \ (hurt \cup build.missed)
        BY <1>7, <1>14
      <3> QED
        BY <3>1, <1>14 DEF BuildInv
    <2> QED
      BY <2>2, <2>3
  <1>16. BuildUniqueInv'
    <2> SUFFICES ASSUME build.index \in Unique, build.index # "none",
                        NEW a \in DOMAIN rows' \ (hurt' \cup build'.missed),
                        NEW b \in DOMAIN rows' \ (hurt' \cup build'.missed), a # b
                 PROVE  rows'[a].val[build.index] # rows'[b].val[build.index]
      BY <1>14 DEF BuildUniqueInv
    <2>1. \A j \in {a, b} : /\ j # id /\ j \in DOMAIN rows \ (hurt \cup build.missed)
                            /\ rows'[j] = rows[j]
      BY <1>0, <1>7, <1>14
    <2> QED
      BY <2>1 DEF BuildUniqueInv
  <1>17. SessInv'
    <2> SUFFICES ASSUME NEW u \in Sessions
                 PROVE  sess'[u] \in SessType /\ WellFormed(sess'[u], next')
      BY DEF SessInv
    <2>1. CASE u = s
      BY <2>1, <1>1
    <2>2. CASE u # s
      <3>1. sess'[u] = sess[u] /\ sess[u] \in SessType /\ WellFormed(sess[u], next)
        BY <2>2, <1>1 DEF SessInv
      <3>2. next \in Int /\ next' \in Int /\ next <= next'
        BY DEF TypeOK
      <3>3. 1..(next - 1) \subseteq 1..(next' - 1)
        BY <3>2
      <3> QED
        BY <3>1, <3>3 DEF WellFormed
    <2> QED
      BY <2>1, <2>2
  <1>18. OpenInv'
    BY <1>14 DEF OpenInv
  <1>19. TypeOK'
    <2>1. next' \in 1..(MaxRows + 1)
      BY IndexAssumption DEF TypeOK
    <2>2. \A u \in Sessions : /\ sess'[u].step \in Steps
                              /\ sess'[u].step \notin {"idle", "undo"} => sess'[u].open
                              /\ sess'[u].auto => sess'[u].open /\ sess'[u].undo = <<>>
      BY <1>17 DEF SessInv, WellFormed, SessType
    <2>3. \A j \in DOMAIN rows' : rows'[j].val \in Values /\ rows'[j].ver \in Nat \ {0}
      BY DEF RowsInv, RowType
    <2>4. hurt' \subseteq Ids /\ build'.missed \subseteq Ids
      BY <1>7, <1>14 DEF TypeOK, Ids
    <2> QED
      BY <2>1, <2>2, <2>3, <2>4 DEF TypeOK
  <1> QED
    BY <1>11, <1>12, <1>13, <1>15, <1>16, <1>17, <1>18, <1>19

-----------------------------------------------------------------------------
(* remove_row takes one entry per index away, and insert_row adds entries  *)
(* of its row only: all of them if no unique index refuses.                *)
IdxType == [Indexes -> [Keys -> SUBSET Ids]]

LEMMA RemoveRowResult ==
    ASSUME NEW ix \in IdxType, NEW val \in Values, NEW id
    PROVE  /\ RemoveRow(ix, val, id) \in IdxType
           /\ \A i \in Indexes, k \in Keys : \A j :
                 j \in RemoveRow(ix, val, id)[i][k] <=> j \in ix[i][k] /\ ~(j = id /\ k = val[i])
  BY DEF RemoveRow, IdxType, Values

LEMMA AddToResult ==
    ASSUME NEW ix \in IdxType, NEW which, NEW val \in Values, NEW id \in Ids
    PROVE  /\ AddTo(ix, which, val, id) \in IdxType
           /\ \A i \in Indexes, k \in Keys : \A j :
                 j \in AddTo(ix, which, val, id)[i][k]
                    <=> j \in ix[i][k] \/ (j = id /\ i \in which /\ k = val[i])
  BY DEF AddTo, IdxType, Values

LEMMA InsertRowResult ==
    ASSUME NEW ix \in IdxType, NEW val \in Values, NEW id \in Ids,
           NEW new \in InsertRowOutcomes(ix, val, id)
    PROVE  /\ new \in IdxType
           /\ \A i \in Indexes, k \in Keys : \A j \in Ids \ {id} : j \in new[i][k] <=> j \in ix[i][k]
           /\ ~Refused(ix, val) =>
                 \A i \in defs \cap Indexes, k \in Keys : \A j :
                    j \in new[i][k] <=> j \in ix[i][k] \/ (j = id /\ k = val[i])
           /\ ~Refused(ix, val) => \A i \in Unique \cap defs : ix[i][val[i]] = {}
  <1>1. CASE Refusing(ix, val) = {}
    <2>1. new = AddTo(ix, defs, val, id)
      BY <1>1 DEF InsertRowOutcomes
    <2>2. \A i \in Unique \cap defs : ix[i][val[i]] = {}
      BY <1>1 DEF Refusing
    <2>3. AddTo(ix, defs, val, id) \in IdxType
      BY AddToResult
    <2>4. \A i \in Indexes, k \in Keys : \A j :
             j \in AddTo(ix, defs, val, id)[i][k]
                <=> j \in ix[i][k] \/ (j = id /\ i \in defs /\ k = val[i])
      BY AddToResult
    <2> QED
      BY <2>1, <2>2, <2>3, <2>4
  <1>2. CASE Refusing(ix, val) # {}
    <2>1. PICK done \in SUBSET (defs \ Refusing(ix, val)) : new = AddTo(ix, done, val, id)
      BY <1>2 DEF InsertRowOutcomes
    <2> QED
      BY <1>2, <2>1, AddToResult DEF Refused
  <1> QED
    BY <1>1, <1>2

(* The table with a row put in or taken out.                               *)
LEMMA PutResult ==
    ASSUME NEW id, NEW row
    PROVE  /\ DOMAIN Put(id, row) = DOMAIN rows \cup {id}
           /\ Put(id, row)[id] = row
           /\ \A j \in DOMAIN rows : j # id => Put(id, row)[j] = rows[j]
  BY DEF Put

LEMMA WithoutResult ==
    ASSUME NEW id
    PROVE  /\ DOMAIN Without(id) = DOMAIN rows \ {id}
           /\ \A j \in DOMAIN rows \ {id} : Without(id)[j] = rows[j]
  BY DEF Without, Restrict

(* The session between its steps.                                          *)
LEMMA NewSessionOK ==
    ASSUME NEW n
    PROVE  NewSession \in SessType /\ WellFormed(NewSession, n) /\ ~BusyWith(NewSession)
  BY DEF NewSession, SessType, WellFormed, BusyWith, Holding, Steps, NoRow

LEMMA InTxnOK ==
    ASSUME NEW me \in SessType, NEW n, WellFormed(me, n), me.step = "idle"
    PROVE  /\ InTxn(me) \in SessType /\ WellFormed(InTxn(me), n)
           /\ InTxn(me).open /\ InTxn(me).step = "idle"
  BY DEF InTxn, SessType, WellFormed

LEMMA FailOK ==
    ASSUME NEW me \in SessType, NEW n, WellFormed(me, n), me.step # "undo"
    PROVE  Fail(me) \in SessType /\ WellFormed(Fail(me), n) /\ ~BusyWith(Fail(me))
  BY DEF Fail, SessType, WellFormed, BusyWith, Holding, Steps

LEMMA FinishOK ==
    ASSUME NEW me \in SessType, NEW n, WellFormed(me, n), me.step # "undo"
    PROVE  Finish(me) \in SessType /\ WellFormed(Finish(me), n) /\ ~BusyWith(Finish(me))
  BY NewSessionOK, FailOK DEF Finish

LEMMA RecordedOK ==
    ASSUME NEW me \in SessType, NEW n \in Nat, n <= MaxRows + 1, WellFormed(me, n), me.open,
           NEW kind \in {"Insert", "Update", "Delete"}, NEW id \in 1..(n - 1),
           NEW old \in RowType \cup {NoRow}, kind # "Insert" => old \in RowType
    PROVE  /\ Recorded(me, kind, id, old) \in SessType /\ WellFormed(Recorded(me, kind, id, old), n)
           /\ Recorded(me, kind, id, old).step = me.step /\ Recorded(me, kind, id, old).id = me.id
           /\ Recorded(me, kind, id, old).old = me.old /\ Recorded(me, kind, id, old).open
  <1> DEFINE e == [kind |-> kind, id |-> id, old |-> old]
  <1>1. e \in UndoType
    BY IndexAssumption DEF UndoType, Ids
  <1>2. CASE me.auto
    BY <1>2 DEF Recorded
  <1>3. CASE ~me.auto
    <2>1. Append(me.undo, e) \in Seq(UndoType)
      BY <1>1 DEF SessType
    <2>2. \A m \in 1..Len(Append(me.undo, e)) :
             Append(me.undo, e)[m] = IF m <= Len(me.undo) THEN me.undo[m] ELSE e
      BY <1>1 DEF SessType
    <2>3. Len(Append(me.undo, e)) = Len(me.undo) + 1 /\ Len(me.undo) \in Nat
      BY <1>1 DEF SessType
    <2>4. \A m \in 1..Len(Append(me.undo, e)) :
             /\ Append(me.undo, e)[m].id \in 1..(n - 1)
             /\ Append(me.undo, e)[m].kind # "Insert" => Append(me.undo, e)[m].old \in RowType
      BY <2>2, <2>3 DEF WellFormed
    <2>5. Recorded(me, kind, id, old) = [me EXCEPT !.undo = Append(me.undo, e)]
      BY <1>3 DEF Recorded
    <2>6. [me EXCEPT !.undo = Append(me.undo, e)] \in SessType
      BY <2>1 DEF SessType
    <2> HIDE DEF e
    <2> QED
      BY <1>3, <2>4, <2>5, <2>6 DEF WellFormed, SessType
  <1> QED
    BY <1>2, <1>3

-----------------------------------------------------------------------------
(* Steps of a session that touch no row.                                   *)
LEMMA NoRowTouched ==
    ASSUME IInv, NEW s \in Sessions, NEW me \in SessType, Become(s, me),
           ~Busy(s), ~BusyWith(me), WellFormed(me, next), up = "open",
           UNCHANGED <<data, schema, up, hurt>>
    PROVE  IInv'
  <1> USE DEF IInv, data, schema
  <1>1. sess'[s] = me /\ \A u \in Sessions \ {s} : sess'[u] = sess[u]
    BY DEF SessInv, Become
  <1>2. \A u \in Sessions : Busy(u)' <=> Busy(u)
    BY <1>1 DEF Busy, BusyWith
  <1>3. \A u \in Sessions : Busy(u) => sess'[u] = sess[u]
    BY <1>1
  <1>4. InHand' = InHand
    BY <1>2, <1>3 DEF InHand
  <1>5. Settled' = Settled
    BY <1>4 DEF Settled, Ids
  <1>6. SessInv'
    BY <1>1 DEF SessInv, Become
  <1>7. TypeOK'
    <2>1. \A u \in Sessions : /\ sess'[u].step \in Steps
                              /\ sess'[u].step \notin {"idle", "undo"} => sess'[u].open
                              /\ sess'[u].auto => sess'[u].open /\ sess'[u].undo = <<>>
      BY <1>6 DEF SessInv, WellFormed, SessType
    <2> QED
      BY <2>1 DEF TypeOK
  <1>8. HandInv'
    <2> SUFFICES ASSUME NEW u \in Sessions, Busy(u)', sess'[u].id \notin hurt'
                 PROVE  Taken(u)'
      BY DEF HandInv
    <2>1. Busy(u) /\ sess'[u] = sess[u] /\ Taken(u)
      BY <1>2, <1>3 DEF HandInv
    <2>2. ~Overlap(u, sess[u].id)'
      BY <2>1, <1>2, <1>3 DEF Taken, Overlap
    <2> QED
      BY <2>1, <2>2 DEF Taken
  <1>9. BuildInv'
    BY <1>4 DEF BuildInv
  <1>10. IndexAgrees' /\ UniqueRows'
    BY <1>5 DEF IndexAgrees, UniqueRows
  <1>11. RowsInv' /\ OpenInv' /\ BuildUniqueInv'
    BY DEF RowsInv, OpenInv, BuildUniqueInv
  <1> QED
    BY <1>6, <1>7, <1>8, <1>9, <1>10, <1>11

(* What a session finds at a row that is neither spoilt nor in another     *)
(* session's hands.                                                        *)
LEMMA FoundSettled ==
    ASSUME IInv, NEW s \in Sessions, NEW id \in Ids, up = "open",
           id \notin hurt, ~Overlap(s, id), ~Busy(s)
    PROVE  Agrees(id)
  <1>1. id \in Settled
    BY DEF Settled, InHand, Overlap
  <1> QED
    BY <1>1 DEF IInv, IndexAgrees, Agrees

(* Where no unique index refuses a value, no settled row has its keys.     *)
LEMMA NotRefused ==
    ASSUME IInv, NEW ix \in IdxType, NEW val \in Values, NEW id \in Ids, up = "open",
           \A i \in Indexes, k \in Keys : \A j \in Ids \ {id} : j \in ix[i][k] <=> j \in idx[i][k],
           \A i \in Unique \cap defs : ix[i][val[i]] = {}
    PROVE  Free(id, val)
  <1> SUFFICES ASSUME NEW i \in Unique \cap defs, NEW b \in Settled \cap DOMAIN rows, b # id
               PROVE  rows[b].val[i] # val[i]
    BY DEF Free
  <1>1. i \in Indexes /\ val[i] \in Keys /\ b \in Ids \ {id}
    BY DEF Indexes, Values, Settled
  <1>2. b \notin idx[i][val[i]]
    BY <1>1
  <1> QED
    BY <1>1, <1>2 DEF IInv, IndexAgrees

(* Statements that begin, and transactions that end.                       *)
LEMMA QuietStepKeeps ==
    ASSUME IInv, NEW s \in Sessions,
           \/ Begin(s) \/ Insert(s) \/ Change(s) \/ Commit(s) \/ Rollback(s) \/ UndoEnd(s)
    PROVE  IInv'
  <1> DEFINE me == sess[s]
  <1>1. me \in SessType /\ WellFormed(me, next)
    BY DEF IInv, SessInv
  <1>2. me.step \in {"idle", "undo"} => ~Busy(s)
    BY DEF Busy, Holding
  <1>3. me.step = "idle" => InTxn(me) \in SessType /\ WellFormed(InTxn(me), next) /\ InTxn(me).open
                            /\ InTxn(me).step = "idle"
    BY <1>1, InTxnOK
  <1>4. ASSUME NEW val \in Values, me.step = "idle"
        PROVE  LET new == [InTxn(me) EXCEPT !.step = "store", !.new = val]
               IN  new \in SessType /\ WellFormed(new, next) /\ ~BusyWith(new)
    BY <1>3, <1>4 DEF SessType, WellFormed, BusyWith, Holding, Steps
  <1>5. ASSUME NEW id \in DOMAIN rows, NEW step \in {"unindex", "remove"}, me.step = "idle"
        PROVE  LET new == [InTxn(me) EXCEPT !.step = step, !.id = id, !.old = rows[id]]
               IN  new \in SessType /\ WellFormed(new, next) /\ ~BusyWith(new)
    <2>1. id \in Ids /\ id \in 1..(next - 1)
      BY IndexAssumption DEF IInv, TypeOK, Ids
    <2>2. rows[id] \in RowType
      BY DEF IInv, RowsInv
    <2> QED
      BY <1>3, <1>5, <2>1, <2>2 DEF SessType, WellFormed, BusyWith, Holding, Steps
  <1>6. CASE Begin(s)
    <2>1. LET new == [NewSession EXCEPT !.open = TRUE]
          IN  new \in SessType /\ WellFormed(new, next) /\ ~BusyWith(new)
      <3>1. NewSession \in SessType /\ WellFormed(NewSession, next) /\ ~BusyWith(NewSession)
        BY NewSessionOK
      <3>2. NewSession.step = "idle" /\ NewSession.undo = <<>>
        BY DEF NewSession
      <3> QED
        BY <3>1, <3>2 DEF SessType, WellFormed, BusyWith
    <2> QED
      BY <1>2, <1>6, <2>1, NoRowTouched DEF Begin, Idle
  <1>7. CASE InsertInvalid(s)
    <2>1. LET new == Fail(InTxn(me))
          IN  new \in SessType /\ WellFormed(new, next) /\ ~BusyWith(new)
      BY <1>3, <1>7, FailOK DEF InsertInvalid, Idle
    <2> QED
      BY <1>2, <1>7, <2>1, NoRowTouched DEF InsertInvalid, Idle
  <1>8. ASSUME NEW val \in Values, StartInsert(s, val)
        PROVE  IInv'
    BY <1>2, <1>4, <1>8, NoRowTouched DEF StartInsert, Idle
  <1>9. ASSUME NEW val \in Values, NEW i \in Unique, Upsert(s, val, i)
        PROVE  IInv'
    <2> USE <1>9 DEF Upsert
    <2>1. me.step = "idle" /\ up = "open" /\ ~Busy(s) /\ UNCHANGED <<data, schema, up, hurt>>
      BY <1>2 DEF Idle
    <2>2. PICK new : /\ Become(s, new)
                     /\ \/ new = [InTxn(me) EXCEPT !.step = "store", !.new = val]
                        \/ new = Finish(InTxn(me))
                        \/ new = Fail(InTxn(me))
                        \/ \E id \in DOMAIN rows :
                              new = [InTxn(me) EXCEPT !.step = "unindex", !.id = id, !.old = rows[id]]
      OBVIOUS
    <2>3. new \in SessType /\ WellFormed(new, next) /\ ~BusyWith(new)
      BY <2>1, <2>2, <1>3, <1>4, <1>5, FinishOK, FailOK
    <2> QED
      BY <2>1, <2>2, <2>3, NoRowTouched
  <1>10. ASSUME NEW id \in Ids, NEW step \in {"unindex", "remove"}, StartChange(s, id, step)
         PROVE  IInv'
    BY <1>2, <1>5, <1>10, NoRowTouched DEF StartChange, Idle
  <1>11. CASE Commit(s)
    BY <1>2, <1>11, NewSessionOK, NoRowTouched DEF Commit, Idle
  <1>12. CASE Rollback(s)
    <2> DEFINE new == [NewSession EXCEPT !.undo = Reverse(me.undo), !.step = "undo"]
    <2>1. /\ Reverse(me.undo) \in Seq(UndoType)
          /\ \A n \in 1..Len(Reverse(me.undo)) :
                \E m \in 1..Len(me.undo) : Reverse(me.undo)[n] = me.undo[m]
      <3>1. me.undo \in Seq(UndoType) /\ Len(me.undo) \in Nat
        BY <1>1 DEF SessType
      <3>2. Reverse(me.undo) = [n \in 1..Len(me.undo) |-> me.undo[(Len(me.undo) - n) + 1]]
        BY DEF Reverse
      <3>3. Reverse(me.undo) \in Seq(UndoType) /\ Len(Reverse(me.undo)) = Len(me.undo)
        BY <3>1, <3>2
      <3>4. ASSUME NEW n \in 1..Len(me.undo)
            PROVE  \E m \in 1..Len(me.undo) : Reverse(me.undo)[n] = me.undo[m]
        BY <3>1, <3>2
      <3> QED
        BY <3>3, <3>4
    <2>2. new \in SessType
      BY <2>1 DEF NewSession, SessType, Steps, NoRow
    <2>3. new.step = "undo" /\ new.undo = Reverse(me.undo) /\ new.auto = FALSE /\ new.open = FALSE
      BY DEF NewSession
    <2> HIDE DEF new
    <2>4. WellFormed(new, next) /\ ~BusyWith(new)
      BY <1>1, <2>1, <2>3 DEF WellFormed, BusyWith, Holding
    <2> QED
      BY <1>2, <1>12, <2>2, <2>4, NoRowTouched DEF Rollback, Idle, new
  <1>13. CASE UndoEnd(s)
    BY <1>2, <1>13, NewSessionOK, NoRowTouched DEF UndoEnd, IInv, OpenInv
  <1> QED
    BY <1>6, <1>7, <1>8, <1>9, <1>10, <1>11, <1>12, <1>13 DEF Insert, Change

-----------------------------------------------------------------------------
(* The steps of a statement on its row, and of an undo.                    *)

(* Facts every such step starts from.                                      *)
LEMMA Stepping ==
    ASSUME IInv, NEW s \in Sessions, sess[s].step # "idle"
    PROVE  /\ sess[s] \in SessType /\ WellFormed(sess[s], next) /\ up = "open"
           /\ next \in Nat /\ next <= MaxRows + 1 /\ idx \in IdxType
           /\ DOMAIN rows \subseteq 1..(next - 1) /\ 1..(next - 1) \subseteq Ids
           /\ next \in next..(MaxRows + 1)
  BY IndexAssumption DEF IInv, SessInv, OpenInv, TypeOK, IdxType, Ids

LEMMA StoreKeeps ==
    ASSUME IInv, NEW s \in Sessions, Store(s)
    PROVE  IInv'
  <1> DEFINE me == sess[s]
             row == [val |-> me.new, ver |-> 1]
  <1>1. /\ me.step = "store" /\ next <= MaxRows
        /\ rows' = Put(next, row) /\ next' = next + 1
        /\ sess' = [sess EXCEPT ![s] = [me EXCEPT !.step = "index", !.id = next]]
        /\ Touch(s, next, FALSE) /\ UNCHANGED <<idx, defs, up>>
    BY DEF Store, Become
  <1>2. /\ me \in SessType /\ WellFormed(me, next) /\ up = "open" /\ idx \in IdxType
        /\ next \in Nat /\ DOMAIN rows \subseteq 1..(next - 1)
    BY <1>1, Stepping
  <1>3. me.new \in Values /\ me.open /\ ~Busy(s)
    BY <1>1, <1>2 DEF WellFormed, Busy, Holding
  <1>4. /\ next \in Ids /\ next' \in next..(MaxRows + 1) /\ next \in 1..(next' - 1)
        /\ 1..(next - 1) \subseteq 1..(next' - 1) /\ next \notin DOMAIN rows
    BY <1>1, <1>2, IndexAssumption DEF IInv, TypeOK, Ids
  <1>5. sess'[s] = [me EXCEPT !.step = "index", !.id = next]
    BY <1>1 DEF IInv, SessInv
  <1>6. /\ sess'[s] \in SessType /\ sess'[s].step = "index" /\ sess'[s].id = next
        /\ sess'[s].new = me.new /\ sess'[s].undo = me.undo /\ sess'[s].open = me.open
        /\ sess'[s].auto = me.auto
    BY <1>2, <1>4, <1>5 DEF SessType, Steps
  <1>7. SessionOK(s)
    BY <1>1, <1>2, <1>3, <1>4, <1>5, <1>6 DEF SessionOK, WellFormed
  <1>8. row \in RowType
    BY <1>3 DEF RowType
  <1>9. /\ DOMAIN rows' = DOMAIN rows \cup {next} /\ rows'[next] = row
        /\ \A j \in DOMAIN rows : j # next => rows'[j] = rows[j]
    BY <1>1, PutResult
  <1>10. TableOK
    BY <1>1, <1>2, <1>4, <1>8, <1>9 DEF TableOK, RowsInv, IInv, IdxType
  <1>11. PICK id : id = next
    OBVIOUS
  <1>12. SameRows(id) /\ SameEntries(id) /\ Touched(s, id)
    BY <1>1, <1>9, <1>11 DEF SameRows, SameEntries, Touched, Touch
  <1>13. BusyWith(sess'[s]) /\ Known(sess'[s]) = me.new
    BY <1>6 DEF BusyWith, Known
  <1>14. ASSUME id \notin hurt'
         PROVE  RowSettles(s, id)
    <2>1. id \notin hurt /\ ~Overlap(s, id)
      BY <1>1, <1>11, <1>14 DEF Touch
    <2>2. Agrees(id)
      BY <1>2, <1>3, <1>4, <1>11, <2>1, FoundSettled
    <2>3. Bare(id)'
      BY <1>1, <1>4, <1>11, <2>2 DEF Agrees, Bare
    <2> QED
      BY <1>9, <1>11, <1>13, <2>3 DEF RowSettles
  <1> QED
    BY <1>1, <1>2, <1>3, <1>4, <1>6, <1>7, <1>10, <1>11, <1>12, <1>14, OneRow

(* Index, Reindex: insert_row of the value the session knows, after which  *)
(* it has nothing in hand.                                                 *)
LEMMA InsertRowKeeps ==
    ASSUME IInv, NEW s \in Sessions, sess[s].step \in {"index", "reindex"},
           SessionOK(s), ~BusyWith(sess'[s]),
           idx' \in InsertRowOutcomes(idx, sess[s].new, sess[s].id),
           Touch(s, sess[s].id, Refused(idx, sess[s].new) \/ Stale(sess[s].id, sess[s].new)),
           UNCHANGED <<rows, next, defs, up>>
    PROVE  IInv'
  <1> DEFINE me == sess[s]
  <1>0. PICK id : id = sess[s].id
    OBVIOUS
  <1>1. /\ me \in SessType /\ WellFormed(me, next) /\ up = "open" /\ idx \in IdxType
        /\ DOMAIN rows \subseteq 1..(next - 1) /\ 1..(next - 1) \subseteq Ids
        /\ next \in next..(MaxRows + 1)
    BY Stepping
  <1>2. id \in Ids /\ me.new \in Values /\ Busy(s)
    BY <1>0, <1>1 DEF WellFormed, Busy, Holding
  <1>3. /\ idx' \in IdxType
        /\ \A i \in Indexes, k \in Keys : \A j \in Ids \ {id} : j \in idx'[i][k] <=> j \in idx[i][k]
        /\ ~Refused(idx, me.new) =>
              \A i \in defs \cap Indexes, k \in Keys : \A j :
                 j \in idx'[i][k] <=> j \in idx[i][k] \/ (j = id /\ k = me.new[i])
        /\ ~Refused(idx, me.new) => \A i \in Unique \cap defs : idx[i][me.new[i]] = {}
    BY <1>0, <1>1, <1>2, InsertRowResult
  <1>4. ASSUME id \notin hurt'
        PROVE  RowSettles(s, id)
    <2>1. id \notin hurt /\ ~Refused(idx, me.new) /\ ~Stale(id, me.new)
      BY <1>0, <1>4 DEF Touch
    <2>2. id \in DOMAIN rows /\ rows[id].val = me.new
      BY <2>1 DEF Stale
    <2>3. \A i \in defs, k \in Keys : id \notin idx[i][k]
      BY <1>0, <2>1, <1>2 DEF IInv, HandInv, Taken
    <2>4. \A i \in defs, k \in Keys : id \in idx'[i][k] <=> k = me.new[i]
      BY <1>3, <2>1, <2>3 DEF IInv, TypeOK
    <2>5. Agrees(id)'
      BY <2>2, <2>4 DEF Agrees
    <2>6. Free(id, me.new)
      BY <1>1, <1>2, <1>3, <2>1, NotRefused
    <2> QED
      BY <2>2, <2>5, <2>6 DEF RowSettles
  <1>5. TableOK
    BY <1>1, <1>3 DEF TableOK, IInv, RowsInv, IdxType
  <1>6. SameRows(id) /\ SameEntries(id) /\ Touched(s, id)
    BY <1>0, <1>3 DEF SameRows, SameEntries, Touched, Touch
  <1> QED
    BY <1>0, <1>1, <1>2, <1>4, <1>5, <1>6, OneRow

LEMMA IndexKeeps ==
    ASSUME IInv, NEW s \in Sessions, Index(s)
    PROVE  IInv'
  <1> DEFINE me == sess[s]
             after == IF Refused(idx, me.new) THEN Fail(me)
                      ELSE Finish(Recorded(me, "Insert", me.id, NoRow))
  <1>1. me.step = "index" /\ me \in SessType /\ WellFormed(me, next) /\ next \in Nat
        /\ next <= MaxRows + 1
    BY Stepping DEF Index
  <1>2. me.open /\ me.id \in 1..(next - 1)
    BY <1>1 DEF WellFormed
  <1>3. LET new == Recorded(me, "Insert", me.id, NoRow)
        IN  new \in SessType /\ WellFormed(new, next) /\ new.step = "index"
    BY <1>1, <1>2, RecordedOK
  <1>4. after \in SessType /\ WellFormed(after, next) /\ ~BusyWith(after)
    BY <1>1, <1>3, FailOK, FinishOK
  <1>5. sess' = [sess EXCEPT ![s] = after] /\ sess'[s] = after /\ next' = next
    BY DEF Index, Become, IInv, SessInv
  <1> HIDE DEF after
  <1>6. SessionOK(s)
    BY <1>4, <1>5 DEF SessionOK
  <1> QED
    BY <1>1, <1>4, <1>5, <1>6, InsertRowKeeps DEF Index

LEMMA ReindexKeeps ==
    ASSUME IInv, NEW s \in Sessions, Reindex(s)
    PROVE  IInv'
  <1> DEFINE me == sess[s]
             after == IF Refused(idx, me.new) THEN Fail(me) ELSE Finish(me)
  <1>1. me.step = "reindex" /\ me \in SessType /\ WellFormed(me, next)
    BY Stepping DEF Reindex
  <1>2. after \in SessType /\ WellFormed(after, next) /\ ~BusyWith(after)
    BY <1>1, FailOK, FinishOK
  <1>3. sess' = [sess EXCEPT ![s] = after] /\ sess'[s] = after /\ next' = next
    BY DEF Reindex, Become, IInv, SessInv
  <1> HIDE DEF after
  <1>4. SessionOK(s)
    BY <1>2, <1>3 DEF SessionOK
  <1> QED
    BY <1>1, <1>2, <1>3, <1>4, InsertRowKeeps DEF Reindex

LEMMA UnindexKeeps ==
    ASSUME IInv, NEW s \in Sessions, NEW from \in {"unindex", "remove"},
           NEW to \in {"write", "erase"}, NEW kind \in {"Update", "Delete"},
           Unindex(s, from, to, kind)
    PROVE  IInv'
  <1> DEFINE me == sess[s]
             rec == Recorded(me, kind, me.id, me.old)
  <1>1. /\ me.step = from /\ idx' = RemoveRow(idx, me.old.val, me.id)
        /\ sess' = [sess EXCEPT ![s] = [rec EXCEPT !.step = to]]
        /\ Touch(s, me.id, Stale(me.id, me.old.val)) /\ UNCHANGED <<rows, next, defs, up>>
    BY DEF Unindex, Become
  <1>2. /\ from \in {"unindex", "remove"} /\ to \in {"write", "erase"}
        /\ kind \in {"Update", "Delete"}
    OBVIOUS
  <1>3. /\ me \in SessType /\ WellFormed(me, next) /\ up = "open" /\ idx \in IdxType
        /\ next \in Nat /\ next <= MaxRows + 1
        /\ DOMAIN rows \subseteq 1..(next - 1) /\ 1..(next - 1) \subseteq Ids
        /\ next \in next..(MaxRows + 1)
    BY <1>1, <1>2, Stepping
  <1>4. me.open /\ me.id \in 1..(next - 1) /\ me.old \in RowType /\ ~Busy(s)
    BY <1>1, <1>2, <1>3 DEF WellFormed, Busy, Holding
  <1>5. /\ rec \in SessType /\ WellFormed(rec, next) /\ rec.id = me.id /\ rec.old = me.old
        /\ rec.open /\ rec.step = me.step
    <2>1. kind \in {"Insert", "Update", "Delete"} /\ me.old \in RowType \cup {NoRow}
      BY <1>2, <1>4
    <2> QED
      BY <1>3, <1>4, <2>1, RecordedOK
  <1> HIDE DEF rec
  <1>6. sess'[s] = [rec EXCEPT !.step = to]
    BY <1>1 DEF IInv, SessInv
  <1>7. /\ sess'[s] \in SessType /\ sess'[s].step = to /\ sess'[s].id = me.id
        /\ sess'[s].old = me.old /\ WellFormed(sess'[s], next)
    <2>1. /\ sess'[s] \in SessType /\ sess'[s].step = to /\ sess'[s].id = rec.id
          /\ sess'[s].old = rec.old /\ sess'[s].undo = rec.undo /\ sess'[s].open = rec.open
          /\ sess'[s].auto = rec.auto
      BY <1>2, <1>5, <1>6 DEF SessType, Steps
    <2>2. WellFormed(sess'[s], next)
      BY <1>2, <1>4, <1>5, <2>1 DEF WellFormed
    <2> QED
      BY <1>5, <2>1, <2>2
  <1>8. SessionOK(s)
    BY <1>1, <1>6, <1>7 DEF SessionOK
  <1>9. PICK id \in Ids : id = me.id
    BY <1>3, <1>4
  <1>10. /\ idx' \in IdxType
         /\ \A i \in Indexes, k \in Keys : \A j :
               j \in idx'[i][k] <=> j \in idx[i][k] /\ ~(j = id /\ k = me.old.val[i])
    BY <1>1, <1>3, <1>4, <1>9, RemoveRowResult DEF RowType
  <1>11. TableOK
    BY <1>1, <1>3, <1>10 DEF TableOK, RowsInv, IInv, IdxType
  <1>12. SameRows(id) /\ SameEntries(id) /\ Touched(s, id)
    BY <1>1, <1>9, <1>10 DEF SameRows, SameEntries, Touched, Touch
  <1>13. BusyWith(sess'[s]) /\ Known(sess'[s]) = me.old.val
    BY <1>2, <1>7 DEF BusyWith, Holding, Known
  <1>14. ASSUME id \notin hurt'
         PROVE  RowSettles(s, id)
    <2>1. id \notin hurt /\ ~Overlap(s, id) /\ ~Stale(id, me.old.val)
      BY <1>1, <1>9, <1>14 DEF Touch
    <2>2. id \in DOMAIN rows /\ rows[id].val = me.old.val
      BY <2>1 DEF Stale
    <2>3. Agrees(id)
      BY <1>3, <1>4, <2>1, FoundSettled
    <2>4. \A i \in defs, k \in Keys : id \notin idx'[i][k]
      BY <1>10, <2>2, <2>3 DEF Agrees, IInv, TypeOK
    <2>5. Bare(id)'
      BY <1>1, <2>4 DEF Bare
    <2> QED
      BY <1>1, <1>13, <2>2, <2>5 DEF RowSettles
  <1> QED
    BY <1>1, <1>3, <1>4, <1>7, <1>8, <1>9, <1>11, <1>12, <1>14, OneRow

(* A step that only spoils its row.                                        *)
LEMMA SpoilKeeps ==
    ASSUME IInv, NEW s \in Sessions, sess[s].step = "write", SessionOK(s),
           BusyWith(sess'[s]) => sess'[s].id = sess[s].id,
           Touch(s, sess[s].id, TRUE), UNCHANGED <<data, defs, up>>
    PROVE  IInv'
  <1>1. /\ sess[s] \in SessType /\ WellFormed(sess[s], next) /\ up = "open" /\ idx \in IdxType
        /\ DOMAIN rows \subseteq 1..(next - 1) /\ 1..(next - 1) \subseteq Ids
        /\ next \in next..(MaxRows + 1)
    BY Stepping
  <1>2. PICK id \in Ids : id = sess[s].id
    BY <1>1 DEF WellFormed
  <1>3. TableOK
    BY <1>1 DEF TableOK, RowsInv, IInv, IdxType, data
  <1>4. SameRows(id) /\ SameEntries(id) /\ Touched(s, id)
    BY <1>2 DEF SameRows, SameEntries, Touched, Touch, data
  <1>5. id \in hurt'
    BY <1>2 DEF Touch
  <1> QED
    BY <1>1, <1>2, <1>3, <1>4, <1>5, OneRow

LEMMA EvalFailsKeeps ==
    ASSUME IInv, NEW s \in Sessions, EvalFails(s)
    PROVE  IInv'
  <1>1. /\ sess[s].step = "write" /\ sess' = [sess EXCEPT ![s] = Fail(sess[s])]
        /\ Touch(s, sess[s].id, TRUE) /\ UNCHANGED <<data, defs, up>> /\ next' = next
    BY DEF EvalFails, Become, data
  <1>2. sess[s] \in SessType /\ WellFormed(sess[s], next)
    BY <1>1, Stepping
  <1>3. sess'[s] = Fail(sess[s])
    BY <1>1 DEF IInv, SessInv
  <1>4. SessionOK(s) /\ ~BusyWith(sess'[s])
    BY <1>1, <1>2, <1>3, FailOK DEF SessionOK
  <1> QED
    BY <1>1, <1>4, SpoilKeeps

LEMMA WriteKeeps ==
    ASSUME IInv, NEW s \in Sessions, NEW val \in Values, Write(s, val)
    PROVE  IInv'
  <1> DEFINE me == sess[s]
             new == [me EXCEPT !.step = "reindex", !.new = val]
             row == [val |-> val, ver |-> me.old.ver + 1]
  <1>1. me.step = "write" /\ UNCHANGED <<next, idx, defs, up>>
    BY DEF Write
  <1>2. /\ me \in SessType /\ WellFormed(me, next) /\ up = "open" /\ idx \in IdxType
        /\ next \in Nat /\ DOMAIN rows \subseteq 1..(next - 1) /\ 1..(next - 1) \subseteq Ids
        /\ next \in next..(MaxRows + 1)
    BY <1>1, Stepping
  <1>3. me.open /\ me.id \in 1..(next - 1) /\ me.old \in RowType /\ Busy(s)
    BY <1>1, <1>2 DEF WellFormed, Busy, Holding
  <1>4. /\ new \in SessType /\ WellFormed(new, next) /\ new.id = me.id /\ new.step = "reindex"
        /\ new.new = val
    BY <1>1, <1>2, <1>3 DEF SessType, WellFormed, Steps
  <1>5. sess \in [Sessions -> SessType]
    BY DEF IInv, SessInv
  <1> HIDE DEF new
  <1>6. CASE me.id \notin DOMAIN rows
    <2>1. sess' = [sess EXCEPT ![s] = new] /\ Touch(s, me.id, TRUE) /\ UNCHANGED rows
      BY <1>6 DEF Write, Become, new
    <2>2. sess'[s] = new /\ SessionOK(s)
      BY <1>1, <1>4, <1>5, <2>1 DEF SessionOK
    <2> QED
      BY <1>1, <1>4, <2>1, <2>2, SpoilKeeps DEF data
  <1>7. CASE me.id \in DOMAIN rows /\ rows[me.id].ver # me.old.ver
    <2>1. sess' = [sess EXCEPT ![s] = Fail(me)] /\ Touch(s, me.id, TRUE) /\ UNCHANGED rows
      BY <1>7 DEF Write, Become
    <2>2. sess'[s] = Fail(me) /\ SessionOK(s) /\ ~BusyWith(sess'[s])
      BY <1>1, <1>2, <1>5, <2>1, FailOK DEF SessionOK
    <2> QED
      BY <1>1, <2>1, <2>2, SpoilKeeps DEF data
  <1>8. CASE me.id \in DOMAIN rows /\ rows[me.id].ver = me.old.ver
    <2>1. /\ sess' = [sess EXCEPT ![s] = new] /\ Touch(s, me.id, FALSE)
          /\ rows' = Put(me.id, row)
      BY <1>8 DEF Write, Become, new
    <2>2. sess'[s] = new /\ SessionOK(s)
      BY <1>1, <1>4, <1>5, <2>1 DEF SessionOK
    <2>3. row \in RowType /\ row.val = val
      BY <1>3 DEF RowType
    <2> HIDE DEF row
    <2>4. PICK id \in Ids : id = me.id
      BY <1>2, <1>3
    <2>5. /\ DOMAIN rows' = DOMAIN rows /\ rows'[id] = row
          /\ \A j \in DOMAIN rows : j # id => rows'[j] = rows[j]
      <3>1. /\ DOMAIN Put(me.id, row) = DOMAIN rows \cup {me.id} /\ Put(me.id, row)[me.id] = row
            /\ \A j \in DOMAIN rows : j # me.id => Put(me.id, row)[j] = rows[j]
        BY DEF Put
      <3> QED
        BY <1>8, <2>1, <2>4, <3>1
    <2>6. TableOK
      BY <1>1, <1>2, <2>3, <2>5 DEF TableOK, RowsInv, IInv, IdxType
    <2>7. SameRows(id) /\ SameEntries(id) /\ Touched(s, id)
      BY <1>1, <2>1, <2>4, <2>5 DEF SameRows, SameEntries, Touched, Touch
    <2>8. ASSUME id \notin hurt'
          PROVE  RowSettles(s, id)
      <3>1. id \notin hurt
        BY <2>1, <2>4, <2>8 DEF Touch
      <3>2. \A i \in defs, k \in Keys : id \notin idx[i][k]
        BY <3>1, <1>3, <2>4 DEF IInv, HandInv, Taken
      <3>3. Bare(id)'
        BY <1>1, <3>2 DEF Bare
      <3>4. BusyWith(new) /\ Known(new) = val
        BY <1>4 DEF BusyWith, Holding, Known
      <3> QED
        BY <1>8, <2>2, <2>3, <2>4, <2>5, <3>3, <3>4 DEF RowSettles
    <2> QED
      BY <1>1, <1>2, <1>3, <1>4, <2>2, <2>4, <2>6, <2>7, <2>8, OneRow
  <1> QED
    BY <1>6, <1>7, <1>8

LEMMA EraseKeeps ==
    ASSUME IInv, NEW s \in Sessions, Erase(s)
    PROVE  IInv'
  <1> DEFINE me == sess[s]
  <1>1. /\ me.step = "erase" /\ rows' = Without(me.id) /\ sess' = [sess EXCEPT ![s] = Finish(me)]
        /\ Touch(s, me.id, Stale(me.id, me.old.val)) /\ UNCHANGED <<next, idx, defs, up>>
    BY DEF Erase, Become
  <1>2. /\ me \in SessType /\ WellFormed(me, next) /\ up = "open" /\ idx \in IdxType
        /\ DOMAIN rows \subseteq 1..(next - 1) /\ 1..(next - 1) \subseteq Ids
        /\ next \in next..(MaxRows + 1)
    BY <1>1, Stepping
  <1>3. me.id \in 1..(next - 1) /\ Busy(s)
    BY <1>1, <1>2 DEF WellFormed, Busy, Holding
  <1>4. sess'[s] = Finish(me)
    BY <1>1 DEF IInv, SessInv
  <1>5. SessionOK(s) /\ ~BusyWith(sess'[s])
    BY <1>1, <1>2, <1>4, FinishOK DEF SessionOK
  <1>6. PICK id \in Ids : id = me.id
    BY <1>2, <1>3
  <1>7. /\ DOMAIN rows' = DOMAIN rows \ {id}
        /\ \A j \in DOMAIN rows \ {id} : rows'[j] = rows[j]
    BY <1>1, <1>6, WithoutResult
  <1>8. TableOK
    BY <1>1, <1>2, <1>7 DEF TableOK, RowsInv, IInv, IdxType
  <1>9. SameRows(id) /\ SameEntries(id) /\ Touched(s, id)
    BY <1>1, <1>6, <1>7 DEF SameRows, SameEntries, Touched, Touch
  <1>10. ASSUME id \notin hurt'
         PROVE  RowSettles(s, id)
    <2>1. id \notin hurt
      BY <1>1, <1>6, <1>10 DEF Touch
    <2>2. \A i \in defs, k \in Keys : id \notin idx[i][k]
      BY <2>1, <1>3, <1>6 DEF IInv, HandInv, Taken
    <2>3. Agrees(id)'
      BY <1>1, <1>7, <2>2 DEF Agrees
    <2> QED
      BY <1>5, <1>7, <2>3 DEF RowSettles
  <1> QED
    BY <1>1, <1>2, <1>3, <1>5, <1>6, <1>8, <1>9, <1>10, OneRow

(* An undo record taken from the list of a rollback.                       *)
LEMMA UndoSession ==
    ASSUME NEW me \in SessType, NEW n, WellFormed(me, n), me.step = "undo", me.undo # <<>>
    PROVE  /\ Head(me.undo).id \in 1..(n - 1) /\ Head(me.undo).kind \in {"Insert", "Update", "Delete"}
           /\ Head(me.undo).kind # "Insert" => Head(me.undo).old \in RowType
           /\ [me EXCEPT !.undo = Tail(@)] \in SessType
           /\ WellFormed([me EXCEPT !.undo = Tail(@)], n)
           /\ ~BusyWith([me EXCEPT !.undo = Tail(@)])
  <1> DEFINE rest == Tail(me.undo)
             new == [me EXCEPT !.undo = rest]
  <1>1. me.undo \in Seq(UndoType) /\ Len(me.undo) \in Nat /\ Len(me.undo) > 0
    BY DEF SessType
  <1>2. Head(me.undo) = me.undo[1] /\ 1 \in 1..Len(me.undo) /\ Head(me.undo) \in UndoType
    BY <1>1
  <1>3. /\ rest \in Seq(UndoType) /\ Len(rest) = Len(me.undo) - 1
        /\ \A m \in 1..Len(rest) : rest[m] = me.undo[m + 1] /\ m + 1 \in 1..Len(me.undo)
    BY <1>1
  <1> HIDE DEF rest
  <1>4. /\ Head(me.undo).id \in 1..(n - 1) /\ Head(me.undo).kind \in {"Insert", "Update", "Delete"}
        /\ Head(me.undo).kind # "Insert" => Head(me.undo).old \in RowType
    BY <1>2 DEF WellFormed, UndoType
  <1>5. new \in SessType /\ new.undo = rest /\ new.step = "undo" /\ (new.auto => me.auto)
    BY <1>3 DEF SessType
  <1>6. ~me.auto
    BY <1>1 DEF WellFormed
  <1>7. \A m \in 1..Len(rest) : /\ rest[m].id \in 1..(n - 1)
                                /\ rest[m].kind # "Insert" => rest[m].old \in RowType
    BY <1>3 DEF WellFormed
  <1> HIDE DEF new
  <1>8. WellFormed(new, n) /\ ~BusyWith(new)
    BY <1>5, <1>6, <1>7 DEF WellFormed, BusyWith, Holding
  <1> QED
    BY <1>4, <1>5, <1>8 DEF new, rest

LEMMA UndoStepKeeps ==
    ASSUME IInv, NEW s \in Sessions, UndoStep(s)
    PROVE  IInv'
  <1> DEFINE me == sess[s]
             e == Head(me.undo)
             there == e.id \in DOMAIN rows
             ix == IF e.kind = "Update" /\ there THEN RemoveRow(idx, rows[e.id].val, e.id) ELSE idx
             fails == e.kind # "Insert" /\ Refused(ix, e.old.val)
             after == IF fails THEN NewSession ELSE [me EXCEPT !.undo = Tail(@)]
  <1>1. /\ me.step = "undo" /\ me.undo # <<>> /\ UNCHANGED <<next, defs, up>>
        /\ sess' = [sess EXCEPT ![s] = after]
        /\ Touch(s, e.id, fails \/ (e.kind = "Update" /\ ~there) \/ (e.kind = "Delete" /\ there))
        /\ e.kind = "Insert" => UndoInsert(e)
        /\ e.kind = "Update" => UndoUpdate(e, ix)
        /\ e.kind = "Delete" => UndoDelete(e)
    BY DEF UndoStep, Become
  <1>2. /\ me \in SessType /\ WellFormed(me, next) /\ up = "open" /\ idx \in IdxType
        /\ DOMAIN rows \subseteq 1..(next - 1) /\ 1..(next - 1) \subseteq Ids
        /\ next \in next..(MaxRows + 1) /\ ~Busy(s)
    BY <1>1, Stepping DEF Busy, Holding
  <1>3. /\ e.id \in 1..(next - 1) /\ e.kind \in {"Insert", "Update", "Delete"}
        /\ e.kind # "Insert" => e.old \in RowType
        /\ after \in SessType /\ WellFormed(after, next) /\ ~BusyWith(after)
    BY <1>1, <1>2, UndoSession, NewSessionOK
  <1> HIDE DEF after
  <1>4. sess'[s] = after /\ SessionOK(s) /\ ~BusyWith(sess'[s])
    BY <1>1, <1>3 DEF SessionOK, IInv, SessInv
  <1>5. PICK id, old : id = e.id /\ old = e.old
    OBVIOUS
  <1>6. id \in Ids /\ Touched(s, id) /\ (id \notin hurt' => id \notin hurt /\ Agrees(id))
    BY <1>1, <1>2, <1>3, <1>5, FoundSettled DEF Touch, Touched
  <1>7. \A j \in DOMAIN rows : rows[j] \in RowType /\ rows[j].val \in Values
    BY DEF IInv, RowsInv, RowType
  <1>8. defs \subseteq Indexes
    BY DEF IInv, TypeOK
  <1>9. CASE e.kind = "Insert"
    <2>1. /\ rows' = Without(id)
          /\ idx' = IF id \in DOMAIN rows THEN RemoveRow(idx, rows[id].val, id) ELSE idx
      BY <1>1, <1>5, <1>9 DEF UndoInsert
    <2>2. DOMAIN rows' = DOMAIN rows \ {id} /\ \A j \in DOMAIN rows \ {id} : rows'[j] = rows[j]
      BY <2>1, WithoutResult
    <2>3. /\ idx' \in IdxType
          /\ \A i \in Indexes, k \in Keys : \A j :
                j \in idx'[i][k]
                   <=> j \in idx[i][k] /\ ~(id \in DOMAIN rows /\ j = id /\ k = rows[id].val[i])
      BY <1>2, <1>7, <2>1, RemoveRowResult
    <2>4. TableOK /\ SameRows(id) /\ SameEntries(id)
      BY <1>1, <1>2, <2>2, <2>3 DEF TableOK, RowsInv, IInv, IdxType, SameRows, SameEntries
    <2>5. ASSUME id \notin hurt'
          PROVE  RowSettles(s, id)
      <3>1. \A i \in defs, k \in Keys : id \notin idx'[i][k]
        BY <1>6, <1>8, <2>3, <2>5 DEF Agrees
      <3>2. Agrees(id)'
        BY <1>1, <2>2, <3>1 DEF Agrees
      <3> QED
        BY <1>4, <2>2, <3>2 DEF RowSettles
    <2> QED
      BY <1>1, <1>2, <1>4, <1>6, <2>4, <2>5, OneRow
  <1>10. CASE e.kind = "Update"
    <2>1. /\ rows' = IF id \in DOMAIN rows
                     THEN Put(id, [val |-> old.val, ver |-> rows[id].ver + 1]) ELSE rows
          /\ idx' \in InsertRowOutcomes(ix, old.val, id) /\ old \in RowType
      BY <1>1, <1>3, <1>5, <1>10 DEF UndoUpdate
    <2>2. old.val \in Values
      BY <2>1 DEF RowType
    <2>3. /\ ix \in IdxType
          /\ \A i \in Indexes, k \in Keys : \A j :
                j \in ix[i][k]
                   <=> j \in idx[i][k] /\ ~(id \in DOMAIN rows /\ j = id /\ k = rows[id].val[i])
      BY <1>2, <1>5, <1>7, <1>10, RemoveRowResult
    <2>4. (~fails /\ ~(e.kind = "Update" /\ ~there)) \/ id \in hurt'
      BY <1>1, <1>5 DEF Touch
    <2>5. (~Refused(ix, old.val) /\ id \in DOMAIN rows) \/ id \in hurt'
      BY <1>5, <1>10, <2>4
    <2> HIDE DEF ix, fails
    <2>6. PICK now : now = ix
      OBVIOUS
    <2>7. /\ idx' \in IdxType
          /\ \A i \in Indexes, k \in Keys : \A j \in Ids \ {id} : j \in idx'[i][k] <=> j \in now[i][k]
          /\ ~Refused(now, old.val) =>
                \A i \in defs \cap Indexes, k \in Keys : \A j :
                   j \in idx'[i][k] <=> j \in now[i][k] \/ (j = id /\ k = old.val[i])
          /\ ~Refused(now, old.val) => \A i \in Unique \cap defs : now[i][old.val[i]] = {}
      BY <1>6, <2>1, <2>2, <2>3, <2>6, InsertRowResult
    <2>8. /\ DOMAIN rows' = DOMAIN rows
          /\ \A j \in DOMAIN rows : j # id => rows'[j] = rows[j]
          /\ id \in DOMAIN rows => rows'[id] \in RowType /\ rows'[id].val = old.val
      <3>1. \A j \in DOMAIN rows : rows[j].ver + 1 \in Nat \ {0}
        BY <1>7 DEF RowType
      <3> QED
        BY <2>1, <2>2, <3>1 DEF Put, RowType
    <2>9. TableOK /\ SameRows(id) /\ SameEntries(id)
      BY <1>1, <1>2, <2>3, <2>6, <2>7, <2>8
      DEF TableOK, RowsInv, IInv, IdxType, SameRows, SameEntries
    <2>10. ASSUME id \notin hurt'
           PROVE  RowSettles(s, id)
      <3>1. ~Refused(now, old.val) /\ id \in DOMAIN rows
        BY <2>5, <2>6, <2>10
      <3>2. \A i \in defs, k \in Keys : id \notin now[i][k]
        BY <1>6, <1>8, <2>3, <2>6, <2>10, <3>1 DEF Agrees
      <3>3. \A i \in defs, k \in Keys : id \in idx'[i][k] <=> k = old.val[i]
        BY <1>8, <2>7, <3>1, <3>2
      <3>4. Agrees(id)'
        BY <1>1, <2>8, <3>1, <3>3 DEF Agrees
      <3>5. Free(id, old.val)
        BY <1>2, <1>6, <2>2, <2>3, <2>6, <2>7, <3>1, NotRefused
      <3> QED
        BY <1>4, <2>8, <3>1, <3>4, <3>5 DEF RowSettles
    <2> QED
      BY <1>1, <1>2, <1>4, <1>6, <2>9, <2>10, OneRow
  <1>11. CASE e.kind = "Delete"
    <2>1. rows' = Put(id, old) /\ idx' \in InsertRowOutcomes(idx, old.val, id) /\ old \in RowType
      BY <1>1, <1>3, <1>5, <1>11 DEF UndoDelete
    <2>2. old.val \in Values
      BY <2>1 DEF RowType
    <2>3. (~Refused(idx, old.val) /\ id \notin DOMAIN rows) \/ id \in hurt'
      BY <1>1, <1>5, <1>11 DEF Touch
    <2>4. /\ idx' \in IdxType
          /\ \A i \in Indexes, k \in Keys : \A j \in Ids \ {id} : j \in idx'[i][k] <=> j \in idx[i][k]
          /\ ~Refused(idx, old.val) =>
                \A i \in defs \cap Indexes, k \in Keys : \A j :
                   j \in idx'[i][k] <=> j \in idx[i][k] \/ (j = id /\ k = old.val[i])
          /\ ~Refused(idx, old.val) => \A i \in Unique \cap defs : idx[i][old.val[i]] = {}
      BY <1>2, <1>6, <2>1, <2>2, InsertRowResult
    <2>5. /\ DOMAIN rows' = DOMAIN rows \cup {id} /\ rows'[id] = old
          /\ \A j \in DOMAIN rows : j # id => rows'[j] = rows[j]
      BY <2>1 DEF Put
    <2>6. id \in 1..(next - 1)
      BY <1>3, <1>5
    <2>7. TableOK /\ SameRows(id) /\ SameEntries(id)
      BY <1>1, <1>2, <2>1, <2>4, <2>5, <2>6
      DEF TableOK, RowsInv, IInv, IdxType, SameRows, SameEntries
    <2>8. ASSUME id \notin hurt'
          PROVE  RowSettles(s, id)
      <3>1. ~Refused(idx, old.val) /\ id \notin DOMAIN rows
        BY <2>3, <2>8
      <3>2. \A i \in defs, k \in Keys : id \in idx'[i][k] <=> k = old.val[i]
        BY <1>6, <1>8, <2>4, <2>8, <3>1 DEF Agrees
      <3>3. Agrees(id)'
        BY <1>1, <2>5, <3>2 DEF Agrees
      <3>4. Free(id, old.val)
        BY <1>2, <1>6, <2>2, <2>4, <3>1, NotRefused
      <3> QED
        BY <1>4, <2>5, <3>3, <3>4 DEF RowSettles
    <2> QED
      BY <1>1, <1>2, <1>4, <1>6, <2>7, <2>8, OneRow
  <1> QED
    BY <1>3, <1>9, <1>10, <1>11

-----------------------------------------------------------------------------
(* CREATE INDEX, shutdown and open.                                        *)

(* A unique index can only be built over rows that share no key.           *)
LEMMA BuildableUnique ==
    ASSUME IInv, NEW i \in Unique, Buildable(i), NEW a \in DOMAIN rows, NEW b \in DOMAIN rows, a # b
    PROVE  rows[a].val[i] # rows[b].val[i]
  <1> SUFFICES ASSUME rows[a].val[i] = rows[b].val[i]
               PROVE  FALSE
    OBVIOUS
  <1>1. PICK k \in Keys : rows[a].val[i] = k
    BY DEF IInv, RowsInv, RowType, Values, Indexes
  <1> DEFINE S == Entries(i)[k]
  <1>2. {a, b} \subseteq S /\ S \subseteq 1..(next - 1)
    BY <1>1 DEF Entries, IInv, TypeOK
  <1>3. Cardinality(S) <= 1
    BY DEF Buildable
  <1> HIDE DEF S
  <1>4. next - 1 \in Int
    BY DEF IInv, TypeOK
  <1>5. IsFiniteSet(S) /\ Cardinality(S) \in Nat
    <2>1. IsFiniteSet(1..(next - 1))
      BY <1>4, FS_Interval
    <2> QED
      BY <1>2, <2>1, FS_Subset, FS_CardinalityType
  <1>6. Cardinality({a, b}) <= Cardinality(S)
    BY <1>2, <1>5, FS_Subset
  <1>7. Cardinality({a, b}) = 2
    <2>1. IsFiniteSet({a}) /\ Cardinality({a}) = 1
      BY FS_Singleton
    <2>2. Cardinality({a} \cup {b}) = Cardinality({a}) + 1
      BY <2>1, FS_AddElement
    <2> QED
      BY <2>1, <2>2
  <1> QED
    BY <1>3, <1>5, <1>6, <1>7

LEMMA InHandIds ==
    ASSUME IInv
    PROVE  /\ InHand \subseteq Ids
           /\ \A s \in Sessions : Busy(s) => sess[s].id \in InHand
  <1>1. ASSUME NEW s \in Sessions, Busy(s)
        PROVE  sess[s].id \in Ids
    BY <1>1, Stepping DEF Busy, Holding, WellFormed, IInv, SessInv
  <1> QED
    BY <1>1 DEF InHand

LEMMA BuildIndexKeeps ==
    ASSUME IInv, NEW i \in Late, BuildIndex(i)
    PROVE  IInv'
  <1> USE DEF IInv, data
  <1>1. /\ up = "open" /\ i \in Indexes /\ Buildable(i)
        /\ build' = [index |-> i, entries |-> Entries(i), missed |-> InHand]
        /\ UNCHANGED <<rows, next, idx, defs, sess, up, hurt>>
    BY IndexAssumption DEF BuildIndex, Indexes
  <1>2. InHand' = InHand
    BY <1>1 DEF InHand, Busy
  <1>3. TypeOK' /\ RowsInv' /\ SessInv' /\ OpenInv'
    BY <1>1, InHandIds DEF TypeOK, RowsInv, SessInv, OpenInv
  <1>4. IndexAgrees' /\ UniqueRows'
    BY <1>1, <1>2 DEF IndexAgrees, UniqueRows, Settled, Ids
  <1>5. HandInv'
    BY <1>1 DEF HandInv, Taken, Busy, Overlap
  <1>6. BuildInv'
    <2>1. Entries(i) \in [Keys -> SUBSET Ids]
      BY IndexAssumption DEF Entries, TypeOK, Ids
    <2>2. \A id : \A k \in Keys :
             id \in build'.entries[k] <=> id \in DOMAIN rows' /\ rows'[id].val[build'.index] = k
      BY <1>1 DEF Entries
    <2> QED
      BY <1>1, <1>2, <2>1, <2>2, InHandIds DEF BuildInv, Ids
  <1>7. BuildUniqueInv'
    BY <1>1, BuildableUnique DEF BuildUniqueInv
  <1> QED
    BY <1>3, <1>4, <1>5, <1>6, <1>7

LEMMA AddIndexKeeps ==
    ASSUME IInv, AddIndex
    PROVE  IInv'
  <1> USE DEF IInv
  <1>1. /\ up = "open" /\ build.index # "none" /\ UNCHANGED <<rows, next, sess, up>>
        /\ idx' = [idx EXCEPT ![build.index] = build.entries]
        /\ defs' = defs \cup {build.index} /\ hurt' = hurt \cup build.missed /\ build' = NoBuild
    BY DEF AddIndex
  <1>2. /\ build.index \in Indexes /\ build.entries \in [Keys -> SUBSET Ids]
        /\ build.missed \subseteq Ids /\ InHand \subseteq build.missed
    BY <1>1 DEF BuildInv
  <1>3. InHand' = InHand
    BY <1>1 DEF InHand, Busy
  <1>4. Settled' = Ids \ (hurt \cup build.missed) /\ Settled' \subseteq Settled
    BY <1>1, <1>2, <1>3 DEF Settled, Ids
  <1>5. TypeOK' /\ RowsInv' /\ SessInv'
    BY <1>1, <1>2 DEF TypeOK, RowsInv, SessInv, NoBuild
  <1>6. OpenInv' /\ BuildInv' /\ BuildUniqueInv'
    BY <1>1 DEF OpenInv, BuildInv, BuildUniqueInv, NoBuild, NoEntries
  <1>7. IndexAgrees'
    <2> SUFFICES ASSUME NEW i \in defs', NEW k \in Keys, NEW id \in Settled'
                 PROVE  id \in idx'[i][k] <=> id \in DOMAIN rows /\ rows[id].val[i] = k
      BY <1>1 DEF IndexAgrees
    <2>1. CASE i = build.index
      <3>1. idx'[i] = build.entries
        BY <1>1, <1>2, <2>1 DEF TypeOK
      <3> QED
        BY <1>1, <1>4, <2>1, <3>1 DEF BuildInv
    <2>2. CASE i # build.index
      <3>1. i \in defs /\ idx'[i] = idx[i]
        BY <1>1, <2>2 DEF TypeOK
      <3> QED
        BY <1>1, <1>4, <3>1 DEF IndexAgrees
    <2> QED
      BY <2>1, <2>2
  <1>8. UniqueRows'
    <2> SUFFICES ASSUME NEW i \in Unique \cap defs', NEW a \in Settled' \cap DOMAIN rows,
                        NEW b \in Settled' \cap DOMAIN rows, a # b
                 PROVE  rows[a].val[i] # rows[b].val[i]
      BY <1>1 DEF UniqueRows
    <2>1. CASE i = build.index
      BY <1>1, <1>4, <2>1 DEF BuildUniqueInv
    <2>2. CASE i # build.index
      BY <1>1, <1>4, <2>2 DEF UniqueRows
    <2> QED
      BY <2>1, <2>2
  <1>9. HandInv'
    <2>1. \A s \in Sessions : Busy(s)' => sess'[s].id \in hurt'
      BY <1>1, <1>2, InHandIds DEF Busy
    <2> QED
      BY <2>1 DEF HandInv
  <1> QED
    BY <1>5, <1>6, <1>7, <1>8, <1>9

LEMMA CloseKeeps ==
    ASSUME IInv, Close
    PROVE  IInv'
  <1> USE DEF IInv, schema
  <1>1. /\ build.index = "none" /\ \A s \in Sessions : sess[s].step = "idle"
        /\ up' = "closed" /\ idx' = [i \in Indexes |-> NoEntries]
        /\ sess' = [s \in Sessions |-> NewSession] /\ UNCHANGED <<rows, next, defs, build, hurt>>
    BY DEF Close
  <1>2. \A s \in Sessions : ~Busy(s) /\ ~Busy(s)'
    BY <1>1 DEF Busy, Holding, NewSession
  <1>3. InHand = {} /\ InHand' = {}
    BY <1>2 DEF InHand
  <1>4. NewSession \in SessType /\ WellFormed(NewSession, next)
    BY NewSessionOK
  <1>5. SessInv'
    BY <1>1, <1>4 DEF SessInv
  <1>6. TypeOK'
    <2>1. \A s \in Sessions : /\ sess'[s].step \in Steps
                              /\ sess'[s].step \notin {"idle", "undo"} => sess'[s].open
                              /\ sess'[s].auto => sess'[s].open /\ sess'[s].undo = <<>>
      BY <1>5 DEF SessInv, WellFormed, SessType
    <2>2. idx' \in [Indexes -> [Keys -> SUBSET Ids]]
      BY <1>1 DEF NoEntries
    <2> QED
      BY <1>1, <2>1, <2>2 DEF TypeOK, Ids
  <1>7. RowsInv' /\ OpenInv' /\ IndexAgrees' /\ HandInv'
    BY <1>1, <1>2 DEF RowsInv, OpenInv, IndexAgrees, HandInv, NewSession
  <1>8. UniqueRows' /\ BuildInv' /\ BuildUniqueInv'
    BY <1>1, <1>3 DEF UniqueRows, Settled, Ids, BuildInv, BuildUniqueInv
  <1> QED
    BY <1>5, <1>6, <1>7, <1>8

LEMMA OpenKeeps ==
    ASSUME IInv, Open
    PROVE  IInv'
  <1> USE DEF IInv, schema
  <1>1. /\ up = "closed" /\ UNCHANGED <<rows, next, defs, build, sess>>
        /\ \/ /\ \A i \in defs : Buildable(i)
              /\ up' = "open" /\ hurt' = {}
              /\ idx' = [i \in Indexes |-> IF i \in defs THEN Entries(i) ELSE NoEntries]
           \/ up' = "broken" /\ UNCHANGED <<idx, hurt>>
    BY DEF Open
  <1>2. build.index = "none" /\ \A s \in Sessions : sess[s].step = "idle"
    BY <1>1 DEF OpenInv
  <1>3. \A s \in Sessions : ~Busy(s) /\ ~Busy(s)'
    BY <1>1, <1>2 DEF Busy, Holding
  <1>4. InHand = {} /\ InHand' = {}
    BY <1>3 DEF InHand
  <1>5. RowsInv' /\ SessInv' /\ OpenInv' /\ HandInv' /\ BuildInv' /\ BuildUniqueInv'
    BY <1>1, <1>2, <1>3 DEF RowsInv, SessInv, OpenInv, HandInv, BuildInv, BuildUniqueInv
  <1>6. CASE up' = "broken" /\ UNCHANGED <<idx, hurt>>
    BY <1>1, <1>4, <1>5, <1>6 DEF TypeOK, IndexAgrees, UniqueRows, Settled, Ids
  <1>7. CASE /\ \A i \in defs : Buildable(i)
             /\ up' = "open" /\ hurt' = {}
             /\ idx' = [i \in Indexes |-> IF i \in defs THEN Entries(i) ELSE NoEntries]
    <2>1. \A i : Entries(i) \in [Keys -> SUBSET Ids]
      BY IndexAssumption DEF Entries, TypeOK, Ids
    <2>2. TypeOK'
      BY <1>1, <1>7, <2>1 DEF TypeOK, Ids, NoEntries
    <2>3. IndexAgrees'
      BY <1>1, <1>7 DEF IndexAgrees, Entries, TypeOK
    <2>4. UniqueRows'
      BY <1>1, <1>7, BuildableUnique DEF UniqueRows
    <2> QED
      BY <1>5, <2>2, <2>3, <2>4
  <1> QED
    BY <1>1, <1>6, <1>7

-----------------------------------------------------------------------------
LEMMA InitHolds == Init => IInv
  <1> SUFFICES ASSUME Init
               PROVE  IInv
    OBVIOUS
  <1> USE DEF Init
  <1>1. DOMAIN rows = {}
    OBVIOUS
  <1>2. SessInv
    BY NewSessionOK DEF SessInv
  <1>3. \A s \in Sessions : sess[s].step = "idle" /\ ~Busy(s)
    BY DEF NewSession, Busy, Holding
  <1>4. TypeOK
    <2>1. \A s \in Sessions : /\ sess[s].step \in Steps
                              /\ sess[s].step \notin {"idle", "undo"} => sess[s].open
                              /\ sess[s].auto => sess[s].open /\ sess[s].undo = <<>>
      BY <1>2 DEF SessInv, WellFormed, SessType
    <2>2. next \in 1..(MaxRows + 1)
      BY IndexAssumption
    <2> QED
      BY <1>1, <2>1, <2>2, IndexAssumption DEF TypeOK, NoEntries, NoBuild, Indexes
  <1>5. RowsInv /\ OpenInv /\ HandInv /\ UniqueRows
    BY <1>1, <1>3 DEF RowsInv, OpenInv, HandInv, UniqueRows, NoBuild
  <1>6. IndexAgrees
    BY <1>1, <1>4 DEF IndexAgrees, TypeOK, NoEntries
  <1>7. BuildInv /\ BuildUniqueInv
    BY DEF BuildInv, BuildUniqueInv, NoBuild, NoEntries
  <1> QED
    BY <1>2, <1>4, <1>5, <1>6, <1>7 DEF IInv

LEMMA StepKeeps == IInv /\ [Next]_vars => IInv'
  <1> SUFFICES ASSUME IInv, [Next]_vars
               PROVE  IInv'
    OBVIOUS
  <1>1. CASE UNCHANGED vars
    <2>1. UNCHANGED <<rows, next, idx, defs, build, sess, up, hurt>>
      BY <1>1 DEF vars, data, schema
    <2>2. InHand' = InHand /\ Settled' = Settled
      BY <2>1 DEF Settled, Ids, InHand, Busy
    <2>3. TypeOK' /\ RowsInv' /\ SessInv' /\ OpenInv'
      BY <2>1 DEF IInv, TypeOK, RowsInv, SessInv, OpenInv
    <2>4. IndexAgrees' /\ UniqueRows' /\ BuildInv' /\ BuildUniqueInv'
      BY <2>1, <2>2 DEF IInv, IndexAgrees, UniqueRows, BuildInv, BuildUniqueInv
    <2>5. HandInv'
      BY <2>1 DEF IInv, HandInv, Taken, Busy, Overlap
    <2> QED
      BY <2>3, <2>4, <2>5 DEF IInv
  <1>2. ASSUME NEW s \in Sessions, RowStep(s)
        PROVE  IInv'
    <2>1. CASE Store(s)
      BY <2>1, StoreKeeps
    <2>2. CASE Index(s)
      BY <2>2, IndexKeeps
    <2>3. CASE Unindex(s, "unindex", "write", "Update")
      BY <2>3, UnindexKeeps
    <2>4. CASE EvalFails(s)
      BY <2>4, EvalFailsKeeps
    <2>5. ASSUME NEW val \in Values, Write(s, val)
          PROVE  IInv'
      BY <2>5, WriteKeeps
    <2>6. CASE Reindex(s)
      BY <2>6, ReindexKeeps
    <2>7. CASE Unindex(s, "remove", "erase", "Delete")
      BY <2>7, UnindexKeeps
    <2>8. CASE Erase(s)
      BY <2>8, EraseKeeps
    <2> QED
      BY <1>2, <2>1, <2>2, <2>3, <2>4, <2>5, <2>6, <2>7, <2>8 DEF RowStep
  <1>3. ASSUME NEW s \in Sessions,
               Begin(s) \/ Insert(s) \/ Change(s) \/ Commit(s) \/ Rollback(s) \/ UndoEnd(s)
        PROVE  IInv'
    BY <1>3, QuietStepKeeps
  <1>4. ASSUME NEW s \in Sessions, UndoStep(s)
        PROVE  IInv'
    BY <1>4, UndoStepKeeps
  <1>5. CASE \E i \in Late : BuildIndex(i)
    BY <1>5, BuildIndexKeeps
  <1>6. CASE AddIndex
    BY <1>6, AddIndexKeeps
  <1>7. CASE Close
    BY <1>7, CloseKeeps
  <1>8. CASE Open
    BY <1>8, OpenKeeps
  <1> QED
    BY <1>1, <1>2, <1>3, <1>4, <1>5, <1>6, <1>7, <1>8 DEF Next

LEMMA Invariant == Spec => []IInv
  BY InitHolds, StepKeeps, PTL DEF Spec

(* The table, the indexes, the sessions and the index under construction   *)
(* stay well formed through every statement, rollback, CREATE INDEX and    *)
(* restart (index.rs, executor.rs).                                        *)
THEOREM TypeCorrect == Spec => []TypeOK
  <1>1. IInv => TypeOK
    BY DEF IInv
  <1> QED
    BY <1>1, Invariant, PTL

(* However sessions interleave between the table's lock and the indexes',  *)
(* an index scan and a full scan find the same rows, outside the rows that *)
(* a statement has in hand and those that a failed or overtaken statement  *)
(* spoilt (executor.rs, transaction.rs apply_undo, engine.rs rebuild_all). *)
THEOREM IndexesStayRight == Spec => []IndexAgrees
  <1>1. IInv => IndexAgrees
    BY DEF IInv
  <1> QED
    BY <1>1, Invariant, PTL

(* Two settled rows never share a key of a unique index (BTreeIndex::insert *)
(* after storage.insert, and CREATE UNIQUE INDEX under way).                *)
THEOREM UniqueRowsStay == Spec => []UniqueRows
  <1>1. IInv => UniqueRows
    BY DEF IInv
  <1> QED
    BY <1>1, Invariant, PTL

=============================================================================
