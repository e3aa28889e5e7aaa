--------------------------- MODULE Engine_proofs ---------------------------
(***************************************************************************)
(* The invariants of Engine for any sessions, bounds and checkpoint        *)
(* interval, on both backends.                                             *)
(*                                                                         *)
(* A table is looked at one row at a time: the cell of a row is its value, *)
(* or 0.  Replay and rollback both fold a list of effects over a table, so *)
(* over each cell; Lands(n, seq, id, B, S) says that a fold over n effects *)
(* that begins in B ends in S, and the invariants say where replay and     *)
(* undo begin and end.                                                     *)
(*                                                                         *)
(* Memory has the committed cells but for what open transactions have      *)
(* written (MemOf), the table file has them as of the last checkpoint, or  *)
(* as memory has them (FileOf), and replay takes every cell of the file to *)
(* the committed one, and on to what an open transaction has written       *)
(* should it commit (ReplayOf).  A record that is appended then extends    *)
(* one fold by one effect.  The undo list of a session takes the rows that *)
(* it has written back (in MemOf), and a row that it has only recorded to  *)
(* the value the row has (AllSettled).                                     *)
(*                                                                         *)
(* A write that the log did not take strays from this (Strays): memory has *)
(* it and no transaction owns it.  So MemOf is claimed while no write has  *)
(* strayed, and what the other parts need of memory all the time, that a   *)
(* row an open transaction has deleted is gone, is said apart (ThereIs).   *)
(***************************************************************************)
EXTENDS Engine, TLAPS, FiniteSetTheorems, NaturalsInduction, WellFoundedInduction

Ids == Nat \ {0}
Pos == Nat \ {0}

(* A set of indexes that has 0 and with each index the next has them all.  *)
LEMMA IndexInduction ==
    ASSUME NEW n \in Nat, NEW P, 0 \in P, \A i \in 0..(n - 1) : i \in P => i + 1 \in P
    PROVE  \A i \in 0..n : i \in P
  <1> DEFINE out == {i \in 0..n : i \notin P}
  <1> SUFFICES ASSUME out # {}
               PROVE  FALSE
    OBVIOUS
  <1>1. out \subseteq Nat
    OBVIOUS
  <1>2. PICK m \in out : \A y \in out : ~(<<y, m>> \in OpToRel(<, Nat))
    BY <1>1, NatLessThanWellFounded, WFMin
  <1>3. \A y \in out : ~(y < m)
    BY <1>1, <1>2 DEF OpToRel
  <1>4. m - 1 \in 0..(n - 1) /\ m - 1 \notin out
    BY <1>3
  <1> QED
    BY <1>4

LEMMA MaxIs ==
    ASSUME NEW n \in Nat, NEW S \in SUBSET (1..n), n \in S
    PROVE  Max(S) = n
  <1>1. \A y \in S : n >= y
    OBVIOUS
  <1>2. \A x \in S : (\A y \in S : x >= y) => x = n
    BY <1>1
  <1> QED
    BY <1>1, <1>2 DEF Max

-----------------------------------------------------------------------------
(* Folds of Apply.                                                         *)
ApplyAll(b, seq) == FoldLeft(Apply, b, seq)

(* A fold is the last of the states that it goes through.                  *)
Applies(st, n, seq, b, t) ==
    st[0] = b /\ (\A i \in 1..n : st[i] = Apply(st[i - 1], seq[i])) /\ st[n] = t

LEMMA ApplyStates ==
    ASSUME NEW n \in Nat, NEW seq, DOMAIN seq = 1..n, NEW b, NEW t, ApplyAll(b, seq) = t
    PROVE  \E st : Applies(st, n, seq, b, t)
  <1> DEFINE Eq(f, m) == f = [x \in SUBSET (1..m) |->
                                IF x = {} THEN b ELSE Apply(f[x \ {Max(x)}], seq[Max(x)])]
             good == {m \in 0..n : \E f : Eq(f, m)}
  <1>1. 0 \in good
    <2> DEFINE f == [x \in SUBSET (1..0) |-> b]
    <2>1. \A x \in SUBSET (1..0) : x = {}
      OBVIOUS
    <2>2. Eq(f, 0)
      BY <2>1
    <2> QED
      BY <2>2
  <1>2. ASSUME NEW m \in 0..(n - 1), m \in good
        PROVE  m + 1 \in good
    <2>1. PICK f : Eq(f, m)
      BY <1>2
    <2> DEFINE g == [x \in SUBSET (1..(m + 1)) |->
                        IF m + 1 \in x THEN Apply(f[x \ {m + 1}], seq[m + 1]) ELSE f[x]]
               h == [x \in SUBSET (1..(m + 1)) |->
                        IF x = {} THEN b ELSE Apply(g[x \ {Max(x)}], seq[Max(x)])]
    <2>2. ASSUME NEW x \in SUBSET (1..(m + 1))
          PROVE  g[x] = h[x]
      <3>1. CASE m + 1 \in x
        <4>1. Max(x) = m + 1
          BY <3>1, MaxIs
        <4>2. x \ {m + 1} \in SUBSET (1..(m + 1)) /\ m + 1 \notin x \ {m + 1} /\ x # {}
          BY <3>1
        <4>3. g[x \ {m + 1}] = f[x \ {m + 1}]
          BY <4>2
        <4> QED
          BY <3>1, <4>1, <4>2, <4>3
      <3>2. CASE m + 1 \notin x
        <4>1. x \in SUBSET (1..m)
          BY <3>2
        <4>2. g[x] = IF x = {} THEN b ELSE Apply(f[x \ {Max(x)}], seq[Max(x)])
          BY <2>1, <3>2, <4>1
        <4>3. x \ {Max(x)} \in SUBSET (1..(m + 1)) /\ m + 1 \notin x \ {Max(x)}
          BY <3>2
        <4>4. g[x \ {Max(x)}] = f[x \ {Max(x)}]
          BY <4>3
        <4> QED
          BY <4>2, <4>4
      <3> QED
        BY <3>1, <3>2
    <2>3. Eq(g, m + 1)
      <3>1. g = h
        BY <2>2
      <3> QED
        BY <3>1
    <2> HIDE DEF g
    <2>4. PICK ff : ff = g
      OBVIOUS
    <2>5. Eq(ff, m + 1)
      BY <2>3, <2>4
    <2>6. m + 1 \in 0..n
      OBVIOUS
    <2> QED
      BY <2>5, <2>6
  <1>3. n \in good
    <2> HIDE DEF good
    <2>1. \A i \in 0..n : i \in good
      BY <1>1, <1>2, IndexInduction
    <2> QED
      BY <2>1
  <1> DEFINE it == CHOOSE f : Eq(f, n)
  <1>4. Eq(it, n)
    BY <1>3
  <1>5. ApplyAll(b, seq) = it[1..n]
    BY DEF ApplyAll, FoldLeft, MapThenFoldSet
  <1> HIDE DEF it
  <1> DEFINE st == [i \in 0..n |-> it[1..i]]
  <1>6. st[0] = b
    BY <1>4
  <1>7. ASSUME NEW i \in 1..n
        PROVE  st[i] = Apply(st[i - 1], seq[i])
    <2>1. 1..i \in SUBSET (1..n) /\ i \in 1..i /\ (1..i) \ {i} = 1..(i - 1)
      OBVIOUS
    <2> HIDE DEF st
    <2>3. Max(1..i) = i
      BY <2>1, MaxIs
    <2> USE DEF st
    <2>2. it[1..i] = Apply(it[1..(i - 1)], seq[i])
      BY <1>4, <2>1, <2>3
    <2> QED
      BY <2>2
  <1>8. ApplyAll(b, seq) = st[n]
    BY <1>5
  <1> HIDE DEF st
  <1> QED
    BY <1>6, <1>7, <1>8 DEF Applies

-----------------------------------------------------------------------------
(* Tables and effects.                                                     *)

RowType == [val : 1..MaxWrites, ver : Nat \ {0}]

TableOK(t) ==
    /\ DOMAIN t = {"rows", "next"} /\ t.next \in Nat \ {0}
    /\ \A i \in DOMAIN t.rows : i \in 1..(t.next - 1) /\ t.rows[i] \in RowType

Effects == [kind : DataKinds \cup {"Begin", "Commit", "Abort"}, id : Nat,
            row : RowType \cup {NoRow}]

EffectOK(e) ==
    /\ e \in Effects
    /\ e.kind \in {"Insert", "Update"} => e.row \in RowType
    /\ e.id = 0 <=> e.kind \notin DataKinds

(* The value of a row, 0 if there is no such row, and what an effect makes *)
(* of it.                                                                  *)
Cell(t, id) == IF id \in DOMAIN t.rows THEN t.rows[id].val ELSE 0

CellStep(e, c) ==
    CASE e.kind = "Insert" -> e.row.val
      [] e.kind = "Update" -> IF c = 0 THEN 0 ELSE e.row.val
      [] e.kind = "Delete" -> 0
      [] OTHER -> c

EffCell(e, id, c) == IF e.id = id THEN CellStep(e, c) ELSE c

LEMMA CellType ==
    ASSUME NEW t, TableOK(t), NEW id
    PROVE  Cell(t, id) \in Nat /\ (id \in DOMAIN t.rows <=> Cell(t, id) # 0)
  <1>1. CASE id \in DOMAIN t.rows
    <2>1. t.rows[id].val \in 1..MaxWrites
      BY <1>1 DEF TableOK, RowType
    <2> QED
      BY <1>1, <2>1, EngineAssumption DEF Cell
  <1>2. CASE id \notin DOMAIN t.rows
    BY <1>2 DEF Cell
  <1> QED
    BY <1>1, <1>2

LEMMA ControlOK == \A k \in {"Begin", "Commit", "Abort"} : EffectOK(Control(k)) /\ Control(k).id = 0
  BY DEF EffectOK, Control, Effects, NoRow, DataKinds

LEMMA EffCellType ==
    ASSUME NEW e, EffectOK(e), NEW id, NEW c \in Nat
    PROVE  EffCell(e, id, c) \in Nat
  <1>1. e.row.val \in Nat
    BY EngineAssumption DEF EffectOK, Effects, RowType, NoRow
  <1> QED
    BY <1>1 DEF EffCell, CellStep

LEMMA EmptyTableOK == TableOK(EmptyTable) /\ \A id : Cell(EmptyTable, id) = 0
  BY DEF TableOK, EmptyTable, Cell

LEMMA PutRow ==
    ASSUME NEW t, TableOK(t), NEW id \in Ids, NEW row \in RowType, NEW n \in Nat,
           id < n, n >= t.next
    PROVE  LET u == [rows |-> Put(t.rows, id, row), next |-> n]
           IN  TableOK(u) /\ \A i : Cell(u, i) = IF i = id THEN row.val ELSE Cell(t, i)
  <1> DEFINE u == [rows |-> Put(t.rows, id, row), next |-> n]
  <1>1. TableOK(u)
    BY DEF TableOK, Put, Ids
  <1>2. \A i : Cell(u, i) = IF i = id THEN row.val ELSE Cell(t, i)
    BY DEF Cell, Put
  <1> QED
    BY <1>1, <1>2

LEMMA WithoutRow ==
    ASSUME NEW t, TableOK(t), NEW id
    PROVE  LET u == [t EXCEPT !.rows = Without(@, id)]
           IN  TableOK(u) /\ u.next = t.next /\ \A i : Cell(u, i) = IF i = id THEN 0 ELSE Cell(t, i)
  <1> DEFINE u == [t EXCEPT !.rows = Without(@, id)]
  <1>1. u.next = t.next /\ DOMAIN u = {"rows", "next"}
    BY DEF TableOK
  <1>2. u.rows = Without(t.rows, id)
    BY DEF TableOK
  <1>3. DOMAIN u.rows = DOMAIN t.rows \ {id} /\ \A i \in DOMAIN u.rows : u.rows[i] = t.rows[i]
    BY <1>2 DEF Without, Restrict
  <1> HIDE DEF u
  <1>4. TableOK(u)
    BY <1>1, <1>3 DEF TableOK
  <1>5. \A i : Cell(u, i) = IF i = id THEN 0 ELSE Cell(t, i)
    BY <1>3 DEF Cell
  <1> QED
    BY <1>1, <1>4, <1>5 DEF u

(* What an effect does to a table, row by row.                             *)
LEMMA ApplyOK ==
    ASSUME NEW t, TableOK(t), NEW e, EffectOK(e)
    PROVE  /\ TableOK(Apply(t, e)) /\ Apply(t, e).next >= t.next
           /\ \A id \in Ids : Cell(Apply(t, e), id) = EffCell(e, id, Cell(t, id))
  <1>0. t.next \in Nat /\ e.id \in Nat /\ (e.kind \in DataKinds => e.id \in Ids)
    BY DEF TableOK, EffectOK, Effects, Ids
  <1>1. CASE e.kind = "Insert"
    <2>1. PICK n : n = IF e.id >= t.next THEN e.id + 1 ELSE t.next
      OBVIOUS
    <2>2. n \in Nat /\ e.id < n /\ n >= t.next /\ e.id \in Ids /\ e.row \in RowType
      BY <1>0, <1>1, <2>1 DEF EffectOK, DataKinds
    <2>3. PICK u : u = [rows |-> Put(t.rows, e.id, e.row), next |-> n]
      OBVIOUS
    <2>4. Apply(t, e) = u
      BY <1>1, <2>1, <2>3 DEF Apply, ApplyInsert
    <2>5. TableOK(u) /\ u.next = n /\ \A i : Cell(u, i) = IF i = e.id THEN e.row.val ELSE Cell(t, i)
      BY <2>2, <2>3, PutRow
    <2>6. \A i : EffCell(e, i, Cell(t, i)) = IF i = e.id THEN e.row.val ELSE Cell(t, i)
      BY <1>1 DEF EffCell, CellStep
    <2> QED
      BY <2>2, <2>4, <2>5, <2>6
  <1>2. CASE e.kind = "Update" /\ e.id \in DOMAIN t.rows
    <2>1. PICK row : row = [e.row EXCEPT !.ver = t.rows[e.id].ver + 1]
      OBVIOUS
    <2>2. e.row \in RowType /\ t.rows[e.id] \in RowType /\ e.id < t.next /\ e.id \in Ids
      BY <1>0, <1>2 DEF EffectOK, TableOK, DataKinds
    <2>3. row \in RowType /\ row.val = e.row.val
      BY <2>1, <2>2 DEF RowType
    <2>4. PICK u : u = [rows |-> Put(t.rows, e.id, row), next |-> t.next]
      OBVIOUS
    <2>5. Apply(t, e) = u
      <3>1. Apply(t, e) = [t EXCEPT !.rows = Put(@, e.id, row)]
        BY <1>2, <2>1 DEF Apply, ApplyUpdate
      <3> QED
        BY <3>1, <2>4 DEF TableOK
    <2>6. TableOK(u) /\ u.next = t.next /\ \A i : Cell(u, i) = IF i = e.id THEN row.val ELSE Cell(t, i)
      BY <1>0, <2>2, <2>3, <2>4, PutRow
    <2>7. Cell(t, e.id) # 0
      BY <1>2, CellType
    <2>8. \A i : EffCell(e, i, Cell(t, i)) = IF i = e.id THEN e.row.val ELSE Cell(t, i)
      BY <1>2, <2>7 DEF EffCell, CellStep
    <2> QED
      BY <1>0, <2>3, <2>5, <2>6, <2>8
  <1>3. CASE e.kind = "Update" /\ e.id \notin DOMAIN t.rows
    <2>1. Apply(t, e) = t
      BY <1>3 DEF Apply, ApplyUpdate
    <2>2. Cell(t, e.id) = 0
      BY <1>3 DEF Cell
    <2>3. \A i : EffCell(e, i, Cell(t, i)) = Cell(t, i)
      BY <1>3, <2>2 DEF EffCell, CellStep
    <2> QED
      BY <1>0, <2>1, <2>3
  <1>4. CASE e.kind = "Delete"
    <2>1. PICK u : u = [t EXCEPT !.rows = Without(@, e.id)]
      OBVIOUS
    <2>2. Apply(t, e) = u
      BY <1>4, <2>1 DEF Apply, ApplyDelete
    <2>3. TableOK(u) /\ u.next = t.next /\ \A i : Cell(u, i) = IF i = e.id THEN 0 ELSE Cell(t, i)
      BY <2>1, WithoutRow
    <2>4. \A i : EffCell(e, i, Cell(t, i)) = IF i = e.id THEN 0 ELSE Cell(t, i)
      BY <1>4 DEF EffCell, CellStep
    <2> QED
      BY <1>0, <2>2, <2>3, <2>4
  <1>5. CASE e.kind \notin DataKinds
    <2>1. Apply(t, e) = t
      BY <1>5 DEF Apply, DataKinds
    <2>2. \A i \in Ids : EffCell(e, i, Cell(t, i)) = Cell(t, i)
      BY <1>5 DEF EffCell, EffectOK, Ids
    <2> QED
      BY <1>0, <2>1, <2>2
  <1> QED
    BY <1>1, <1>2, <1>3, <1>4, <1>5 DEF DataKinds

-----------------------------------------------------------------------------
(* Where the effects of a list take a cell: every run of a cell through    *)
(* them that begins in B ends in S.                                        *)
IsRun(n, seq, id, f) ==
    f \in [0..n -> Nat] /\ \A i \in 1..n : f[i] = EffCell(seq[i], id, f[i - 1])

Lands(n, seq, id, B, S) == \A f : IsRun(n, seq, id, f) /\ f[0] \in B => f[n] \in S

LEMMA LandsEmpty ==
    ASSUME NEW seq, NEW id, NEW B, NEW S, B \subseteq S
    PROVE  Lands(0, seq, id, B, S)
  BY DEF Lands

LEMMA LandsWeaken ==
    ASSUME NEW n, NEW seq, NEW id, NEW B, NEW S, NEW B2, NEW S2, Lands(n, seq, id, B, S),
           B2 \subseteq B, S \subseteq S2
    PROVE  Lands(n, seq, id, B2, S2)
  BY DEF Lands

(* One effect more at the end.                                             *)
LEMMA LandsMore ==
    ASSUME NEW n \in Nat, NEW seq, NEW seq2, NEW id, NEW B, NEW S, NEW S2,
           Lands(n, seq, id, B, S),
           \A i \in 1..n : seq2[i] = seq[i],
           \A c \in S : c \in Nat => EffCell(seq2[n + 1], id, c) \in S2
    PROVE  Lands(n + 1, seq2, id, B, S2)
  <1> SUFFICES ASSUME NEW f, IsRun(n + 1, seq2, id, f), f[0] \in B
               PROVE  f[n + 1] \in S2
    BY DEF Lands
  <1> DEFINE g == [i \in 0..n |-> f[i]]
  <1>1. IsRun(n, seq, id, g)
    <2>1. g \in [0..n -> Nat]
      BY DEF IsRun
    <2>2. ASSUME NEW i \in 1..n
          PROVE  g[i] = EffCell(seq[i], id, g[i - 1])
      <3>1. g[i] = f[i] /\ g[i - 1] = f[i - 1] /\ seq2[i] = seq[i] /\ i \in 1..(n + 1)
        OBVIOUS
      <3> QED
        BY <3>1 DEF IsRun
    <2> HIDE DEF g
    <2> QED
      BY <2>1, <2>2 DEF IsRun
  <1>2. g[0] = f[0] /\ g[n] = f[n] /\ f[n] \in Nat
    BY DEF IsRun
  <1> HIDE DEF g
  <1>3. f[n] \in S
    BY <1>1, <1>2 DEF Lands
  <1>4. f[n + 1] = EffCell(seq2[n + 1], id, f[n])
    <2>1. n + 1 \in 1..(n + 1) /\ (n + 1) - 1 = n
      OBVIOUS
    <2> QED
      BY <2>1 DEF IsRun
  <1> QED
    BY <1>2, <1>3, <1>4

(* One effect more at the front.                                           *)
LEMMA LandsFirst ==
    ASSUME NEW n \in Nat, NEW seq, NEW seq2, NEW id, NEW b, NEW S,
           Lands(n, seq, id, {EffCell(seq2[1], id, b)}, S),
           \A i \in 1..n : seq2[i + 1] = seq[i]
    PROVE  Lands(n + 1, seq2, id, {b}, S)
  <1> SUFFICES ASSUME NEW f, IsRun(n + 1, seq2, id, f), f[0] = b
               PROVE  f[n + 1] \in S
    BY DEF Lands
  <1> DEFINE g == [i \in 0..n |-> f[i + 1]]
  <1>1. IsRun(n, seq, id, g)
    <2>1. g \in [0..n -> Nat]
      BY DEF IsRun
    <2>2. ASSUME NEW i \in 1..n
          PROVE  g[i] = EffCell(seq[i], id, g[i - 1])
      <3>1. /\ g[i] = f[i + 1] /\ g[i - 1] = f[i] /\ seq2[i + 1] = seq[i]
            /\ i + 1 \in 1..(n + 1) /\ (i + 1) - 1 = i
        OBVIOUS
      <3> QED
        BY <3>1 DEF IsRun
    <2> HIDE DEF g
    <2> QED
      BY <2>1, <2>2 DEF IsRun
  <1>2. g[0] = f[1] /\ g[n] = f[n + 1]
    OBVIOUS
  <1>3. f[1] = EffCell(seq2[1], id, b)
    <2>1. 1 \in 1..(n + 1) /\ 1 - 1 = 0
      OBVIOUS
    <2> QED
      BY <2>1 DEF IsRun
  <1> HIDE DEF g
  <1> QED
    BY <1>1, <1>2, <1>3 DEF Lands

(* Another list that does the same to the cell.                            *)
LEMMA LandsSame ==
    ASSUME NEW n \in Nat, NEW seq, NEW seq2, NEW id, NEW B, NEW S, Lands(n, seq, id, B, S),
           \A i \in 1..n : \A c \in Nat : EffCell(seq2[i], id, c) = EffCell(seq[i], id, c)
    PROVE  Lands(n, seq2, id, B, S)
  <1> SUFFICES ASSUME NEW f, IsRun(n, seq2, id, f)
               PROVE  IsRun(n, seq, id, f)
    BY DEF Lands
  <1>1. ASSUME NEW i \in 1..n
        PROVE  f[i] = EffCell(seq[i], id, f[i - 1])
    <2>1. i - 1 \in 0..n
      OBVIOUS
    <2>2. f[i - 1] \in Nat /\ f[i] = EffCell(seq2[i], id, f[i - 1])
      BY <2>1 DEF IsRun
    <2> QED
      BY <2>2
  <1> QED
    BY <1>1 DEF IsRun

(* A list without an effect on the cell.                                   *)
LEMMA LandsNone ==
    ASSUME NEW n \in Nat, NEW seq, NEW id, NEW B, \A i \in 1..n : seq[i].id # id
    PROVE  Lands(n, seq, id, B, B)
  <1> SUFFICES ASSUME NEW f, IsRun(n, seq, id, f), f[0] \in B
               PROVE  f[n] \in B
    BY DEF Lands
  <1> DEFINE P == {i \in 0..n : f[i] = f[0]}
  <1>1. 0 \in P
    OBVIOUS
  <1>2. ASSUME NEW i \in 0..(n - 1), i \in P
        PROVE  i + 1 \in P
    <2>1. i + 1 \in 1..n /\ (i + 1) - 1 = i
      OBVIOUS
    <2>2. f[i + 1] = EffCell(seq[i + 1], id, f[i])
      BY <2>1 DEF IsRun
    <2> QED
      BY <1>2, <2>1, <2>2 DEF EffCell
  <1> HIDE DEF P
  <1>3. \A i \in 0..n : i \in P
    BY <1>1, <1>2, IndexInduction
  <1> QED
    BY <1>3 DEF P

(* A fold keeps tables tables, takes no id back and runs every cell.       *)
LEMMA ApplyAllOK ==
    ASSUME NEW n \in Nat, NEW seq, DOMAIN seq = 1..n, NEW b, TableOK(b),
           \A i \in 1..n : EffectOK(seq[i])
    PROVE  /\ TableOK(ApplyAll(b, seq)) /\ ApplyAll(b, seq).next >= b.next
           /\ \A id \in Ids : \A S : Lands(n, seq, id, {Cell(b, id)}, S)
                                        => Cell(ApplyAll(b, seq), id) \in S
  <1>1. PICK st : /\ st[0] = b
                  /\ \A i \in 1..n : st[i] = Apply(st[i - 1], seq[i])
                  /\ ApplyAll(b, seq) = st[n]
    <2>1. n \in Nat /\ DOMAIN seq = 1..n
      OBVIOUS
    <2>2. PICK t : ApplyAll(b, seq) = t
      OBVIOUS
    <2>3. \E st : Applies(st, n, seq, b, t)
      BY ONLY <2>1, <2>2, ApplyStates
    <2> QED
      BY <2>2, <2>3 DEF Applies
  <1> DEFINE P == {i \in 0..n : TableOK(st[i]) /\ st[i].next >= b.next}
  <1>2. 0 \in P
    BY <1>1 DEF TableOK
  <1>3. ASSUME NEW i \in 0..(n - 1), i \in P
        PROVE  i + 1 \in P
    <2>1. i + 1 \in 1..n /\ (i + 1) - 1 = i /\ i + 1 \in 0..n
      OBVIOUS
    <2>2. st[i + 1] = Apply(st[i], seq[i + 1]) /\ EffectOK(seq[i + 1])
      BY <1>1, <2>1
    <2>3. TableOK(st[i]) /\ st[i].next >= b.next
      BY <1>3
    <2>4. TableOK(st[i + 1]) /\ st[i + 1].next >= st[i].next
      BY <2>2, <2>3, ApplyOK
    <2>5. st[i + 1].next >= b.next
      BY <2>3, <2>4 DEF TableOK
    <2> QED
      BY <2>1, <2>4, <2>5
  <1> HIDE DEF P
  <1>4. \A i \in 0..n : i \in P
    BY <1>2, <1>3, IndexInduction
  <1>5. \A i \in 0..n : TableOK(st[i]) /\ st[i].next >= b.next
    BY <1>4 DEF P
  <1>6. ASSUME NEW id \in Ids, NEW S, Lands(n, seq, id, {Cell(b, id)}, S)
        PROVE  Cell(ApplyAll(b, seq), id) \in S
    <2> DEFINE f == [i \in 0..n |-> Cell(st[i], id)]
    <2>1. f \in [0..n -> Nat]
      BY <1>5, CellType
    <2>2. ASSUME NEW i \in 1..n
          PROVE  f[i] = EffCell(seq[i], id, f[i - 1])
      <3>1. i - 1 \in 0..n /\ i \in 0..n
        OBVIOUS
      <3>2. st[i] = Apply(st[i - 1], seq[i]) /\ TableOK(st[i - 1]) /\ EffectOK(seq[i])
        BY <1>1, <1>5, <3>1
      <3>3. Cell(st[i], id) = EffCell(seq[i], id, Cell(st[i - 1], id))
        BY <3>2, ApplyOK
      <3> QED
        BY <3>1, <3>3
    <2>3. f[0] = Cell(b, id) /\ f[n] = Cell(ApplyAll(b, seq), id)
      BY <1>1
    <2> HIDE DEF f
    <2>4. IsRun(n, seq, id, f)
      BY <2>1, <2>2 DEF IsRun
    <2> QED
      BY <1>6, <2>3, <2>4 DEF Lands
  <1>7. n \in 0..n
    OBVIOUS
  <1> QED
    BY <1>1, <1>5, <1>6, <1>7

-----------------------------------------------------------------------------
(* The log.  Its LSNs are the positions of its records.                    *)
Records == [lsn : Nat, txn : 1..MaxTxns, op : Effects]

WalOK(w) ==
    /\ w \in Seq(Records)
    /\ \A i \in 1..Len(w) : w[i].lsn = i /\ EffectOK(w[i].op)

(* What is replayed of a log when the transactions in K have committed,    *)
(* and where that takes a cell.                                            *)
KeptBy(w, K) == [i \in DOMAIN w |-> IF w[i].txn \in K THEN w[i].op ELSE Control("Begin")]

Rep(w, K, id, B, S) == Lands(Len(w), KeptBy(w, K), id, B, S)

LEMMA ControlCell == \A id \in Ids : \A k, c : EffCell(Control(k), id, c) = c
  BY DEF EffCell, Control, Ids

LEMMA WalAppend ==
    ASSUME NEW w, WalOK(w), NEW r \in Records, r.lsn = Len(w) + 1, EffectOK(r.op)
    PROVE  /\ WalOK(Append(w, r)) /\ Len(Append(w, r)) = Len(w) + 1
           /\ Append(w, r)[Len(w) + 1] = r
           /\ \A i \in 1..Len(w) : Append(w, r)[i] = w[i]
  BY DEF WalOK

LEMMA RepEmpty ==
    ASSUME NEW K, NEW id, NEW B, NEW S, B \subseteq S
    PROVE  Rep(<<>>, K, id, B, S)
  BY LandsEmpty DEF Rep

LEMMA RepWeaken ==
    ASSUME NEW w, NEW K, NEW id, NEW B, NEW S, NEW B2, NEW S2, Rep(w, K, id, B, S),
           B2 \subseteq B, S \subseteq S2
    PROVE  Rep(w, K, id, B2, S2)
  BY LandsWeaken DEF Rep

(* A record more: one that does not count for the cell, and one that does. *)
LEMMA RepSkip ==
    ASSUME NEW w, WalOK(w), NEW r, NEW K, NEW id \in Ids, NEW B, NEW S, Rep(w, K, id, B, S),
           r.txn \notin K \/ r.op.id # id
    PROVE  Rep(Append(w, r), K, id, B, S)
  <1> DEFINE n == Len(w)
             v == Append(w, r)
  <1>1. n \in Nat /\ Len(v) = n + 1 /\ DOMAIN w = 1..n /\ DOMAIN v = 1..(n + 1)
    BY DEF WalOK
  <1>2. v[n + 1] = r /\ \A i \in 1..n : v[i] = w[i]
    BY DEF WalOK
  <1> HIDE DEF n, v
  <1>3. \A i \in 1..n : KeptBy(v, K)[i] = KeptBy(w, K)[i]
    BY <1>1, <1>2 DEF KeptBy
  <1>4. KeptBy(v, K)[n + 1] = IF r.txn \in K THEN r.op ELSE Control("Begin")
    BY <1>1, <1>2 DEF KeptBy
  <1>5. \A c \in S : EffCell(KeptBy(v, K)[n + 1], id, c) = c
    BY <1>4, ControlCell DEF EffCell
  <1>6. Lands(n, KeptBy(w, K), id, B, S)
    BY DEF Rep, n
  <1>7. Lands(n + 1, KeptBy(v, K), id, B, S)
    BY <1>1, <1>3, <1>5, <1>6, LandsMore
  <1> QED
    BY <1>1, <1>7 DEF Rep, v

LEMMA RepAdd ==
    ASSUME NEW w, WalOK(w), NEW r, NEW K, NEW id \in Ids, NEW B, NEW S, NEW S2,
           Rep(w, K, id, B, S), r.txn \in K,
           \A c \in S : c \in Nat => EffCell(r.op, id, c) \in S2
    PROVE  Rep(Append(w, r), K, id, B, S2)
  <1> DEFINE n == Len(w)
             v == Append(w, r)
  <1>1. n \in Nat /\ Len(v) = n + 1 /\ DOMAIN w = 1..n /\ DOMAIN v = 1..(n + 1)
    BY DEF WalOK
  <1>2. v[n + 1] = r /\ \A i \in 1..n : v[i] = w[i]
    BY DEF WalOK
  <1> HIDE DEF n, v
  <1>3. \A i \in 1..n : KeptBy(v, K)[i] = KeptBy(w, K)[i]
    BY <1>1, <1>2 DEF KeptBy
  <1>4. KeptBy(v, K)[n + 1] = r.op
    BY <1>1, <1>2 DEF KeptBy
  <1>6. Lands(n, KeptBy(w, K), id, B, S)
    BY DEF Rep, n
  <1>7. Lands(n + 1, KeptBy(v, K), id, B, S2)
    BY <1>1, <1>3, <1>4, <1>6, LandsMore
  <1> QED
    BY <1>1, <1>7 DEF Rep, v

(* Only the transactions with a record on the row count.                   *)
LEMMA RepLocal ==
    ASSUME NEW w, WalOK(w), NEW K, NEW J, NEW id \in Ids, NEW B, NEW S, Rep(w, K, id, B, S),
           \A i \in 1..Len(w) : w[i].op.id = id => (w[i].txn \in K <=> w[i].txn \in J)
    PROVE  Rep(w, J, id, B, S)
  <1>1. Len(w) \in Nat /\ DOMAIN w = 1..Len(w)
    BY DEF WalOK
  <1>2. ASSUME NEW i \in 1..Len(w), NEW c \in Nat
        PROVE  EffCell(KeptBy(w, J)[i], id, c) = EffCell(KeptBy(w, K)[i], id, c)
    <2>1. /\ KeptBy(w, J)[i] = IF w[i].txn \in J THEN w[i].op ELSE Control("Begin")
          /\ KeptBy(w, K)[i] = IF w[i].txn \in K THEN w[i].op ELSE Control("Begin")
      BY <1>1 DEF KeptBy
    <2>2. CASE w[i].op.id = id
      <3>1. KeptBy(w, J)[i] = KeptBy(w, K)[i]
        BY <2>1, <2>2
      <3> QED
        BY <3>1
    <2>3. CASE w[i].op.id # id
      <3>1. EffCell(w[i].op, id, c) = c
        BY <2>3 DEF EffCell
      <3> QED
        BY <2>1, <3>1, ControlCell
    <2> QED
      BY <2>2, <2>3
  <1>3. Lands(Len(w), KeptBy(w, K), id, B, S)
    BY DEF Rep
  <1>4. Lands(Len(w), KeptBy(w, J), id, B, S)
    BY <1>1, <1>2, <1>3, LandsSame
  <1> QED
    BY <1>4 DEF Rep

(* Recovery: a table, and of a log that is seen entirely the cells.        *)
LEMMA RecoveredOK ==
    ASSUME NEW d, WalOK(d.wal), TableOK(d.dat), d.ckpt \in Nat
    PROVE  /\ TableOK(Recovered(d))
           /\ d.ckpt = 0 => \A id \in Ids : \A S :
                 Rep(d.wal, Winners(d), id, {Cell(d.dat, id)}, S) => Cell(Recovered(d), id) \in S
           /\ d.wal = <<>> => \A id \in Ids : Cell(Recovered(d), id) = Cell(d.dat, id)
  <1> DEFINE n == Len(d.wal)
             k == Kept(d)
  <1>1. n \in Nat /\ DOMAIN d.wal = 1..n /\ DOMAIN k = 1..n
    BY DEF WalOK, Kept
  <1>2. \A i \in 1..n : EffectOK(k[i])
    BY <1>1, ControlOK DEF WalOK, Kept
  <1>3. Recovered(d) = ApplyAll(d.dat, k)
    BY DEF Recovered, ApplyAll
  <1>4. d.ckpt = 0 => k = KeptBy(d.wal, Winners(d))
    <2> SUFFICES ASSUME d.ckpt = 0
                 PROVE  k = KeptBy(d.wal, Winners(d))
      OBVIOUS
    <2>1. \A i \in DOMAIN d.wal : d.wal[i].lsn > d.ckpt
      BY <1>1 DEF WalOK
    <2> QED
      BY <2>1 DEF Kept, KeptBy
  <1> HIDE DEF n, k
  <1>5. /\ TableOK(ApplyAll(d.dat, k))
        /\ \A id \in Ids : \A S : Lands(n, k, id, {Cell(d.dat, id)}, S)
                                     => Cell(ApplyAll(d.dat, k), id) \in S
    BY <1>1, <1>2, ApplyAllOK
  <1>6. ASSUME d.ckpt = 0, NEW id \in Ids, NEW S, Rep(d.wal, Winners(d), id, {Cell(d.dat, id)}, S)
        PROVE  Cell(Recovered(d), id) \in S
    <2>1. Lands(n, k, id, {Cell(d.dat, id)}, S)
      BY <1>4, <1>6 DEF Rep, n
    <2> QED
      BY <1>3, <1>5, <2>1
  <1>7. ASSUME d.wal = <<>>, NEW id \in Ids
        PROVE  Cell(Recovered(d), id) = Cell(d.dat, id)
    <2>1. n = 0
      BY <1>7 DEF n
    <2>2. Lands(n, k, id, {Cell(d.dat, id)}, {Cell(d.dat, id)})
      BY <2>1, LandsEmpty
    <2> QED
      BY <1>3, <1>5, <2>2
  <1> QED
    BY <1>3, <1>5, <1>6, <1>7

(* The transactions with a Commit or Abort record, and which of them win.  *)
Ends(d, txn) ==
    {i \in Seen(d) : d.wal[i].txn = txn /\ d.wal[i].op.kind \in {"Commit", "Abort"}}

LEMMA WinnerIs ==
    ASSUME NEW d, NEW txn
    PROVE  txn \in Winners(d) <=> Ends(d, txn) # {} /\ d.wal[Max(Ends(d, txn))].op.kind = "Commit"
  <1>1. Outcome(d, txn) = IF Ends(d, txn) = {} THEN "open" ELSE d.wal[Max(Ends(d, txn))].op.kind
    BY DEF Outcome, Ends
  <1>2. Ends(d, txn) # {} => txn \in {d.wal[i].txn : i \in Seen(d)}
    BY DEF Ends
  <1> QED
    BY <1>1, <1>2 DEF Winners

LEMMA SeenAll ==
    ASSUME NEW d, WalOK(d.wal), d.ckpt = 0
    PROVE  Seen(d) = 1..Len(d.wal)
  BY DEF Seen, WalOK

LEMMA MaxIn ==
    ASSUME NEW n \in Nat, NEW S \in SUBSET (1..n), S # {}
    PROVE  Max(S) \in S
  <1> DEFINE D == {n - x : x \in S}
  <1>1. \A x \in S : x \in Nat /\ n - x \in Nat
    OBVIOUS
  <1>2. D \subseteq Nat /\ D # {}
    BY <1>1
  <1>3. PICK m \in D : \A y \in D : ~(<<y, m>> \in OpToRel(<, Nat))
    <2> HIDE DEF D
    <2> QED
      BY <1>2, NatLessThanWellFounded, WFMin
  <1>4. \A y \in D : ~(y < m)
    BY <1>2, <1>3 DEF OpToRel
  <1>5. PICK x \in S : m = n - x
    BY <1>3
  <1>6. ASSUME NEW y \in S
        PROVE  x >= y
    <2>1. ~(n - y < n - x)
      BY <1>4, <1>5
    <2> QED
      BY <1>1, <2>1
  <1> QED
    BY <1>6 DEF Max

(* How the winners change with a record.                                   *)
Longer(d, e, r, n) ==
    /\ n \in Nat /\ Seen(d) = 1..n /\ Seen(e) = 1..(n + 1)
    /\ e.wal[n + 1] = r /\ \A i \in 1..n : e.wal[i] = d.wal[i]

LEMMA LogLonger ==
    ASSUME NEW d, WalOK(d.wal), d.ckpt = 0, NEW r, NEW e, WalOK(e.wal), e.ckpt = 0,
           e.wal = Append(d.wal, r)
    PROVE  \E n : Longer(d, e, r, n)
  <1>1. Len(d.wal) \in Nat /\ Len(e.wal) = Len(d.wal) + 1
    BY DEF WalOK
  <1>2. e.wal[Len(d.wal) + 1] = r /\ \A i \in 1..Len(d.wal) : e.wal[i] = d.wal[i]
    BY DEF WalOK
  <1>3. Longer(d, e, r, Len(d.wal))
    BY <1>1, <1>2, SeenAll DEF Longer
  <1> QED
    BY <1>3

LEMMA WinnerKeeps ==
    ASSUME NEW d, WalOK(d.wal), d.ckpt = 0, NEW r, NEW e, WalOK(e.wal), e.ckpt = 0,
           e.wal = Append(d.wal, r), NEW txn,
           r.op.kind \notin {"Commit", "Abort"} \/ r.txn # txn
    PROVE  txn \in Winners(e) <=> txn \in Winners(d)
  <1>0. PICK n : Longer(d, e, r, n)
    BY LogLonger
  <1>1. /\ n \in Nat /\ Seen(d) = 1..n /\ Seen(e) = 1..(n + 1)
        /\ e.wal[n + 1] = r /\ \A i \in 1..n : e.wal[i] = d.wal[i]
    BY <1>0 DEF Longer
  <1>2. Ends(e, txn) = Ends(d, txn) /\ Ends(d, txn) \in SUBSET (1..n)
    <2>1. n + 1 \notin Ends(e, txn)
      <3> SUFFICES ASSUME n + 1 \in Ends(e, txn)
                   PROVE  FALSE
        OBVIOUS
      <3>1. e.wal[n + 1].txn = txn /\ e.wal[n + 1].op.kind \in {"Commit", "Abort"}
        BY DEF Ends
      <3> QED
        BY <1>1, <3>1
    <2>2. \A i \in 1..(n + 1) : i \in 1..n \/ i = n + 1
      BY <1>1
    <2>3. ASSUME NEW i \in 1..n
          PROVE  i \in 1..(n + 1) /\ (i \in Ends(e, txn) <=> i \in Ends(d, txn))
      <3>1. n \in Nat /\ Seen(e) = 1..(n + 1) /\ Seen(d) = 1..n /\ e.wal[i] = d.wal[i]
        BY <1>1
      <3>2. i \in 1..(n + 1)
        BY <3>1
      <3>3. i \in Seen(d) /\ i \in Seen(e)
        BY <3>1, <3>2
      <3> QED
        BY <3>1, <3>2, <3>3 DEF Ends
    <2>4. Ends(d, txn) \subseteq 1..n /\ Ends(e, txn) \subseteq 1..(n + 1)
      BY <1>1 DEF Ends
    <2> QED
      BY <2>1, <2>2, <2>3, <2>4
  <1>3. ASSUME Ends(d, txn) # {}
        PROVE  e.wal[Max(Ends(d, txn))] = d.wal[Max(Ends(d, txn))]
    <2>1. Max(Ends(d, txn)) \in Ends(d, txn)
      BY <1>1, <1>2, <1>3, MaxIn
    <2> QED
      BY <1>1, <1>2, <2>1
  <1> QED
    BY <1>2, <1>3, WinnerIs

LEMMA WinnerEnds ==
    ASSUME NEW d, WalOK(d.wal), d.ckpt = 0, NEW r, NEW e, WalOK(e.wal), e.ckpt = 0,
           e.wal = Append(d.wal, r), r.op.kind \in {"Commit", "Abort"}
    PROVE  r.txn \in Winners(e) <=> r.op.kind = "Commit"
  <1>0. PICK n : Longer(d, e, r, n)
    BY LogLonger
  <1>1. n \in Nat /\ Seen(e) = 1..(n + 1) /\ e.wal[n + 1] = r
    BY <1>0 DEF Longer
  <1>2. Ends(e, r.txn) \in SUBSET (1..(n + 1)) /\ n + 1 \in Ends(e, r.txn)
    <2>1. n + 1 \in 1..(n + 1)
      BY <1>1
    <2> QED
      BY <1>1, <2>1 DEF Ends
  <1>3. Max(Ends(e, r.txn)) = n + 1
    BY <1>1, <1>2, MaxIs
  <1> QED
    BY <1>1, <1>2, <1>3, WinnerIs

LEMMA WinnersSame ==
    ASSUME NEW d, WalOK(d.wal), d.ckpt = 0, NEW r, NEW e, WalOK(e.wal), e.ckpt = 0,
           e.wal = Append(d.wal, r), r.op.kind # "Commit",
           r.op.kind = "Abort" => r.txn \notin Winners(d)
    PROVE  Winners(e) = Winners(d)
  <1>1. \A txn : (r.op.kind \notin {"Commit", "Abort"} \/ r.txn # txn)
                    => (txn \in Winners(e) <=> txn \in Winners(d))
    BY WinnerKeeps, Zenon
  <1>2. r.op.kind \in {"Commit", "Abort"} => (r.txn \in Winners(e) <=> r.op.kind = "Commit")
    BY WinnerEnds, Zenon
  <1>3. \A txn : txn \in Winners(e) <=> txn \in Winners(d)
    BY <1>1, <1>2
  <1> QED
    BY <1>3

LEMMA WinnersMore ==
    ASSUME NEW d, WalOK(d.wal), d.ckpt = 0, NEW r, NEW e, WalOK(e.wal), e.ckpt = 0,
           e.wal = Append(d.wal, r), r.op.kind = "Commit"
    PROVE  Winners(e) = Winners(d) \cup {r.txn}
  <1>1. \A txn : r.txn # txn => (txn \in Winners(e) <=> txn \in Winners(d))
    BY WinnerKeeps, Zenon
  <1>2. r.txn \in Winners(e)
    <2>1. r.op.kind \in {"Commit", "Abort"}
      OBVIOUS
    <2> QED
      BY <2>1, WinnerEnds, Zenon
  <1> QED
    BY <1>1, <1>2

-----------------------------------------------------------------------------
(* Types.                                                                  *)
Pending(s) == DOMAIN sess[s].pending

UndoIds(s) == {sess[s].undo[i].id : i \in DOMAIN sess[s].undo}

UndoOK(undo) ==
    undo \in Seq(Effects) /\ \A i \in 1..Len(undo) : EffectOK(undo[i]) /\ undo[i].id \in Ids

SessType(b) ==
    /\ DOMAIN b = DOMAIN NewSession
    /\ b.txn \in Nat /\ b.auto \in BOOLEAN /\ b.unrecorded \in BOOLEAN
    /\ UndoOK(b.undo)
    /\ \A i \in DOMAIN b.scan : i \in Ids /\ b.scan[i] \in RowType
    /\ \A i \in DOMAIN b.pending : i \in Ids /\ b.pending[i] \in 0..MaxWrites
    /\ b.auto \/ DOMAIN b.pending # {} \/ b.stmt # "none" => b.txn # 0

DbType(d) ==
    /\ DOMAIN d = DOMAIN EmptyDb
    /\ TableOK(d.mem) /\ TableOK(d.dat) /\ WalOK(d.wal)
    /\ d.ckpt \in Nat /\ d.lsn \in Nat /\ d.nextTxn \in Nat \ {0}

Damages == {"dirtyFile", "hidden", "txnReuse", "interference", "partial", "disconnect"}

CommittedOK(f) ==
    /\ f = [i \in DOMAIN f |-> f[i]]
    /\ \A i \in DOMAIN f : i \in Ids /\ f[i] \in 1..MaxWrites

TypeInv ==
    /\ DbType(db)
    /\ up => db.lsn = Len(db.wal)
    /\ db.nextTxn <= txns + 1
    /\ paged \in BOOLEAN /\ up \in BOOLEAN
    /\ DOMAIN sess = Sessions
    /\ \A s \in Sessions : SessType(sess[s]) /\ sess[s].txn < db.nextTxn
    /\ ~up => (\A s \in Sessions : sess[s] = NewSession) /\ dirty = {}
    /\ CommittedOK(committed)
    /\ dirty \subseteq Sessions /\ damage \subseteq Damages
    /\ writes \in 0..MaxWrites /\ txns \in 0..MaxTxns

LEMMA TypeInvOK == TypeInv => TypeOK
  <1> SUFFICES ASSUME TypeInv
               PROVE  TypeOK
    OBVIOUS
  <1>1. \A t \in {db.mem, db.dat} : \A i \in DOMAIN t.rows :
           i \in 1..(t.next - 1) /\ t.rows[i].val \in 1..MaxWrites /\ t.rows[i].ver \in Nat \ {0}
    BY DEF TypeInv, DbType, TableOK, RowType
  <1>2. \A i \in DOMAIN db.wal : db.wal[i].lsn \in Nat \ {0} /\ db.wal[i].txn \in 1..MaxTxns
    <2>1. db.wal \in Seq(Records) /\ \A i \in 1..Len(db.wal) : db.wal[i].lsn = i
      BY DEF TypeInv, DbType, WalOK
    <2>2. DOMAIN db.wal = 1..Len(db.wal) /\ \A i \in DOMAIN db.wal : db.wal[i] \in Records
      BY <2>1
    <2> QED
      BY <2>1, <2>2 DEF Records
  <1>3. \A s \in Sessions : sess[s].auto \/ DOMAIN sess[s].pending # {} \/ sess[s].stmt # "none"
                               => InTxn(s)
    BY DEF TypeInv, SessType, InTxn
  <1> QED
    BY <1>1, <1>2, <1>3 DEF TypeOK, TypeInv, DbType, Damages, DiskDamage, MemoryDamage

LEMMA NewSessionType ==
    /\ SessType(NewSession) /\ NewSession.txn = 0 /\ NewSession.pending = <<>>
    /\ NewSession.undo = <<>> /\ NewSession.unrecorded = FALSE /\ NewSession.scan = <<>>
    /\ DOMAIN NewSession.pending = {} /\ DOMAIN NewSession.scan = {}
  BY DEF SessType, NewSession, UndoOK

LEMMA InitType == Init => TypeInv
  <1> SUFFICES ASSUME Init
               PROVE  TypeInv
    OBVIOUS
  <1>1. DbType(db) /\ db.lsn = Len(db.wal) /\ db.nextTxn = 1
    BY EmptyTableOK DEF Init, DbType, EmptyDb, WalOK
  <1>2. \A s \in Sessions : SessType(sess[s]) /\ sess[s].txn = 0
    BY NewSessionType DEF Init
  <1>3. CommittedOK(committed)
    BY DEF Init, CommittedOK
  <1> QED
    BY <1>1, <1>2, <1>3, EngineAssumption DEF Init, TypeInv, Damages

(* The types of the next state, part by part.                              *)
LEMMA TypeNext ==
    ASSUME DbType(db'), up' => db'.lsn = Len(db'.wal), db'.nextTxn <= txns' + 1,
           paged' \in BOOLEAN, up' \in BOOLEAN, DOMAIN sess' = Sessions,
           \A s \in Sessions : SessType(sess'[s]) /\ sess'[s].txn < db'.nextTxn,
           ~up' => (\A s \in Sessions : sess'[s] = NewSession) /\ dirty' = {},
           CommittedOK(committed'), dirty' \subseteq Sessions, damage' \subseteq Damages,
           writes' \in 0..MaxWrites, txns' \in 0..MaxTxns
    PROVE  TypeInv'
  <1>1. DbType(db)' <=> DbType(db')
    BY DEF DbType, EmptyDb, EmptyTable, TableOK, WalOK, RowType, Records, EffectOK, Effects,
           DataKinds, NoRow
  <1>2. (\A s \in Sessions : SessType(sess[s]))' <=> (\A s \in Sessions : SessType(sess'[s]))
    BY DEF SessType, NewSession, UndoOK, RowType, EffectOK, Effects, DataKinds, NoRow, Ids
  <1>3. CommittedOK(committed)' <=> CommittedOK(committed')
    BY DEF CommittedOK, Ids
  <1>4. (~up => (\A s \in Sessions : sess[s] = NewSession) /\ dirty = {})'
    BY DEF NewSession
  <1> QED
    BY <1>1, <1>2, <1>3, <1>4 DEF TypeInv, Damages

-----------------------------------------------------------------------------
(* The steps, by what they do to memory, file, log and sessions.           *)
OthersSame(s) == DOMAIN sess' = Sessions /\ \A u \in Sessions : u # s => sess'[u] = sess[u]

SameWork(b, c) ==
    b.txn = c.txn /\ b.undo = c.undo /\ b.pending = c.pending /\ b.unrecorded = c.unrecorded

(* A statement starts or ends in an open transaction, or nothing happens.  *)
Quiet ==
    /\ UNCHANGED <<db, up, committed, dirty, damage>>
    /\ \A u \in Sessions :
          /\ SameWork(sess'[u], sess[u])
          /\ DOMAIN sess'[u].scan \subseteq DOMAIN sess[u].scan \cup DOMAIN db.mem.rows

Logs(txn, op) ==
    /\ db'.wal = Append(db.wal, [lsn |-> db.lsn + 1, txn |-> txn, op |-> op])
    /\ db'.lsn = db.lsn + 1 /\ db'.ckpt = db.ckpt

Begins(s) ==
    /\ up /\ up' = up /\ sess[s].txn = 0
    /\ OthersSame(s)
    /\ sess'[s].txn = db.nextTxn /\ sess'[s].undo = <<>> /\ DOMAIN sess'[s].pending = {}
    /\ sess'[s].unrecorded = FALSE /\ DOMAIN sess'[s].scan \subseteq DOMAIN db.mem.rows
    /\ Logs(db.nextTxn, Control("Begin"))
    /\ db'.mem = db.mem /\ db'.dat = db.dat /\ db'.nextTxn = db.nextTxn + 1
    /\ damage' = damage \cup Reuse(db)
    /\ UNCHANGED <<committed, dirty>>

(* The undo record of the row is made, or lost.                            *)
Lost(s) == sess'[s].undo = sess[s].undo

Recorded(s, kind, id, old) ==
    /\ Lost(s) \/ sess'[s].undo = Append(sess[s].undo, UndoOf(kind, id, old))
    /\ DOMAIN sess'[s].scan \subseteq DOMAIN sess[s].scan
    /\ sess'[s].txn = sess[s].txn

(* An undo record is made, and nothing is written.                         *)
Notes(s, id) ==
    /\ up /\ up' = up /\ sess[s].txn # 0 /\ id \in DOMAIN sess[s].scan
    /\ OthersSame(s)
    /\ \E kind \in {"Update", "Delete"} :
          /\ Recorded(s, kind, id, sess[s].scan[id])
          /\ kind = "Delete" => id \notin DOMAIN db.mem.rows
    /\ sess'[s].pending = sess[s].pending /\ sess'[s].unrecorded = sess[s].unrecorded
    /\ damage' = damage \cup Interference(s, id)
    /\ UNCHANGED <<db, committed, dirty>>

(* A row is written in memory.                                             *)
Harm(s, e) == IF e.kind = "Insert" THEN {} ELSE Interference(s, e.id)

Old(s, e) == IF e.kind = "Insert" THEN NoRow ELSE sess[s].scan[e.id]

ChangesRow(s, e) ==
    /\ up /\ up' = up /\ sess[s].txn # 0 /\ e.kind \in DataKinds /\ EffectOK(e)
    /\ IF e.kind = "Insert" THEN e.id = db.mem.next
       ELSE e.id \in DOMAIN sess[s].scan /\ e.id \in DOMAIN db.mem.rows
    /\ e.row.val = 0 <=> e.kind = "Delete"
    /\ \A i \in Ids : Cell(db'.mem, i) = IF i = e.id THEN e.row.val ELSE Cell(db.mem, i)
    /\ db'.mem.next >= db.mem.next /\ e.id < db'.mem.next
    /\ db'.nextTxn = db.nextTxn
    /\ OthersSame(s) /\ Recorded(s, e.kind, e.id, Old(s, e))
    /\ committed' = committed

(* The write is the transaction's, and goes to the log.                    *)
WritesRow(s, e) ==
    /\ ChangesRow(s, e)
    /\ sess'[s].pending = Put(sess[s].pending, e.id, e.row.val)
    /\ sess'[s].unrecorded = (sess[s].unrecorded \/ Lost(s))

PendingSessions == {u \in Sessions : Pending(u) # {}}

Appends(s, e) ==
    /\ WritesRow(s, e) /\ Logs(sess[s].txn, e)
    /\ db'.dat = IF paged THEN db'.mem ELSE db.dat
    /\ dirty' = IF paged THEN dirty \cup {s} ELSE dirty
    /\ damage' = damage \cup Harm(s, e)

Saves(s, e) ==
    /\ WritesRow(s, e)
    /\ db'.dat = db'.mem /\ db'.wal = <<>> /\ db'.lsn = 0 /\ db'.ckpt = db.lsn + 1
    /\ dirty' = IF paged THEN dirty \cup {s} ELSE PendingSessions'
    /\ damage' = damage \cup Harm(s, e) \cup Spread

(* The log has no record of the write.                                     *)
Strays(s, e) ==
    /\ ChangesRow(s, e)
    /\ sess'[s].pending = sess[s].pending /\ sess'[s].unrecorded = sess[s].unrecorded
    /\ db'.wal = db.wal /\ db'.lsn = db.lsn /\ db'.ckpt = db.ckpt
    /\ db'.dat = IF paged THEN db'.mem ELSE db.dat
    /\ dirty' = IF paged THEN dirty \cup {s} ELSE dirty
    /\ damage' = damage \cup Harm(s, e) \cup (IF paged THEN {"dirtyFile"} ELSE {"partial"})

Commits(s) ==
    /\ up /\ up' = up /\ sess[s].txn # 0
    /\ Logs(sess[s].txn, Control("Commit"))
    /\ db'.mem = db.mem /\ db'.dat = db.dat /\ db'.nextTxn = db.nextTxn
    /\ committed' = CommittedWith(sess[s].pending)
    /\ dirty' = dirty \ {s}
    /\ sess'[s] = NewSession /\ OthersSame(s)
    /\ damage' = damage

RollsBack(s) ==
    /\ up /\ up' = up /\ sess[s].txn # 0
    /\ Logs(sess[s].txn, Control("Abort"))
    /\ db'.mem = Rewound(db.mem, sess[s].undo) /\ db'.nextTxn = db.nextTxn
    /\ db'.dat = IF paged THEN db'.mem ELSE db.dat
    /\ sess'[s] = NewSession /\ OthersSame(s)
    /\ dirty' = dirty \ {s}
    /\ damage' = damage \cup (IF s \in dirty /\ (paged => sess[s].unrecorded)
                                  THEN {"dirtyFile"} ELSE {})
                        \cup (IF sess[s].unrecorded THEN {"partial"} ELSE {})
    /\ committed' = committed

Leaves(s) ==
    /\ up /\ up' = up /\ sess[s].txn # 0
    /\ sess'[s] = NewSession /\ OthersSame(s)
    /\ dirty' = dirty \ {s}
    /\ damage' = damage \cup {"disconnect"} \cup (IF s \in dirty THEN {"dirtyFile"} ELSE {})
    /\ UNCHANGED <<db, committed>>

SavesAll ==
    /\ up /\ Quiescent
    /\ db'.mem = db.mem /\ db'.dat = db.mem /\ db'.wal = <<>> /\ db'.lsn = 0
    /\ db'.ckpt = db.lsn /\ db'.nextTxn = db.nextTxn /\ db.lsn # 0
    /\ damage' = damage \cup Spread
    /\ UNCHANGED <<up, sess, committed, dirty>>

Stops ==
    /\ up /\ up' = FALSE
    /\ db'.mem = EmptyTable /\ db'.lsn = 0 /\ db'.nextTxn = 1
    /\ DOMAIN sess' = Sessions /\ \A s \in Sessions : sess'[s] = NewSession
    /\ dirty' = {} /\ committed' = committed

Dies ==
    /\ Stops /\ db'.dat = db.dat /\ db'.wal = db.wal /\ db'.ckpt = db.ckpt
    /\ damage' = damage \cup (IF dirty # {} THEN {"dirtyFile"} ELSE {})
                        \cup (IF Hidden(db) THEN {"hidden"} ELSE {})

ShutsDown ==
    /\ Stops /\ db'.dat = db.mem /\ db'.wal = <<>> /\ db'.ckpt = db.lsn
    /\ damage' = damage \cup (IF Quiescent THEN Spread ELSE {"dirtyFile"})

Opens ==
    /\ ~up /\ up' = TRUE
    /\ db'.mem = Recovered(db) /\ db'.dat = (IF paged THEN Recovered(db) ELSE db.dat)
    /\ db'.wal = db.wal /\ db'.ckpt = db.ckpt /\ db'.nextTxn = db.nextTxn
    /\ damage' = damage \ MemoryDamage
    /\ UNCHANGED <<sess, committed, dirty>>

StepKind ==
    \/ Quiet
    \/ \E s \in Sessions : Begins(s)
    \/ \E s \in Sessions : \E id \in Ids : Notes(s, id)
    \/ \E s \in Sessions : \E e \in Effects : Appends(s, e) \/ Saves(s, e) \/ Strays(s, e)
    \/ \E s \in Sessions : Commits(s) \/ RollsBack(s) \/ Leaves(s)
    \/ SavesAll \/ Dies \/ ShutsDown \/ Opens

-----------------------------------------------------------------------------
(* Every action is one of these steps, and keeps the types.                *)
LEMMA OneSession ==
    ASSUME TypeInv, NEW s \in Sessions, NEW me, sess' = [sess EXCEPT ![s] = me]
    PROVE  sess'[s] = me /\ OthersSame(s)
  BY DEF TypeInv, OthersSame

LEMMA SessTypes ==
    ASSUME TypeInv, NEW s \in Sessions, OthersSame(s), SessType(sess'[s]),
           sess'[s].txn < db'.nextTxn, db'.nextTxn \in Nat, db'.nextTxn >= db.nextTxn
    PROVE  \A u \in Sessions : SessType(sess'[u]) /\ sess'[u].txn < db'.nextTxn
  <1> SUFFICES ASSUME NEW u \in Sessions, u # s
               PROVE  SessType(sess'[u]) /\ sess'[u].txn < db'.nextTxn
    OBVIOUS
  <1>1. sess'[u] = sess[u] /\ SessType(sess[u]) /\ sess[u].txn < db.nextTxn
    BY DEF OthersSame, TypeInv
  <1>2. sess[u].txn \in Nat /\ db.nextTxn \in Nat
    BY <1>1 DEF SessType, TypeInv, DbType
  <1> QED
    BY <1>1, <1>2

LEMMA LogFields ==
    ASSUME NEW d, DOMAIN d = DOMAIN EmptyDb, NEW txn, NEW op
    PROVE  LET e == Log(d, txn, op)
           IN  /\ DOMAIN e = DOMAIN EmptyDb
               /\ e.mem = d.mem /\ e.dat = d.dat /\ e.ckpt = d.ckpt /\ e.nextTxn = d.nextTxn
               /\ e.wal = Append(d.wal, [lsn |-> d.lsn + 1, txn |-> txn, op |-> op])
               /\ e.lsn = d.lsn + 1
  <1>1. DOMAIN EmptyDb = {"mem", "dat", "wal", "ckpt", "lsn", "ops", "nextTxn"}
    BY DEF EmptyDb
  <1> QED
    BY <1>1 DEF Log

LEMMA LogType ==
    ASSUME NEW d, DbType(d), d.lsn = Len(d.wal), NEW txn \in 1..MaxTxns, NEW op, EffectOK(op)
    PROVE  DbType(Log(d, txn, op)) /\ Log(d, txn, op).lsn = Len(Log(d, txn, op).wal)
  <1>1. PICK e : e = Log(d, txn, op)
    OBVIOUS
  <1>2. PICK r : r = [lsn |-> d.lsn + 1, txn |-> txn, op |-> op]
    OBVIOUS
  <1>3. /\ DOMAIN e = DOMAIN EmptyDb
        /\ e.mem = d.mem /\ e.dat = d.dat /\ e.ckpt = d.ckpt /\ e.nextTxn = d.nextTxn
        /\ e.wal = Append(d.wal, r) /\ e.lsn = d.lsn + 1
    BY <1>1, <1>2, LogFields DEF DbType
  <1>4. r \in Records /\ r.lsn = Len(d.wal) + 1 /\ r.op = op
    BY <1>2 DEF Records, EffectOK, DbType
  <1>5. WalOK(d.wal) /\ d.lsn \in Nat
    BY DEF DbType
  <1>6. WalOK(e.wal) /\ Len(e.wal) = Len(d.wal) + 1
    BY <1>3, <1>4, <1>5, WalAppend
  <1>7. DbType(e) /\ e.lsn = Len(e.wal)
    BY <1>3, <1>5, <1>6 DEF DbType
  <1> QED
    BY <1>1, <1>7

(* BEGIN, and the implicit BEGIN of a statement.                           *)
LEMMA BeginStep ==
    ASSUME TypeInv, NEW s \in Sessions, NEW new, up, sess[s].txn = 0, BeginAs(s, new),
           DOMAIN new = DOMAIN NewSession, new.undo = <<>>, new.pending = <<>>,
           new.unrecorded = FALSE, new.auto \in BOOLEAN,
           \A i \in DOMAIN new.scan : i \in DOMAIN db.mem.rows /\ new.scan[i] = db.mem.rows[i],
           UNCHANGED <<paged, up, committed, dirty, writes>>
    PROVE  TypeInv' /\ Begins(s)
  <1>1. PICK me : me = [new EXCEPT !.txn = db.nextTxn]
    OBVIOUS
  <1>2. sess' = [sess EXCEPT ![s] = me]
    BY <1>1 DEF BeginAs
  <1>3. sess'[s] = me /\ OthersSame(s)
    BY <1>2, OneSession
  <1>4. /\ DOMAIN me = DOMAIN NewSession /\ me.txn = db.nextTxn /\ me.undo = <<>> /\ me.pending = <<>>
        /\ me.unrecorded = FALSE /\ me.auto = new.auto /\ me.scan = new.scan
    <2>1. DOMAIN NewSession = {"txn", "auto", "undo", "stmt", "scan", "pending", "unrecorded"}
      BY DEF NewSession
    <2> QED
      BY <1>1, <2>1
  <1>5. db.nextTxn \in 1..MaxTxns /\ db.lsn = Len(db.wal) /\ txns' = txns + 1
    BY EngineAssumption DEF TypeInv, DbType, BeginAs
  <1>6. PICK d : d = Log(db, db.nextTxn, Control("Begin"))
    OBVIOUS
  <1>7. /\ DOMAIN d = DOMAIN EmptyDb
        /\ d.mem = db.mem /\ d.dat = db.dat /\ d.ckpt = db.ckpt /\ d.nextTxn = db.nextTxn
        /\ d.wal = Append(db.wal, [lsn |-> db.lsn + 1, txn |-> db.nextTxn, op |-> Control("Begin")])
        /\ d.lsn = db.lsn + 1
    BY <1>6, LogFields DEF TypeInv, DbType
  <1>8. DbType(d) /\ d.lsn = Len(d.wal)
    BY <1>5, <1>6, LogType, ControlOK DEF TypeInv
  <1>9. db' = [d EXCEPT !.nextTxn = @ + 1]
    BY <1>6 DEF BeginAs, Begun
  <1>10. /\ DOMAIN db' = DOMAIN EmptyDb
         /\ db'.mem = d.mem /\ db'.dat = d.dat /\ db'.ckpt = d.ckpt /\ db'.wal = d.wal
         /\ db'.lsn = d.lsn /\ db'.nextTxn = d.nextTxn + 1
    <2>1. DOMAIN EmptyDb = {"mem", "dat", "wal", "ckpt", "lsn", "ops", "nextTxn"}
      BY DEF EmptyDb
    <2> QED
      BY <1>7, <1>9, <2>1
  <1>11. DbType(db') /\ db'.lsn = Len(db'.wal)
    BY <1>8, <1>10 DEF DbType
  <1>12. Begins(s)
    <2>1. DOMAIN me.pending = {} /\ DOMAIN me.scan \subseteq DOMAIN db.mem.rows
      BY <1>4
    <2>2. damage' = damage \cup Reuse(db)
      BY DEF BeginAs
    <2> QED
      BY <1>3, <1>4, <1>7, <1>10, <2>1, <2>2 DEF Begins, Logs
  <1>13. SessType(me)
    <2>1. \A i \in DOMAIN me.scan : i \in Ids /\ me.scan[i] \in RowType
      BY <1>4 DEF TypeInv, DbType, TableOK, Ids
    <2>2. UndoOK(me.undo) /\ DOMAIN me.pending = {}
      BY <1>4 DEF UndoOK
    <2>3. me.txn \in Nat /\ me.txn # 0
      BY <1>4, <1>5, EngineAssumption
    <2> QED
      BY <1>4, <2>1, <2>2, <2>3 DEF SessType
  <1>14. \A u \in Sessions : SessType(sess'[u]) /\ sess'[u].txn < db'.nextTxn
    <2>1. db'.nextTxn = db.nextTxn + 1 /\ db.nextTxn \in Nat
      BY <1>7, <1>10 DEF TypeInv, DbType
    <2> QED
      BY <1>3, <1>4, <1>13, <2>1, SessTypes
  <1>15. db'.nextTxn <= txns' + 1 /\ txns' \in 0..MaxTxns
    BY <1>5, <1>7, <1>10, EngineAssumption DEF TypeInv, DbType, BeginAs
  <1>16. damage' \subseteq Damages
    BY DEF BeginAs, Reuse, TypeInv, Damages
  <1>17. DOMAIN sess' = Sessions
    BY <1>3 DEF OthersSame
  <1>18. /\ paged' \in BOOLEAN /\ up' /\ up' \in BOOLEAN /\ CommittedOK(committed')
         /\ dirty' \subseteq Sessions /\ writes' \in 0..MaxWrites
    BY DEF TypeInv
  <1> QED
    BY <1>11, <1>12, <1>14, <1>15, <1>16, <1>17, <1>18, TypeNext

LEMMA BeginIs ==
    ASSUME TypeInv, NEW s \in Sessions, Begin(s), UNCHANGED paged
    PROVE  TypeInv' /\ Begins(s)
  <1>1. up /\ sess[s].txn = 0 /\ BeginAs(s, NewSession) /\ UNCHANGED <<paged, up, committed, dirty, writes>>
    BY DEF Begin, Idle, InTxn
  <1>2. NewSession.auto \in BOOLEAN
    BY DEF NewSession
  <1> QED
    BY <1>1, <1>2, BeginStep, NewSessionType

(* A step that changes the statement of one session.                       *)
LEMMA SessionFields ==
    DOMAIN NewSession = {"txn", "auto", "undo", "stmt", "scan", "pending", "unrecorded"}
  BY DEF NewSession

LEMMA QuietStep ==
    ASSUME TypeInv, NEW s \in Sessions, NEW me, sess' = [sess EXCEPT ![s] = me], up,
           DOMAIN me = DOMAIN NewSession, SameWork(me, sess[s]), me.auto = sess[s].auto,
           me.stmt = "none" \/ sess[s].txn # 0,
           DOMAIN me.scan = {} \/ me.scan = db.mem.rows,
           UNCHANGED <<paged, db, up, committed, dirty, damage, writes, txns>>
    PROVE  TypeInv' /\ Quiet
  <1>1. sess'[s] = me /\ OthersSame(s)
    BY OneSession
  <1>2. SessType(sess[s]) /\ sess[s].txn < db.nextTxn
    BY DEF TypeInv
  <1>3. SessType(me)
    <2>1. \A i \in DOMAIN me.scan : i \in Ids /\ me.scan[i] \in RowType
      BY DEF TypeInv, DbType, TableOK, Ids
    <2> QED
      BY <1>2, <2>1 DEF SessType, SameWork
  <1>4. db.nextTxn \in Nat /\ me.txn < db.nextTxn
    BY <1>2 DEF SameWork, TypeInv, DbType
  <1>5. \A u \in Sessions : SessType(sess'[u]) /\ sess'[u].txn < db'.nextTxn
    BY <1>1, <1>3, <1>4, SessTypes
  <1>6. TypeInv'
    <2>1. /\ DbType(db') /\ db'.lsn = Len(db'.wal) /\ db'.nextTxn <= txns' + 1 /\ paged' \in BOOLEAN
          /\ up' \in BOOLEAN /\ up' /\ CommittedOK(committed') /\ dirty' \subseteq Sessions
          /\ damage' \subseteq Damages /\ writes' \in 0..MaxWrites /\ txns' \in 0..MaxTxns
      BY DEF TypeInv
    <2>2. DOMAIN sess' = Sessions
      BY <1>1 DEF OthersSame
    <2> QED
      BY <1>5, <2>1, <2>2, TypeNext
  <1>7. ASSUME NEW u \in Sessions
        PROVE  /\ SameWork(sess'[u], sess[u])
               /\ DOMAIN sess'[u].scan \subseteq DOMAIN sess[u].scan \cup DOMAIN db.mem.rows
    <2>1. CASE u = s
      BY <1>1, <2>1
    <2>2. CASE u # s
      BY <1>1, <2>2 DEF OthersSame, SameWork
    <2> QED
      BY <2>1, <2>2
  <1> QED
    BY <1>6, <1>7 DEF Quiet

LEMMA EndedIs ==
    ASSUME NEW me, DOMAIN me = DOMAIN NewSession
    PROVE  LET b == Ended(me)
           IN  /\ DOMAIN b = DOMAIN NewSession /\ SameWork(b, me) /\ b.auto = me.auto
               /\ b.stmt = "none" /\ DOMAIN b.scan = {}
  <1>1. PICK b : b = Ended(me)
    OBVIOUS
  <1>2. b.scan = <<>> /\ b.stmt = "none" /\ b.auto = me.auto /\ DOMAIN b = DOMAIN NewSession
    BY <1>1, SessionFields DEF Ended
  <1>3. SameWork(b, me)
    BY <1>1, SessionFields DEF Ended, SameWork
  <1> QED
    BY <1>1, <1>2, <1>3

(* EndStatement in an explicit transaction, and FailStatement.             *)
LEMMA EndIs ==
    ASSUME TypeInv, NEW s \in Sessions, up, sess' = [sess EXCEPT ![s] = Ended(@)],
           UNCHANGED <<paged, db, up, committed, dirty, damage, writes, txns>>
    PROVE  TypeInv' /\ Quiet
  <1>1. PICK b : b = Ended(sess[s])
    OBVIOUS
  <1>2. DOMAIN sess[s] = DOMAIN NewSession
    BY DEF TypeInv, SessType
  <1>3. /\ DOMAIN b = DOMAIN NewSession /\ SameWork(b, sess[s]) /\ b.auto = sess[s].auto
        /\ b.stmt = "none" /\ DOMAIN b.scan = {}
    BY <1>1, <1>2, EndedIs
  <1>4. sess' = [sess EXCEPT ![s] = b]
    BY <1>1
  <1> QED
    BY <1>3, <1>4, QuietStep

LEMMA StartIs ==
    ASSUME TypeInv, NEW s \in Sessions, NEW kind \in DataKinds, StartStatement(s, kind),
           UNCHANGED paged
    PROVE  TypeInv' /\ (Quiet \/ Begins(s))
  <1>1. PICK scan : scan = IF kind = "Insert" THEN <<>> ELSE db.mem.rows
    OBVIOUS
  <1>2. up /\ UNCHANGED <<paged, up, committed, dirty, writes>>
    BY DEF StartStatement, Idle
  <1>3. DOMAIN scan = {} \/ scan = db.mem.rows
    BY <1>1
  <1>4. CASE InTxn(s)
    <2>1. PICK me : me = [sess[s] EXCEPT !.stmt = kind, !.scan = scan]
      OBVIOUS
    <2>2. sess' = [sess EXCEPT ![s] = me] /\ UNCHANGED <<db, damage, txns>>
      BY <1>1, <1>4, <2>1 DEF StartStatement
    <2>3. DOMAIN sess[s] = DOMAIN NewSession
      BY DEF TypeInv, SessType
    <2>4. DOMAIN me = DOMAIN NewSession /\ SameWork(me, sess[s]) /\ me.auto = sess[s].auto
      BY <2>1, <2>3, SessionFields DEF SameWork
    <2>5. me.scan = scan
      BY <2>1, <2>3, SessionFields
    <2>6. sess[s].txn # 0
      BY <1>4 DEF InTxn
    <2> QED
      BY <1>2, <1>3, <2>2, <2>4, <2>5, <2>6, QuietStep
  <1>5. CASE ~InTxn(s)
    <2>1. PICK new : new = [[NewSession EXCEPT !.stmt = kind, !.scan = scan] EXCEPT !.auto = TRUE]
      OBVIOUS
    <2>2. BeginAs(s, new)
      BY <1>1, <1>5, <2>1 DEF StartStatement
    <2>3. /\ DOMAIN new = DOMAIN NewSession /\ new.undo = <<>> /\ new.pending = <<>>
          /\ new.unrecorded = FALSE /\ new.auto = TRUE /\ new.scan = scan
      BY <2>1 DEF NewSession
    <2>4. sess[s].txn = 0
      BY <1>5 DEF InTxn
    <2>5. \A i \in DOMAIN new.scan : i \in DOMAIN db.mem.rows /\ new.scan[i] = db.mem.rows[i]
      BY <1>3, <2>3
    <2>6. new.auto \in BOOLEAN
      BY <2>3
    <2> QED
      BY <1>2, <2>2, <2>3, <2>4, <2>5, <2>6, BeginStep
  <1> QED
    BY <1>4, <1>5

LEMMA UndoOfIs ==
    ASSUME NEW kind \in DataKinds, NEW id \in Ids, NEW old, kind = "Insert" => old = NoRow,
           kind # "Insert" => old \in RowType
    PROVE  /\ EffectOK(UndoOf(kind, id, old)) /\ UndoOf(kind, id, old).id = id
           /\ UndoOf(kind, id, old).kind = CASE kind = "Insert" -> "Delete" [] kind = "Update" -> "Update"
                                             [] kind = "Delete" -> "Insert"
           /\ UndoOf(kind, id, old).row = old
  BY DEF UndoOf, EffectOK, Effects, DataKinds, Ids

LEMMA UndoMore ==
    ASSUME NEW undo, UndoOK(undo), NEW e, EffectOK(e), e.id \in Ids
    PROVE  UndoOK(Append(undo, e))
  <1>1. e \in Effects
    BY DEF EffectOK
  <1> QED
    BY <1>1 DEF UndoOK

LEMMA RowDoneIs ==
    ASSUME NEW me, SessType(me), NEW id, NEW e, EffectOK(e), e.id \in Ids
    PROVE  LET b == RowDone(me, id, e)
           IN  /\ SessType(b) /\ b.txn = me.txn /\ b.auto = me.auto /\ b.pending = me.pending
               /\ b.unrecorded = me.unrecorded
               /\ b.undo = (IF me.auto THEN me.undo ELSE Append(me.undo, e))
               /\ DOMAIN b.scan \subseteq DOMAIN me.scan
  <1>1. PICK b : b = RowDone(me, id, e)
    OBVIOUS
  <1>2. DOMAIN me = DOMAIN NewSession
    BY DEF SessType
  <1>3. /\ DOMAIN b = DOMAIN NewSession /\ b.txn = me.txn /\ b.auto = me.auto /\ b.pending = me.pending
        /\ b.unrecorded = me.unrecorded /\ b.stmt = me.stmt
    BY <1>1, <1>2, SessionFields DEF RowDone
  <1>4. b.undo = (IF me.auto THEN me.undo ELSE Append(me.undo, e)) /\ b.scan = Without(me.scan, id)
    BY <1>1, <1>2, SessionFields DEF RowDone
  <1>5. DOMAIN b.scan \subseteq DOMAIN me.scan /\ \A i \in DOMAIN b.scan : b.scan[i] = me.scan[i]
    BY <1>4 DEF Without, Restrict
  <1>6. UndoOK(b.undo)
    BY <1>4, UndoMore DEF SessType
  <1>7. SessType(b)
    BY <1>3, <1>5, <1>6 DEF SessType
  <1> QED
    BY <1>1, <1>3, <1>4, <1>5, <1>7

LEMMA EndedType ==
    ASSUME NEW me, SessType(me)
    PROVE  SessType(Ended(me))
  <1>1. PICK b : b = Ended(me)
    OBVIOUS
  <1>2. /\ DOMAIN b = DOMAIN NewSession /\ SameWork(b, me) /\ b.auto = me.auto
        /\ b.stmt = "none" /\ DOMAIN b.scan = {}
    BY <1>1, EndedIs DEF SessType
  <1>3. SessType(b)
    BY <1>2 DEF SessType, SameWork
  <1> QED
    BY <1>1, <1>3

LEMMA InterferenceIs ==
    ASSUME NEW s, NEW id
    PROVE  Interference(s, id) \in {{}, {"interference"}}
  BY DEF Interference

(* The row is not written.                                                 *)
LEMMA UnwrittenIs ==
    ASSUME TypeInv, NEW s \in Sessions, NEW id \in DOMAIN sess[s].scan, up, sess[s].stmt # "none",
           NEW kind \in {"Update", "Delete"}, kind = "Delete" => id \notin DOMAIN db.mem.rows,
           NEW me, \/ me = RowDone(sess[s], id, UndoOf(kind, id, sess[s].scan[id]))
                   \/ me = Ended(RowDone(sess[s], id, UndoOf(kind, id, sess[s].scan[id]))),
           Unwritten(s, me, Interference(s, id)), UNCHANGED <<paged, up, committed, txns>>
    PROVE  TypeInv' /\ id \in Ids /\ Notes(s, id)
  <1>1. PICK e : e = UndoOf(kind, id, sess[s].scan[id])
    OBVIOUS
  <1>2. /\ SessType(sess[s]) /\ id \in Ids /\ sess[s].scan[id] \in RowType
        /\ sess[s].txn < db.nextTxn /\ sess[s].txn # 0
    BY DEF TypeInv, SessType
  <1>3. EffectOK(e) /\ e.id = id
    BY <1>1, <1>2, UndoOfIs DEF DataKinds
  <1>4. PICK b : b = RowDone(sess[s], id, e)
    OBVIOUS
  <1>5. /\ SessType(b) /\ b.txn = sess[s].txn /\ b.auto = sess[s].auto /\ b.pending = sess[s].pending
        /\ b.unrecorded = sess[s].unrecorded
        /\ b.undo = (IF sess[s].auto THEN sess[s].undo ELSE Append(sess[s].undo, e))
        /\ DOMAIN b.scan \subseteq DOMAIN sess[s].scan
    BY <1>2, <1>3, <1>4, RowDoneIs
  <1>6. me = b \/ me = Ended(b)
    BY <1>1, <1>4
  <1>7. SessType(me) /\ SameWork(me, b) /\ DOMAIN me.scan \subseteq DOMAIN sess[s].scan
    <2>1. CASE me = b
      BY <1>5, <2>1 DEF SameWork
    <2>2. CASE me = Ended(b)
      BY <1>5, <2>2, EndedType, EndedIs DEF SessType
    <2> QED
      BY <1>6, <2>1, <2>2
  <1>8. sess' = [sess EXCEPT ![s] = me] /\ damage' = damage \cup Interference(s, id) /\ UNCHANGED <<db, dirty, writes>>
    BY DEF Unwritten
  <1>9. sess'[s] = me /\ OthersSame(s)
    BY <1>8, OneSession
  <1>10. Notes(s, id)
    <2>1. Recorded(s, kind, id, sess[s].scan[id])
      BY <1>1, <1>5, <1>7, <1>9 DEF Recorded, Lost, SameWork
    <2>2. sess'[s].pending = sess[s].pending /\ sess'[s].unrecorded = sess[s].unrecorded
      BY <1>5, <1>7, <1>9 DEF SameWork
    <2> QED
      BY <1>2, <1>8, <1>9, <2>1, <2>2 DEF Notes
  <1>11. \A u \in Sessions : SessType(sess'[u]) /\ sess'[u].txn < db'.nextTxn
    <2>1. db'.nextTxn = db.nextTxn /\ db.nextTxn \in Nat
      BY <1>8 DEF TypeInv, DbType
    <2>2. sess'[s].txn = sess[s].txn
      BY <1>5, <1>7, <1>9 DEF SameWork
    <2> QED
      BY <1>2, <1>7, <1>9, <2>1, <2>2, SessTypes
  <1>12. TypeInv'
    <2>1. /\ DbType(db') /\ db'.lsn = Len(db'.wal) /\ db'.nextTxn <= txns' + 1 /\ paged' \in BOOLEAN
          /\ up' \in BOOLEAN /\ up' /\ CommittedOK(committed') /\ dirty' \subseteq Sessions
          /\ writes' \in 0..MaxWrites /\ txns' \in 0..MaxTxns
      BY <1>8 DEF TypeInv
    <2>2. damage' \subseteq Damages
      BY <1>8, InterferenceIs DEF TypeInv, Damages
    <2>3. DOMAIN sess' = Sessions
      BY <1>9 DEF OthersSame
    <2> QED
      BY <1>11, <2>1, <2>2, <2>3, TypeNext
  <1> QED
    BY <1>2, <1>10, <1>12

(* The session that a write leaves, but for the history.                   *)
Noted(s, e, me) ==
    /\ SessType(me) /\ me.txn = sess[s].txn /\ me.pending = sess[s].pending
    /\ DOMAIN me.scan \subseteq DOMAIN sess[s].scan
    /\ \/ me.undo = sess[s].undo /\ (me.auto = TRUE \/ me.unrecorded = TRUE)
       \/ /\ me.undo = Append(sess[s].undo, UndoOf(e.kind, e.id, Old(s, e)))
          /\ me.auto = FALSE /\ me.unrecorded = sess[s].unrecorded

LEMMA NotedRow ==
    ASSUME TypeInv, NEW s \in Sessions, NEW e, e.kind \in DataKinds, e.id \in Ids,
           e.kind # "Insert" => e.id \in DOMAIN sess[s].scan,
           NEW b, b = RowDone(sess[s], e.id, UndoOf(e.kind, e.id, Old(s, e)))
    PROVE  /\ Noted(s, e, b) /\ Noted(s, e, Ended(b))
           /\ b.unrecorded = sess[s].unrecorded
  <1>1. SessType(sess[s])
    BY DEF TypeInv
  <1>2. (e.kind = "Insert" => Old(s, e) = NoRow) /\ (e.kind # "Insert" => Old(s, e) \in RowType)
    BY <1>1 DEF Old, SessType
  <1>3. EffectOK(UndoOf(e.kind, e.id, Old(s, e))) /\ UndoOf(e.kind, e.id, Old(s, e)).id = e.id
    BY <1>2, UndoOfIs
  <1>4. /\ SessType(b) /\ b.txn = sess[s].txn /\ b.auto = sess[s].auto /\ b.pending = sess[s].pending
        /\ b.unrecorded = sess[s].unrecorded
        /\ b.undo = (IF sess[s].auto THEN sess[s].undo
                     ELSE Append(sess[s].undo, UndoOf(e.kind, e.id, Old(s, e))))
        /\ DOMAIN b.scan \subseteq DOMAIN sess[s].scan
    BY <1>1, <1>3, RowDoneIs
  <1>5. sess[s].auto \in BOOLEAN
    BY <1>1 DEF SessType
  <1>6. Noted(s, e, b)
    BY <1>4, <1>5 DEF Noted
  <1>7. PICK c : c = Ended(b)
    OBVIOUS
  <1>8. SessType(c) /\ SameWork(c, b) /\ c.auto = b.auto /\ DOMAIN c.scan = {}
    BY <1>4, <1>7, EndedType, EndedIs DEF SessType
  <1>9. Noted(s, e, c)
    BY <1>6, <1>8 DEF Noted, SameWork
  <1> QED
    BY <1>4, <1>6, <1>7, <1>9

(* The row is written, and the log has it.                                 *)
LEMMA WriteIs ==
    ASSUME TypeInv, NEW s \in Sessions, NEW e, EffectOK(e), e.kind \in DataKinds, up,
           sess[s].stmt # "none",
           IF e.kind = "Insert" THEN e.id = db.mem.next
           ELSE e.id \in DOMAIN sess[s].scan /\ e.id \in DOMAIN db.mem.rows,
           e.row.val = 0 <=> e.kind = "Delete",
           NEW mem, TableOK(mem), mem.next >= db.mem.next, e.id < mem.next,
           \A i \in Ids : Cell(mem, i) = IF i = e.id THEN e.row.val ELSE Cell(db.mem, i),
           NEW me, Noted(s, e, me), NEW fails \in BOOLEAN, Write(s, e, mem, me, Harm(s, e), fails),
           UNCHANGED <<paged, up, committed, txns>>
    PROVE  TypeInv' /\ (Appends(s, e) \/ Saves(s, e))
  <1>2. SessType(sess[s]) /\ sess[s].txn < db.nextTxn /\ e.id \in Ids
    BY DEF TypeInv, EffectOK, Effects, Ids
  <1>5. /\ SessType(me) /\ me.txn = sess[s].txn /\ me.pending = sess[s].pending
        /\ DOMAIN me.scan \subseteq DOMAIN sess[s].scan
    BY DEF Noted
  <1>6. PICK me2 : me2 = [me EXCEPT !.pending = Put(@, e.id, e.row.val), !.unrecorded = @ \/ me.auto]
    OBVIOUS
  <1>7. /\ DOMAIN me2 = DOMAIN NewSession /\ me2.txn = me.txn /\ me2.auto = me.auto
        /\ me2.undo = me.undo /\ me2.scan = me.scan /\ me2.stmt = me.stmt
    BY <1>5, <1>6, SessionFields DEF SessType
  <1>8. me2.pending = Put(me.pending, e.id, e.row.val)
    BY <1>5, <1>6, SessionFields DEF SessType
  <1>9. me2.unrecorded = (me.unrecorded \/ me.auto)
    BY <1>5, <1>6, SessionFields DEF SessType
  <1>10. sess[s].txn # 0
    BY <1>2 DEF SessType
  <1>11. e.row.val \in 0..MaxWrites
    BY EngineAssumption DEF EffectOK, Effects, RowType, NoRow
  <1>12. SessType(me2)
    <2>1. \A i \in DOMAIN me2.pending : i \in Ids /\ me2.pending[i] \in 0..MaxWrites
      BY <1>2, <1>5, <1>8, <1>11 DEF Put, SessType
    <2>2. me2.unrecorded \in BOOLEAN
      BY <1>5, <1>9 DEF SessType
    <2> QED
      BY <1>5, <1>7, <1>10, <2>1, <2>2 DEF SessType
  <1>13. PICK d0 : d0 = [db EXCEPT !.mem = mem]
    OBVIOUS
  <1>14. PICK d1 : d1 = IF paged THEN [d0 EXCEPT !.dat = d0.mem] ELSE d0
    OBVIOUS
  <1>15. PICK d : d = Log(d1, me.txn, e)
    OBVIOUS
  <1>15a. PICK saves : saves = (CheckpointDue(d) /\ ~fails)
    OBVIOUS
  <1>16. /\ d = Log(Filed([db EXCEPT !.mem = mem]), me.txn, e)
         /\ sess' = [sess EXCEPT ![s] = me2]
         /\ db' = IF saves THEN Checkpointed(d) ELSE d
         /\ dirty' = IF paged THEN dirty \cup {s}
                     ELSE IF saves THEN {u \in Sessions : DOMAIN sess'[u].pending # {}} ELSE dirty
         /\ damage' = damage \cup Harm(s, e) \cup (IF saves THEN Spread ELSE {})
         /\ writes < MaxWrites /\ writes' = writes + 1
    <2>1. d = Log(Filed([db EXCEPT !.mem = mem]), me.txn, e)
      BY <1>13, <1>14, <1>15 DEF Filed
    <2> QED
      BY <1>6, <1>15a, <2>1 DEF Write
  <1>17. DOMAIN EmptyDb = {"mem", "dat", "wal", "ckpt", "lsn", "ops", "nextTxn"}
    BY DEF EmptyDb
  <1>18. /\ DOMAIN d1 = DOMAIN EmptyDb /\ d1.mem = mem /\ d1.dat = (IF paged THEN mem ELSE db.dat)
         /\ d1.wal = db.wal /\ d1.ckpt = db.ckpt /\ d1.lsn = db.lsn /\ d1.nextTxn = db.nextTxn
    BY <1>13, <1>14, <1>17 DEF TypeInv, DbType
  <1>19. DbType(d1) /\ d1.lsn = Len(d1.wal)
    BY <1>18 DEF TypeInv, DbType
  <1>20. me.txn \in 1..MaxTxns
    BY <1>2, <1>5, <1>10, EngineAssumption DEF TypeInv, SessType, DbType
  <1>21. DbType(d) /\ d.lsn = Len(d.wal)
    BY <1>15, <1>19, <1>20, LogType
  <1>22. /\ DOMAIN d = DOMAIN EmptyDb /\ d.mem = mem /\ d.dat = d1.dat
         /\ d.wal = Append(db.wal, [lsn |-> db.lsn + 1, txn |-> me.txn, op |-> e])
         /\ d.ckpt = db.ckpt /\ d.lsn = db.lsn + 1 /\ d.nextTxn = db.nextTxn
    BY <1>15, <1>18, LogFields
  <1>23. sess'[s] = me2 /\ OthersSame(s) /\ DOMAIN sess' = Sessions
    BY <1>16, OneSession DEF OthersSame
  <1>24. {u \in Sessions : DOMAIN sess'[u].pending # {}} = PendingSessions'
    BY DEF PendingSessions, Pending
  <1>25. /\ Recorded(s, e.kind, e.id, Old(s, e))
         /\ sess'[s].unrecorded = (sess[s].unrecorded \/ Lost(s))
    <2>1. me.auto \in BOOLEAN /\ me.unrecorded \in BOOLEAN /\ sess[s].unrecorded \in BOOLEAN
      BY <1>2, <1>5 DEF SessType
    <2>2. CASE me.undo = sess[s].undo /\ (me.auto = TRUE \/ me.unrecorded = TRUE)
      <3>1. sess'[s].undo = sess[s].undo /\ sess'[s].unrecorded = TRUE
        BY <1>7, <1>9, <1>23, <2>1, <2>2
      <3> QED
        BY <1>5, <1>7, <1>23, <3>1 DEF Recorded, Lost
    <2>3. CASE /\ me.undo = Append(sess[s].undo, UndoOf(e.kind, e.id, Old(s, e)))
               /\ me.auto = FALSE /\ me.unrecorded = sess[s].unrecorded
      <3>1. /\ sess'[s].undo = Append(sess[s].undo, UndoOf(e.kind, e.id, Old(s, e)))
            /\ sess'[s].unrecorded = sess[s].unrecorded
        BY <1>7, <1>9, <1>23, <2>1, <2>3
      <3>2. PICK undo, x : undo = sess[s].undo /\ x = UndoOf(e.kind, e.id, Old(s, e))
        OBVIOUS
      <3>3. undo \in Seq(Effects)
        BY <1>2, <3>2 DEF SessType, UndoOK
      <3>4. Len(Append(undo, x)) = Len(undo) + 1 /\ Len(undo) \in Nat
        BY <3>3
      <3>5. Append(undo, x) # undo
        BY <3>4
      <3>6. ~Lost(s)
        BY <3>1, <3>2, <3>5 DEF Lost
      <3> QED
        <4>1. Recorded(s, e.kind, e.id, Old(s, e))
          BY <1>5, <1>7, <1>23, <3>1 DEF Recorded
        <4> QED
          BY <2>1, <3>1, <3>6, <4>1
    <2> QED
      BY <2>2, <2>3 DEF Noted
  <1>26. ASSUME db'.mem = mem, db'.nextTxn = db.nextTxn
         PROVE  WritesRow(s, e)
    <2>1. sess'[s].pending = Put(sess[s].pending, e.id, e.row.val)
      BY <1>5, <1>8, <1>23
    <2> QED
      BY <1>10, <1>23, <1>25, <1>26, <2>1 DEF WritesRow, ChangesRow
  <1>27. ASSUME DbType(db'), db'.lsn = Len(db'.wal), db'.nextTxn = db.nextTxn
         PROVE  TypeInv'
    <2>1. \A u \in Sessions : SessType(sess'[u]) /\ sess'[u].txn < db'.nextTxn
      <3>1. db.nextTxn \in Nat
        BY DEF TypeInv, DbType
      <3> QED
        BY <1>2, <1>5, <1>7, <1>12, <1>23, <1>27, <3>1, SessTypes
    <2>2. /\ paged' \in BOOLEAN /\ up' \in BOOLEAN /\ up' /\ CommittedOK(committed')
          /\ txns' \in 0..MaxTxns /\ db'.nextTxn <= txns' + 1
      BY <1>27 DEF TypeInv
    <2>3. dirty' \subseteq Sessions
      BY <1>16 DEF TypeInv
    <2>4. damage' \subseteq Damages
      <3>1. Harm(s, e) \in {{}, {"interference"}}
        BY InterferenceIs DEF Harm
      <3> QED
        BY <1>16, <3>1 DEF TypeInv, Damages, Spread
    <2>5. writes' \in 0..MaxWrites
      BY <1>16, EngineAssumption DEF TypeInv
    <2> QED
      BY <1>23, <1>27, <2>1, <2>2, <2>3, <2>4, <2>5, TypeNext
  <1>28. CASE ~saves
    <2>1. db' = d
      BY <1>16, <1>28
    <2>2. WritesRow(s, e) /\ TypeInv'
      BY <1>21, <1>22, <1>26, <1>27, <2>1
    <2>3. Logs(sess[s].txn, e)
      BY <1>5, <1>22, <2>1 DEF Logs
    <2>4. db'.dat = IF paged THEN db'.mem ELSE db.dat
      BY <1>18, <1>22, <2>1
    <2>5. dirty' = IF paged THEN dirty \cup {s} ELSE dirty
      BY <1>16, <1>28
    <2>6. damage' = damage \cup Harm(s, e)
      BY <1>16, <1>28
    <2> QED
      BY <2>2, <2>3, <2>4, <2>5, <2>6 DEF Appends
  <1>29. CASE saves
    <2>1. db' = [d EXCEPT !.dat = d.mem, !.ckpt = d.lsn, !.wal = <<>>, !.lsn = 0, !.ops = 0]
      BY <1>16, <1>29 DEF Checkpointed
    <2>2. /\ DOMAIN db' = DOMAIN EmptyDb /\ db'.mem = mem /\ db'.dat = mem /\ db'.wal = <<>>
          /\ db'.lsn = 0 /\ db'.ckpt = db.lsn + 1 /\ db'.nextTxn = db.nextTxn
      BY <1>17, <1>22, <2>1
    <2>3. DbType(db') /\ db'.lsn = Len(db'.wal)
      <3>1. WalOK(<<>>)
        BY DEF WalOK
      <3> QED
        BY <1>21, <1>22, <2>2, <3>1 DEF DbType
    <2>4. WritesRow(s, e) /\ TypeInv'
      BY <1>26, <1>27, <2>2, <2>3
    <2>5. /\ dirty' = IF paged THEN dirty \cup {s} ELSE PendingSessions'
          /\ damage' = damage \cup Harm(s, e) \cup Spread
      BY <1>16, <1>24, <1>29
    <2> QED
      BY <2>2, <2>4, <2>5 DEF Saves
  <1> QED
    BY <1>28, <1>29

(* The row is written in memory, and the log takes no record of it.        *)
LEMMA UnloggedIs ==
    ASSUME TypeInv, NEW s \in Sessions, NEW e, EffectOK(e), e.kind \in DataKinds, up,
           sess[s].stmt # "none",
           IF e.kind = "Insert" THEN e.id = db.mem.next
           ELSE e.id \in DOMAIN sess[s].scan /\ e.id \in DOMAIN db.mem.rows,
           e.row.val = 0 <=> e.kind = "Delete",
           NEW mem, TableOK(mem), mem.next >= db.mem.next, e.id < mem.next,
           \A i \in Ids : Cell(mem, i) = IF i = e.id THEN e.row.val ELSE Cell(db.mem, i),
           NEW me, me = sess[s] \/ (Noted(s, e, me) /\ me.unrecorded = sess[s].unrecorded),
           Unlogged(s, mem, me, Harm(s, e)), UNCHANGED <<paged, up, committed, txns>>
    PROVE  TypeInv' /\ Strays(s, e)
  <1>1. SessType(sess[s]) /\ sess[s].txn < db.nextTxn /\ sess[s].txn # 0
    BY DEF TypeInv, SessType
  <1>2. /\ SessType(me) /\ me.txn = sess[s].txn /\ me.pending = sess[s].pending
        /\ me.unrecorded = sess[s].unrecorded
        /\ me.undo = sess[s].undo \/ me.undo = Append(sess[s].undo, UndoOf(e.kind, e.id, Old(s, e)))
    BY <1>1 DEF Noted
  <1>3. PICK b : b = Ended(me)
    OBVIOUS
  <1>4. SessType(b) /\ SameWork(b, me) /\ DOMAIN b.scan = {}
    BY <1>2, <1>3, EndedType, EndedIs DEF SessType
  <1>5. PICK d0 : d0 = [db EXCEPT !.mem = mem]
    OBVIOUS
  <1>6. /\ sess' = [sess EXCEPT ![s] = b] /\ db' = (IF paged THEN [d0 EXCEPT !.dat = d0.mem] ELSE d0)
        /\ dirty' = (IF paged THEN dirty \cup {s} ELSE dirty)
        /\ damage' = damage \cup Harm(s, e) \cup (IF paged THEN {"dirtyFile"} ELSE {"partial"})
        /\ writes < MaxWrites /\ writes' = writes + 1
    BY <1>3, <1>5 DEF Unlogged, Filed
  <1>7. DOMAIN EmptyDb = {"mem", "dat", "wal", "ckpt", "lsn", "ops", "nextTxn"}
    BY DEF EmptyDb
  <1>8. /\ DOMAIN db' = DOMAIN EmptyDb /\ db'.mem = mem /\ db'.dat = (IF paged THEN mem ELSE db.dat)
        /\ db'.wal = db.wal /\ db'.ckpt = db.ckpt /\ db'.lsn = db.lsn /\ db'.nextTxn = db.nextTxn
    BY <1>5, <1>6, <1>7 DEF TypeInv, DbType
  <1>9. DbType(db') /\ db'.lsn = Len(db'.wal)
    BY <1>8 DEF TypeInv, DbType
  <1>10. sess'[s] = b /\ OthersSame(s) /\ DOMAIN sess' = Sessions
    BY <1>6, OneSession DEF OthersSame
  <1>11. Recorded(s, e.kind, e.id, Old(s, e))
    BY <1>2, <1>4, <1>10 DEF Recorded, Lost, SameWork
  <1>12. ChangesRow(s, e)
    BY <1>1, <1>8, <1>10, <1>11 DEF ChangesRow
  <1>13. sess'[s].pending = sess[s].pending /\ sess'[s].unrecorded = sess[s].unrecorded
    BY <1>2, <1>4, <1>10 DEF SameWork
  <1>14. Strays(s, e)
    BY <1>6, <1>8, <1>12, <1>13 DEF Strays
  <1>15. \A u \in Sessions : SessType(sess'[u]) /\ sess'[u].txn < db'.nextTxn
    <2>1. db'.nextTxn = db.nextTxn /\ db.nextTxn \in Nat
      BY <1>8 DEF TypeInv, DbType
    <2>2. sess'[s].txn = sess[s].txn
      BY <1>2, <1>4, <1>10 DEF SameWork
    <2> QED
      BY <1>1, <1>4, <1>10, <2>1, <2>2, SessTypes
  <1>16. /\ paged' \in BOOLEAN /\ up' \in BOOLEAN /\ up' /\ CommittedOK(committed')
         /\ txns' \in 0..MaxTxns /\ db'.nextTxn <= txns' + 1 /\ dirty' \subseteq Sessions
    BY <1>6, <1>8 DEF TypeInv
  <1>17. damage' \subseteq Damages
    <2>1. Harm(s, e) \in {{}, {"interference"}}
      BY InterferenceIs DEF Harm
    <2> QED
      BY <1>6, <2>1 DEF TypeInv, Damages
  <1>18. writes' \in 0..MaxWrites
    BY <1>6, EngineAssumption DEF TypeInv
  <1> QED
    BY <1>9, <1>10, <1>14, <1>15, <1>16, <1>17, <1>18, TypeNext

(* Whatever part of a row's write fails.                                   *)
LEMMA RewriteIs ==
    ASSUME TypeInv, NEW s \in Sessions, NEW e, EffectOK(e), e.kind \in {"Update", "Delete"}, up,
           sess[s].stmt # "none", e.id \in DOMAIN sess[s].scan, e.id \in DOMAIN db.mem.rows,
           e.row.val = 0 <=> e.kind = "Delete",
           NEW mem, TableOK(mem), mem.next >= db.mem.next, e.id < mem.next,
           \A i \in Ids : Cell(mem, i) = IF i = e.id THEN e.row.val ELSE Cell(db.mem, i),
           Rewrite(s, e, mem, RowDone(sess[s], e.id, UndoOf(e.kind, e.id, sess[s].scan[e.id])),
                   Interference(s, e.id)),
           UNCHANGED <<paged, up, committed, txns>>
    PROVE  TypeInv' /\ \E f \in Effects : Appends(s, f) \/ Saves(s, f) \/ Strays(s, f)
  <1>1. /\ Old(s, e) = sess[s].scan[e.id] /\ Harm(s, e) = Interference(s, e.id)
        /\ e.kind \in DataKinds /\ e.kind # "Insert" /\ e \in Effects /\ e.id \in Ids
    BY DEF Old, Harm, DataKinds, EffectOK, TypeInv, SessType
  <1>2. PICK b : b = RowDone(sess[s], e.id, UndoOf(e.kind, e.id, Old(s, e)))
    OBVIOUS
  <1>3. Noted(s, e, b) /\ Noted(s, e, Ended(b)) /\ b.unrecorded = sess[s].unrecorded
    BY <1>1, <1>2, NotedRow
  <1>4. \/ Write(s, e, mem, b, Harm(s, e), FALSE)
        \/ Write(s, e, mem, Ended(b), Harm(s, e), TRUE)
        \/ Unlogged(s, mem, b, Harm(s, e))
    BY <1>1, <1>2 DEF Rewrite
  <1>5. ASSUME NEW me, Noted(s, e, me), NEW fails \in BOOLEAN, Write(s, e, mem, me, Harm(s, e), fails)
        PROVE  TypeInv' /\ (Appends(s, e) \/ Saves(s, e))
    BY <1>1, <1>5, WriteIs
  <1>6. ASSUME Unlogged(s, mem, b, Harm(s, e))
        PROVE  TypeInv' /\ Strays(s, e)
    BY <1>1, <1>3, <1>6, UnloggedIs
  <1> QED
    BY <1>1, <1>3, <1>4, <1>5, <1>6

(* The row that an INSERT stores.                                          *)
LEMMA InsertedIs ==
    ASSUME TypeInv, writes < MaxWrites, NEW e, e = InsertOf, NEW mem, mem = Inserted, NEW s
    PROVE  /\ EffectOK(e) /\ e \in Effects /\ e.kind = "Insert" /\ e.kind \in DataKinds
           /\ e.id = db.mem.next /\ e.id \in Ids /\ (e.row.val = 0 <=> e.kind = "Delete")
           /\ TableOK(mem) /\ mem.next >= db.mem.next /\ e.id < mem.next
           /\ \A i \in Ids : Cell(mem, i) = IF i = e.id THEN e.row.val ELSE Cell(db.mem, i)
           /\ Old(s, e) = NoRow /\ Harm(s, e) = {}
  <1>1. PICK row : row = [val |-> writes + 1, ver |-> 1]
    OBVIOUS
  <1>2. PICK id : id = db.mem.next
    OBVIOUS
  <1>3. e = [kind |-> "Insert", id |-> id, row |-> row]
    BY <1>1, <1>2 DEF InsertOf, NewRow
  <1>4. mem = [rows |-> Put(db.mem.rows, id, row), next |-> id + 1]
    BY <1>1, <1>2 DEF Inserted, NewRow
  <1>7. row \in RowType /\ id \in Ids /\ row.val # 0
    BY <1>1, <1>2, EngineAssumption DEF RowType, Ids, TypeInv, DbType, TableOK
  <1>8. e.kind = "Insert" /\ e.id = id /\ e.row = row
    BY <1>3
  <1>9. EffectOK(e) /\ e \in Effects
    BY <1>3, <1>7 DEF EffectOK, Effects, DataKinds, Ids
  <1>10. id + 1 \in Nat /\ id < id + 1 /\ id + 1 >= db.mem.next /\ TableOK(db.mem)
    BY <1>2, <1>7 DEF Ids, TypeInv, DbType
  <1>11. /\ TableOK(mem) /\ mem.next = id + 1
         /\ \A i : Cell(mem, i) = IF i = id THEN row.val ELSE Cell(db.mem, i)
    BY <1>4, <1>7, <1>10, PutRow
  <1>12. Old(s, e) = NoRow /\ Harm(s, e) = {} /\ e.kind \in DataKinds
    BY <1>8 DEF Old, Harm, DataKinds
  <1> QED
    BY <1>2, <1>7, <1>8, <1>9, <1>10, <1>11, <1>12

LEMMA InsertIs ==
    ASSUME TypeInv, NEW s \in Sessions, InsertRow(s), UNCHANGED paged
    PROVE  TypeInv' /\ \E e \in Effects : Appends(s, e) \/ Saves(s, e)
  <1>1. PICK e, mem : e = InsertOf /\ mem = Inserted
    OBVIOUS
  <1>2. PICK me : me = RowDone(sess[s], db.mem.next, UndoOf("Insert", db.mem.next, NoRow))
    OBVIOUS
  <1>3. /\ up /\ sess[s].stmt # "none" /\ UNCHANGED <<paged, up, committed, txns>>
        /\ Write(s, e, mem, me, {}, FALSE)
    BY <1>1, <1>2 DEF InsertRow
  <1>4. writes < MaxWrites
    BY <1>3 DEF Write
  <1>5. /\ EffectOK(e) /\ e \in Effects /\ e.kind = "Insert" /\ e.kind \in DataKinds
        /\ e.id = db.mem.next /\ e.id \in Ids /\ (e.row.val = 0 <=> e.kind = "Delete")
        /\ TableOK(mem) /\ mem.next >= db.mem.next /\ e.id < mem.next
        /\ \A i \in Ids : Cell(mem, i) = IF i = e.id THEN e.row.val ELSE Cell(db.mem, i)
        /\ Old(s, e) = NoRow /\ Harm(s, e) = {}
    BY <1>1, <1>4, InsertedIs
  <1>6. Noted(s, e, me)
    BY <1>2, <1>5, NotedRow
  <1>7. Write(s, e, mem, me, Harm(s, e), FALSE)
    BY <1>3, <1>5
  <1>8. TypeInv' /\ (Appends(s, e) \/ Saves(s, e))
    BY <1>3, <1>5, <1>6, <1>7, WriteIs
  <1> QED
    BY <1>5, <1>8

LEMMA InsertFailsIs ==
    ASSUME TypeInv, NEW s \in Sessions, InsertRowFails(s), UNCHANGED paged
    PROVE  TypeInv' /\ \E e \in Effects : Appends(s, e) \/ Saves(s, e) \/ Strays(s, e)
  <1>1. PICK e, mem : e = InsertOf /\ mem = Inserted
    OBVIOUS
  <1>2. PICK b, me : b = Ended(sess[s]) /\ me = [b EXCEPT !.unrecorded = TRUE]
    OBVIOUS
  <1>3. /\ up /\ sess[s].stmt # "none" /\ UNCHANGED <<paged, up, committed, txns>>
        /\ \/ \E fails \in BOOLEAN : Write(s, e, mem, me, {}, fails)
           \/ Unlogged(s, mem, sess[s], {})
    BY <1>1, <1>2 DEF InsertRowFails
  <1>4. writes < MaxWrites
    BY <1>3 DEF Write, Unlogged
  <1>5. /\ EffectOK(e) /\ e \in Effects /\ e.kind = "Insert" /\ e.kind \in DataKinds
        /\ e.id = db.mem.next /\ e.id \in Ids /\ (e.row.val = 0 <=> e.kind = "Delete")
        /\ TableOK(mem) /\ mem.next >= db.mem.next /\ e.id < mem.next
        /\ \A i \in Ids : Cell(mem, i) = IF i = e.id THEN e.row.val ELSE Cell(db.mem, i)
        /\ Old(s, e) = NoRow /\ Harm(s, e) = {}
    BY <1>1, <1>4, InsertedIs
  <1>6. Noted(s, e, me)
    <2>1. SessType(sess[s])
      BY DEF TypeInv
    <2>2. SessType(b) /\ SameWork(b, sess[s]) /\ b.auto = sess[s].auto /\ DOMAIN b.scan = {}
      BY <1>2, <2>1, EndedType, EndedIs DEF SessType
    <2>3. /\ DOMAIN me = DOMAIN NewSession /\ me.txn = b.txn /\ me.auto = b.auto /\ me.undo = b.undo
          /\ me.scan = b.scan /\ me.stmt = b.stmt /\ me.pending = b.pending /\ me.unrecorded = TRUE
      BY <1>2, <2>2, SessionFields DEF SessType
    <2>4. SessType(me)
      BY <2>2, <2>3 DEF SessType
    <2> QED
      BY <2>2, <2>3, <2>4 DEF Noted, SameWork
  <1>7. CASE \E fails \in BOOLEAN : Write(s, e, mem, me, {}, fails)
    <2>1. PICK fails \in BOOLEAN : Write(s, e, mem, me, Harm(s, e), fails)
      BY <1>5, <1>7
    <2>2. TypeInv' /\ (Appends(s, e) \/ Saves(s, e))
      BY <1>3, <1>5, <1>6, <2>1, WriteIs
    <2> QED
      BY <1>5, <2>2
  <1>8. CASE Unlogged(s, mem, sess[s], {})
    <2>1. Unlogged(s, mem, sess[s], Harm(s, e))
      BY <1>5, <1>8
    <2>2. TypeInv' /\ Strays(s, e)
      BY <1>3, <1>5, <2>1, UnloggedIs
    <2> QED
      BY <1>5, <2>2
  <1> QED
    BY <1>3, <1>7, <1>8

LEMMA UpdateIs ==
    ASSUME TypeInv, NEW s \in Sessions, NEW id \in DOMAIN sess[s].scan, UpdateRow(s, id),
           UNCHANGED paged
    PROVE  /\ TypeInv'
           /\ \/ id \in Ids /\ Notes(s, id)
              \/ \E e \in Effects : Appends(s, e) \/ Saves(s, e) \/ Strays(s, e)
  <1>1. PICK old : old = sess[s].scan[id]
    OBVIOUS
  <1>2. PICK row : row = [val |-> writes + 1, ver |-> old.ver + 1]
    OBVIOUS
  <1>3. PICK me : me = RowDone(sess[s], id, UndoOf("Update", id, old))
    OBVIOUS
  <1>4. PICK e : e = [kind |-> "Update", id |-> id, row |-> row]
    OBVIOUS
  <1>5. PICK mem : mem = [db.mem EXCEPT !.rows = Put(@, id, row)]
    OBVIOUS
  <1>6. /\ up /\ sess[s].stmt = "Update" /\ UNCHANGED <<paged, up, committed, txns>>
        /\ \/ Unwritten(s, me, Interference(s, id))
           \/ Unwritten(s, Ended(me), Interference(s, id))
           \/ id \in DOMAIN db.mem.rows /\ Rewrite(s, e, mem, me, Interference(s, id))
    BY <1>1, <1>2, <1>3, <1>4, <1>5 DEF UpdateRow
  <1>7. CASE Unwritten(s, me, Interference(s, id)) \/ Unwritten(s, Ended(me), Interference(s, id))
    <2>1. PICK me2 : Unwritten(s, me2, Interference(s, id)) /\ (me2 = me \/ me2 = Ended(me))
      BY <1>7
    <2>2. \/ me2 = RowDone(sess[s], id, UndoOf("Update", id, sess[s].scan[id]))
          \/ me2 = Ended(RowDone(sess[s], id, UndoOf("Update", id, sess[s].scan[id])))
      BY <1>1, <1>3, <2>1
    <2>3. "Update" \in {"Update", "Delete"} /\ "Update" # "Delete" /\ sess[s].stmt # "none"
      BY <1>6
    <2> QED
      BY <1>6, <2>1, <2>2, <2>3, UnwrittenIs
  <1>8. CASE id \in DOMAIN db.mem.rows /\ Rewrite(s, e, mem, me, Interference(s, id))
    <2>1. writes < MaxWrites /\ old \in RowType /\ id \in Ids
      BY <1>1, <1>8 DEF Rewrite, Write, Unlogged, TypeInv, SessType
    <2>2. row \in RowType /\ row.val # 0
      BY <1>2, <2>1, EngineAssumption DEF RowType, TypeInv
    <2>3. e.kind = "Update" /\ e.id = id /\ e.row = row
      BY <1>4
    <2>4. EffectOK(e) /\ e \in Effects
      BY <1>4, <2>1, <2>2 DEF EffectOK, Effects, DataKinds, Ids
    <2>5. TableOK(db.mem) /\ id < db.mem.next /\ db.mem.next \in Nat
      BY <1>8, <2>1 DEF TypeInv, DbType, TableOK, Ids
    <2>6. mem = [rows |-> Put(db.mem.rows, id, row), next |-> db.mem.next]
      BY <1>5, <2>5 DEF TableOK
    <2>7. db.mem.next >= db.mem.next
      BY <2>5
    <2>8. /\ TableOK(mem) /\ mem.next = db.mem.next
          /\ \A i : Cell(mem, i) = IF i = id THEN row.val ELSE Cell(db.mem, i)
      BY <2>1, <2>2, <2>5, <2>6, <2>7, PutRow
    <2>10. /\ Rewrite(s, e, mem, RowDone(sess[s], e.id, UndoOf(e.kind, e.id, sess[s].scan[e.id])),
                      Interference(s, e.id))
           /\ e.kind \in {"Update", "Delete"}
      BY <1>1, <1>3, <1>8, <2>3
    <2>11. e.row.val = 0 <=> e.kind = "Delete"
      BY <2>2, <2>3
    <2>12. \A i \in Ids : Cell(mem, i) = IF i = e.id THEN e.row.val ELSE Cell(db.mem, i)
      BY <2>3, <2>8
    <2>13. mem.next >= db.mem.next /\ e.id < mem.next /\ sess[s].stmt # "none"
      BY <1>6, <2>3, <2>5, <2>8
    <2>14. e.id \in DOMAIN sess[s].scan /\ e.id \in DOMAIN db.mem.rows /\ e.kind # "Insert"
      BY <1>8, <2>3
    <2> QED
      BY <1>6, <2>4, <2>8, <2>10, <2>11, <2>12, <2>13, <2>14, RewriteIs
  <1> QED
    BY <1>6, <1>7, <1>8

LEMMA UpdateFailsIs ==
    ASSUME TypeInv, NEW s \in Sessions, NEW id \in DOMAIN sess[s].scan, UpdateRowFails(s, id),
           UNCHANGED paged
    PROVE  TypeInv' /\ id \in Ids /\ Notes(s, id)
  <1>1. PICK me : me = Ended(RowDone(sess[s], id, UndoOf("Update", id, sess[s].scan[id])))
    OBVIOUS
  <1>2. up /\ Unwritten(s, me, Interference(s, id)) /\ UNCHANGED <<paged, up, committed, txns>>
    BY <1>1 DEF UpdateRowFails
  <1>3. "Update" \in {"Update", "Delete"} /\ "Update" # "Delete" /\ sess[s].stmt # "none"
    BY DEF UpdateRowFails
  <1> QED
    BY <1>1, <1>2, <1>3, UnwrittenIs

LEMMA DeleteIs ==
    ASSUME TypeInv, NEW s \in Sessions, NEW id \in DOMAIN sess[s].scan, DeleteRow(s, id),
           UNCHANGED paged
    PROVE  /\ TypeInv'
           /\ \/ id \in Ids /\ Notes(s, id)
              \/ \E e \in Effects : Appends(s, e) \/ Saves(s, e) \/ Strays(s, e)
  <1>1. PICK old : old = sess[s].scan[id]
    OBVIOUS
  <1>2. PICK me : me = RowDone(sess[s], id, UndoOf("Delete", id, old))
    OBVIOUS
  <1>3. PICK e : e = [kind |-> "Delete", id |-> id, row |-> NoRow]
    OBVIOUS
  <1>4. PICK mem : mem = ApplyDelete(db.mem, id)
    OBVIOUS
  <1>5. /\ up /\ sess[s].stmt = "Delete" /\ UNCHANGED <<paged, up, committed, txns>>
        /\ IF id \in DOMAIN db.mem.rows THEN Rewrite(s, e, mem, me, Interference(s, id))
           ELSE Unwritten(s, me, Interference(s, id))
    BY <1>1, <1>2, <1>3, <1>4 DEF DeleteRow
  <1>6. CASE id \notin DOMAIN db.mem.rows
    <2>1. Unwritten(s, me, Interference(s, id)) /\ "Delete" \in {"Update", "Delete"} /\ sess[s].stmt # "none"
      BY <1>5, <1>6
    <2> QED
      BY <1>1, <1>2, <1>5, <1>6, <2>1, UnwrittenIs
  <1>7. CASE id \in DOMAIN db.mem.rows
    <2>1. Rewrite(s, e, mem, me, Interference(s, id))
      BY <1>5, <1>7
    <2>2. old \in RowType /\ id \in Ids
      BY <1>1 DEF TypeInv, SessType
    <2>3. e.kind = "Delete" /\ e.id = id /\ e.row = NoRow /\ e.row.val = 0
      BY <1>3 DEF NoRow
    <2>4. EffectOK(e) /\ e \in Effects
      BY <1>3, <2>2 DEF EffectOK, Effects, DataKinds, Ids
    <2>5. TableOK(db.mem) /\ id < db.mem.next /\ db.mem.next \in Nat
      BY <1>7, <2>2 DEF TypeInv, DbType, TableOK, Ids
    <2>6. mem = [db.mem EXCEPT !.rows = Without(@, id)]
      BY <1>4 DEF ApplyDelete
    <2>7. /\ TableOK(mem) /\ mem.next = db.mem.next
          /\ \A i : Cell(mem, i) = IF i = id THEN 0 ELSE Cell(db.mem, i)
      BY <2>5, <2>6, WithoutRow
    <2>9. /\ Rewrite(s, e, mem, RowDone(sess[s], e.id, UndoOf(e.kind, e.id, sess[s].scan[e.id])),
                     Interference(s, e.id))
          /\ e.kind \in {"Update", "Delete"}
      BY <1>1, <1>2, <2>1, <2>3
    <2>10. \A i \in Ids : Cell(mem, i) = IF i = e.id THEN e.row.val ELSE Cell(db.mem, i)
      BY <2>3, <2>7
    <2>11. mem.next >= db.mem.next /\ e.id < mem.next /\ sess[s].stmt # "none"
      BY <1>5, <2>3, <2>5, <2>7
    <2>12. e.id \in DOMAIN sess[s].scan /\ e.id \in DOMAIN db.mem.rows /\ e.kind # "Insert"
      BY <1>7, <2>3
    <2>13. e.row.val = 0 <=> e.kind = "Delete"
      BY <2>3
    <2> QED
      BY <1>5, <2>4, <2>7, <2>9, <2>10, <2>11, <2>12, <2>13, RewriteIs
  <1> QED
    BY <1>6, <1>7

LEMMA DbFields == DOMAIN EmptyDb = {"mem", "dat", "wal", "ckpt", "lsn", "ops", "nextTxn"}
  BY DEF EmptyDb

LEMMA CommittedType ==
    ASSUME TypeInv, NEW s \in Sessions
    PROVE  CommittedOK(CommittedWith(sess[s].pending))
  <1>1. PICK p : p = sess[s].pending
    OBVIOUS
  <1>2. \A i \in DOMAIN p : i \in Ids /\ p[i] \in 0..MaxWrites
    BY <1>1 DEF TypeInv, SessType
  <1>3. \A i \in DOMAIN committed : i \in Ids /\ committed[i] \in 1..MaxWrites
    BY DEF TypeInv, CommittedOK
  <1>4. \A i \in DOMAIN p : p[i] # 0 => p[i] \in 1..MaxWrites
    BY <1>2, EngineAssumption
  <1>5. PICK f : f = CommittedWith(p)
    OBVIOUS
  <1>6. /\ f = [i \in DOMAIN f |-> f[i]]
        /\ \A i \in DOMAIN f : /\ i \in DOMAIN committed \cup DOMAIN p
                               /\ i \in DOMAIN p => p[i] # 0
                               /\ f[i] = IF i \in DOMAIN p THEN p[i] ELSE committed[i]
    BY <1>5 DEF CommittedWith
  <1>7. \A i \in DOMAIN f : i \in Ids /\ f[i] \in 1..MaxWrites
    BY <1>2, <1>3, <1>4, <1>6
  <1> QED
    BY <1>1, <1>5, <1>6, <1>7 DEF CommittedOK

LEMMA CommitIs ==
    ASSUME TypeInv, NEW s \in Sessions, up, sess[s].txn # 0, Commit(s),
           UNCHANGED <<paged, up, damage, writes, txns>>
    PROVE  TypeInv' /\ Commits(s)
  <1>1. sess[s].txn \in 1..MaxTxns /\ db.lsn = Len(db.wal) /\ DbType(db)
    BY EngineAssumption DEF TypeInv, SessType, DbType
  <1>2. db' = Log(db, sess[s].txn, Control("Commit")) /\ sess' = [sess EXCEPT ![s] = NewSession]
    BY DEF Commit
  <1>3. DbType(db') /\ db'.lsn = Len(db'.wal)
    BY <1>1, <1>2, LogType, ControlOK
  <1>4. /\ db'.mem = db.mem /\ db'.dat = db.dat /\ db'.nextTxn = db.nextTxn
        /\ Logs(sess[s].txn, Control("Commit"))
    BY <1>1, <1>2, LogFields DEF Logs, DbType
  <1>5. sess'[s] = NewSession /\ OthersSame(s)
    BY <1>2, OneSession
  <1>6. Commits(s)
    BY <1>4, <1>5 DEF Commits, Commit
  <1>7. \A u \in Sessions : SessType(sess'[u]) /\ sess'[u].txn < db'.nextTxn
    <2>1. db.nextTxn \in Nat /\ db.nextTxn # 0
      BY <1>1 DEF DbType
    <2> QED
      BY <1>4, <1>5, <2>1, NewSessionType, SessTypes
  <1>8. /\ paged' \in BOOLEAN /\ up' \in BOOLEAN /\ up' /\ damage' \subseteq Damages
        /\ writes' \in 0..MaxWrites /\ txns' \in 0..MaxTxns /\ db'.nextTxn <= txns' + 1
    BY <1>4 DEF TypeInv
  <1>9. CommittedOK(committed') /\ dirty' \subseteq Sessions /\ DOMAIN sess' = Sessions
    BY <1>5, CommittedType DEF Commit, TypeInv, OthersSame
  <1> QED
    BY <1>3, <1>6, <1>7, <1>8, <1>9, TypeNext

LEMMA RewoundOK ==
    ASSUME NEW t, TableOK(t), NEW undo, UndoOK(undo)
    PROVE  /\ TableOK(Rewound(t, undo)) /\ Rewound(t, undo).next >= t.next
           /\ \A id \in Ids : \A S : Lands(Len(undo), Reverse(undo), id, {Cell(t, id)}, S)
                                        => Cell(Rewound(t, undo), id) \in S
  <1>1. PICK n : n = Len(undo)
    OBVIOUS
  <1>2. PICK seq : seq = Reverse(undo)
    OBVIOUS
  <1>3. n \in Nat /\ DOMAIN seq = 1..n
    BY <1>1, <1>2 DEF UndoOK, Reverse
  <1>4. ASSUME NEW i \in 1..n
        PROVE  EffectOK(seq[i])
    <2>1. n - i + 1 \in 1..n /\ seq[i] = undo[(n - i) + 1]
      BY <1>1, <1>2, <1>3 DEF Reverse
    <2> QED
      BY <1>1, <2>1 DEF UndoOK
  <1>5. Rewound(t, undo) = ApplyAll(t, seq)
    BY <1>2 DEF Rewound, ApplyAll
  <1> QED
    BY <1>1, <1>2, <1>3, <1>4, <1>5, ApplyAllOK

LEMMA RollbackIs ==
    ASSUME TypeInv, NEW s \in Sessions, Rollback(s), UNCHANGED paged
    PROVE  TypeInv' /\ RollsBack(s)
  <1>1. up /\ sess[s].txn # 0 /\ UNCHANGED <<up, committed, writes, txns>>
    BY DEF Rollback, Idle, InTxn, bounds
  <1>2. sess[s].txn \in 1..MaxTxns /\ db.lsn = Len(db.wal) /\ DbType(db) /\ UndoOK(sess[s].undo)
    BY <1>1, EngineAssumption DEF TypeInv, SessType, DbType
  <1>3. PICK d : d = Log(db, sess[s].txn, Control("Abort"))
    OBVIOUS
  <1>4. DbType(d) /\ d.lsn = Len(d.wal)
    BY <1>2, <1>3, LogType, ControlOK
  <1>5. /\ DOMAIN d = DOMAIN EmptyDb
        /\ d.mem = db.mem /\ d.dat = db.dat /\ d.ckpt = db.ckpt /\ d.nextTxn = db.nextTxn
        /\ d.wal = Append(db.wal, [lsn |-> db.lsn + 1, txn |-> sess[s].txn, op |-> Control("Abort")])
        /\ d.lsn = db.lsn + 1
    BY <1>2, <1>3, LogFields DEF DbType
  <1>6. PICK e : e = [d EXCEPT !.mem = Rewound(@, sess[s].undo)]
    OBVIOUS
  <1>7. db' = IF paged THEN [e EXCEPT !.dat = e.mem] ELSE e
    BY <1>3, <1>6 DEF Rollback, Filed
  <1>8. /\ DOMAIN e = DOMAIN EmptyDb /\ e.mem = Rewound(db.mem, sess[s].undo)
        /\ e.dat = d.dat /\ e.ckpt = d.ckpt /\ e.nextTxn = d.nextTxn /\ e.wal = d.wal /\ e.lsn = d.lsn
    BY <1>5, <1>6, DbFields
  <1>9. /\ DOMAIN db' = DOMAIN EmptyDb /\ db'.mem = Rewound(db.mem, sess[s].undo)
        /\ db'.dat = (IF paged THEN db'.mem ELSE db.dat)
        /\ db'.ckpt = d.ckpt /\ db'.nextTxn = d.nextTxn /\ db'.wal = d.wal /\ db'.lsn = d.lsn
    <2>1. CASE paged
      BY <1>5, <1>7, <1>8, <2>1, DbFields
    <2>2. CASE ~paged
      BY <1>5, <1>7, <1>8, <2>2
    <2> QED
      BY <2>1, <2>2
  <1>10. TableOK(db'.mem)
    BY <1>2, <1>9, RewoundOK DEF DbType
  <1>11. DbType(db') /\ db'.lsn = Len(db'.wal)
    <2>1. TableOK(db'.dat)
      BY <1>2, <1>9, <1>10 DEF DbType
    <2> QED
      BY <1>4, <1>9, <1>10, <2>1 DEF DbType
  <1>12. sess'[s] = NewSession /\ OthersSame(s)
    BY OneSession DEF Rollback
  <1>13. RollsBack(s)
    <2>1. Logs(sess[s].txn, Control("Abort"))
      BY <1>5, <1>9 DEF Logs
    <2> QED
      BY <1>1, <1>5, <1>9, <1>12, <2>1 DEF RollsBack, Rollback
  <1>14. \A u \in Sessions : SessType(sess'[u]) /\ sess'[u].txn < db'.nextTxn
    <2>1. db.nextTxn \in Nat /\ db.nextTxn # 0 /\ db'.nextTxn = db.nextTxn
      BY <1>2, <1>5, <1>9 DEF DbType
    <2> QED
      BY <1>12, <2>1, NewSessionType, SessTypes
  <1>15. /\ paged' \in BOOLEAN /\ up' \in BOOLEAN /\ up' /\ CommittedOK(committed')
         /\ writes' \in 0..MaxWrites /\ txns' \in 0..MaxTxns /\ db'.nextTxn <= txns' + 1
    BY <1>1, <1>5, <1>9 DEF TypeInv
  <1>16. dirty' \subseteq Sessions /\ DOMAIN sess' = Sessions /\ damage' \subseteq Damages
    BY <1>12 DEF Rollback, TypeInv, OthersSame, Damages
  <1> QED
    BY <1>11, <1>13, <1>14, <1>15, <1>16, TypeNext

LEMMA DisconnectIs ==
    ASSUME TypeInv, NEW s \in Sessions, Disconnect(s), UNCHANGED paged
    PROVE  TypeInv' /\ Leaves(s)
  <1>1. up /\ sess[s].txn # 0 /\ UNCHANGED <<db, up, committed, writes, txns>>
    BY DEF Disconnect, Idle, InTxn, bounds
  <1>2. sess'[s] = NewSession /\ OthersSame(s)
    BY OneSession DEF Disconnect
  <1>3. Leaves(s)
    BY <1>1, <1>2 DEF Leaves, Disconnect
  <1>4. \A u \in Sessions : SessType(sess'[u]) /\ sess'[u].txn < db'.nextTxn
    <2>1. db.nextTxn \in Nat /\ db.nextTxn # 0 /\ db'.nextTxn = db.nextTxn
      BY <1>1 DEF TypeInv, DbType
    <2> QED
      BY <1>2, <2>1, NewSessionType, SessTypes
  <1>5. /\ DbType(db') /\ db'.lsn = Len(db'.wal)
        /\ paged' \in BOOLEAN /\ up' \in BOOLEAN /\ up' /\ CommittedOK(committed')
        /\ writes' \in 0..MaxWrites /\ txns' \in 0..MaxTxns /\ db'.nextTxn <= txns' + 1
    BY <1>1 DEF TypeInv
  <1>6. dirty' \subseteq Sessions /\ DOMAIN sess' = Sessions /\ damage' \subseteq Damages
    BY <1>2 DEF Disconnect, TypeInv, OthersSame, Damages
  <1> QED
    BY <1>3, <1>4, <1>5, <1>6, TypeNext

LEMMA CheckpointedIs ==
    ASSUME NEW d, DbType(d)
    PROVE  LET e == Checkpointed(d)
           IN  /\ DbType(e) /\ e.mem = d.mem /\ e.dat = d.mem /\ e.ckpt = d.lsn /\ e.wal = <<>>
               /\ e.lsn = 0 /\ e.nextTxn = d.nextTxn
  <1>1. PICK e : e = Checkpointed(d)
    OBVIOUS
  <1>2. DOMAIN d = DOMAIN EmptyDb
    BY DEF DbType
  <1>3. /\ DOMAIN e = DOMAIN EmptyDb /\ e.mem = d.mem /\ e.dat = d.mem /\ e.ckpt = d.lsn
        /\ e.wal = <<>> /\ e.lsn = 0 /\ e.nextTxn = d.nextTxn
    BY <1>1, <1>2, DbFields DEF Checkpointed
  <1>4. WalOK(<<>>)
    BY DEF WalOK
  <1>5. DbType(e)
    BY <1>3, <1>4 DEF DbType
  <1> QED
    BY <1>1, <1>3, <1>5

LEMMA BackupIs ==
    ASSUME TypeInv, BackupCheckpoint, UNCHANGED paged
    PROVE  TypeInv' /\ SavesAll
  <1>1. /\ up /\ Quiescent /\ db.wal # <<>> /\ db' = Checkpointed(db)
        /\ damage' = damage \cup Spread
        /\ UNCHANGED <<up, sess, committed, dirty, writes, txns>>
    BY DEF BackupCheckpoint, bounds
  <1>2. DbType(db) /\ db.lsn = Len(db.wal)
    BY <1>1 DEF TypeInv
  <1>3. /\ DbType(db') /\ db'.mem = db.mem /\ db'.dat = db.mem /\ db'.ckpt = db.lsn /\ db'.wal = <<>>
        /\ db'.lsn = 0 /\ db'.nextTxn = db.nextTxn
    BY <1>1, <1>2, CheckpointedIs
  <1>4. db.lsn # 0 /\ db'.lsn = Len(db'.wal)
    BY <1>1, <1>2, <1>3 DEF DbType, WalOK
  <1>5. SavesAll
    BY <1>1, <1>3, <1>4 DEF SavesAll
  <1>6. damage' \subseteq Damages
    BY <1>1 DEF TypeInv, Spread, Damages
  <1>7. /\ paged' \in BOOLEAN /\ up' \in BOOLEAN /\ up' /\ CommittedOK(committed')
        /\ writes' \in 0..MaxWrites /\ txns' \in 0..MaxTxns /\ db'.nextTxn <= txns' + 1
        /\ dirty' \subseteq Sessions /\ DOMAIN sess' = Sessions
        /\ \A u \in Sessions : SessType(sess'[u]) /\ sess'[u].txn < db'.nextTxn
    BY <1>1, <1>3 DEF TypeInv
  <1> QED
    BY <1>3, <1>4, <1>5, <1>6, <1>7, TypeNext

LEMMA DownIs ==
    ASSUME TypeInv, NEW d, DbType(d), NEW lost \in SUBSET Damages, Down(d, lost), UNCHANGED paged
    PROVE  /\ TypeInv' /\ Stops /\ damage' = damage \cup lost
           /\ db'.dat = d.dat /\ db'.wal = d.wal /\ db'.ckpt = d.ckpt
  <1>1. /\ up /\ up' = FALSE /\ damage' = damage \cup lost /\ dirty' = {}
        /\ db' = [d EXCEPT !.mem = EmptyTable, !.lsn = 0, !.ops = 0, !.nextTxn = 1]
        /\ sess' = [s \in Sessions |-> NewSession]
        /\ UNCHANGED <<paged, committed, writes, txns>>
    BY DEF Down
  <1>2. DOMAIN d = DOMAIN EmptyDb
    BY DEF DbType
  <1>3. /\ DOMAIN db' = DOMAIN EmptyDb /\ db'.mem = EmptyTable /\ db'.lsn = 0 /\ db'.nextTxn = 1
        /\ db'.dat = d.dat /\ db'.wal = d.wal /\ db'.ckpt = d.ckpt
    BY <1>1, <1>2, DbFields
  <1>4. DbType(db')
    BY <1>3, EmptyTableOK DEF DbType
  <1>5. DOMAIN sess' = Sessions /\ \A s \in Sessions : sess'[s] = NewSession
    BY <1>1
  <1>6. Stops
    BY <1>1, <1>3, <1>5 DEF Stops
  <1>7. \A s \in Sessions : SessType(sess'[s]) /\ sess'[s].txn < db'.nextTxn
    BY <1>3, <1>5, NewSessionType
  <1>8. /\ paged' \in BOOLEAN /\ CommittedOK(committed') /\ damage' \subseteq Damages
        /\ writes' \in 0..MaxWrites /\ txns' \in 0..MaxTxns
    BY <1>1 DEF TypeInv
  <1>9. db'.nextTxn <= txns' + 1
    <2>1. txns' \in Nat
      BY <1>8, EngineAssumption
    <2>2. \A n \in Nat : 1 <= n + 1
      BY ONLY TRUE
    <2>3. 1 <= txns' + 1
      BY <2>1, <2>2
    <2> QED
      BY <1>3, <2>3
  <1>10. TypeInv'
    BY <1>1, <1>4, <1>5, <1>7, <1>8, <1>9, TypeNext
  <1> QED
    BY <1>1, <1>3, <1>6, <1>10

LEMMA CrashIs ==
    ASSUME TypeInv, Crash, UNCHANGED paged
    PROVE  TypeInv' /\ Dies
  <1>1. PICK lost : lost = (IF dirty # {} THEN {"dirtyFile"} ELSE {})
                              \cup (IF Hidden(db) THEN {"hidden"} ELSE {})
    OBVIOUS
  <1>2. Down(db, lost) /\ lost \in SUBSET Damages /\ DbType(db)
    BY <1>1 DEF Crash, Damages, TypeInv
  <1>3. /\ TypeInv' /\ Stops /\ damage' = damage \cup lost
        /\ db'.dat = db.dat /\ db'.wal = db.wal /\ db'.ckpt = db.ckpt
    BY <1>2, DownIs
  <1>4. damage' = damage \cup (IF dirty # {} THEN {"dirtyFile"} ELSE {})
                        \cup (IF Hidden(db) THEN {"hidden"} ELSE {})
    BY <1>1, <1>3
  <1> QED
    BY <1>3, <1>4 DEF Dies

LEMMA ShutdownIs ==
    ASSUME TypeInv, Shutdown, UNCHANGED paged
    PROVE  TypeInv' /\ ShutsDown
  <1>1. PICK lost : lost = IF Quiescent THEN Spread ELSE {"dirtyFile"}
    OBVIOUS
  <1>2. PICK d : d = Checkpointed(db)
    OBVIOUS
  <1>3. DbType(d) /\ d.dat = db.mem /\ d.ckpt = db.lsn /\ d.wal = <<>>
    BY <1>2, CheckpointedIs DEF TypeInv
  <1>4. Down(d, lost) /\ lost \in SUBSET Damages
    BY <1>1, <1>2 DEF Shutdown, Damages, Spread
  <1>5. /\ TypeInv' /\ Stops /\ damage' = damage \cup lost
        /\ db'.dat = d.dat /\ db'.wal = d.wal /\ db'.ckpt = d.ckpt
    BY <1>3, <1>4, DownIs
  <1> QED
    BY <1>1, <1>3, <1>5 DEF ShutsDown

LEMMA OpenIs ==
    ASSUME TypeInv, Open, UNCHANGED paged
    PROVE  TypeInv' /\ Opens
  <1>1. /\ ~up /\ up' = TRUE /\ damage' = damage \ MemoryDamage
        /\ UNCHANGED <<sess, committed, dirty, writes, txns>>
    BY DEF Open, bounds
  <1>2. PICK n : n = IF db.wal = <<>> THEN 0 ELSE Last(db.wal).lsn
    OBVIOUS
  <1>3. DbType(db) /\ WalOK(db.wal)
    BY DEF TypeInv, DbType
  <1>4. n = Len(db.wal) /\ n \in Nat
    <2>1. CASE db.wal = <<>>
      BY <1>2, <2>1
    <2>2. CASE db.wal # <<>>
      <3>1. Len(db.wal) \in 1..Len(db.wal) /\ Last(db.wal) = db.wal[Len(db.wal)]
        BY <1>3, <2>2 DEF WalOK, Last
      <3> QED
        BY <1>2, <1>3, <2>2, <3>1 DEF WalOK
    <2> QED
      BY <2>1, <2>2
  <1>5. PICK d : d = [db EXCEPT !.mem = Recovered(db), !.lsn = n]
    OBVIOUS
  <1>6. db' = IF paged THEN [d EXCEPT !.dat = d.mem] ELSE d
    BY <1>2, <1>5 DEF Open, Filed
  <1>7. /\ DOMAIN d = DOMAIN EmptyDb /\ d.mem = Recovered(db) /\ d.lsn = n /\ d.dat = db.dat
        /\ d.wal = db.wal /\ d.ckpt = db.ckpt /\ d.nextTxn = db.nextTxn
    BY <1>3, <1>5, DbFields DEF DbType
  <1>8. /\ DOMAIN db' = DOMAIN EmptyDb /\ db'.mem = Recovered(db) /\ db'.lsn = n
        /\ db'.dat = (IF paged THEN Recovered(db) ELSE db.dat)
        /\ db'.wal = db.wal /\ db'.ckpt = db.ckpt /\ db'.nextTxn = db.nextTxn
    <2>1. CASE paged
      BY <1>6, <1>7, <2>1, DbFields
    <2>2. CASE ~paged
      BY <1>6, <1>7, <2>2
    <2> QED
      BY <2>1, <2>2
  <1>9. TableOK(Recovered(db))
    BY <1>3, RecoveredOK DEF DbType
  <1>10. DbType(db') /\ db'.lsn = Len(db'.wal)
    <2>1. TableOK(db'.dat)
      BY <1>3, <1>8, <1>9 DEF DbType
    <2> QED
      BY <1>3, <1>4, <1>8, <1>9, <2>1 DEF DbType
  <1>11. Opens
    BY <1>1, <1>8 DEF Opens
  <1>12. /\ paged' \in BOOLEAN /\ CommittedOK(committed') /\ damage' \subseteq Damages
         /\ writes' \in 0..MaxWrites /\ txns' \in 0..MaxTxns /\ db'.nextTxn <= txns' + 1
         /\ dirty' \subseteq Sessions /\ DOMAIN sess' = Sessions /\ up' /\ up' \in BOOLEAN
         /\ \A u \in Sessions : SessType(sess'[u]) /\ sess'[u].txn < db'.nextTxn
    BY <1>1, <1>8 DEF TypeInv
  <1> QED
    BY <1>10, <1>11, <1>12, TypeNext

LEMMA StepIs ==
    ASSUME TypeInv, [Next]_vars
    PROVE  TypeInv' /\ paged' = paged /\ StepKind
  <1>1. CASE UNCHANGED vars
    <2>1. UNCHANGED <<paged, db, up, sess, committed, dirty, damage, writes, txns>>
      BY <1>1 DEF vars, bounds
    <2>2. Quiet
      BY <2>1 DEF Quiet, SameWork
    <2>3. TypeInv'
      <3>1. /\ DbType(db') /\ (up' => db'.lsn = Len(db'.wal)) /\ db'.nextTxn <= txns' + 1
            /\ paged' \in BOOLEAN /\ up' \in BOOLEAN /\ DOMAIN sess' = Sessions
            /\ CommittedOK(committed') /\ dirty' \subseteq Sessions /\ damage' \subseteq Damages
            /\ writes' \in 0..MaxWrites /\ txns' \in 0..MaxTxns
        BY <2>1 DEF TypeInv
      <3>2. /\ \A s \in Sessions : SessType(sess'[s]) /\ sess'[s].txn < db'.nextTxn
            /\ ~up' => (\A s \in Sessions : sess'[s] = NewSession) /\ dirty' = {}
        BY <2>1 DEF TypeInv
      <3> QED
        BY <3>1, <3>2, TypeNext
    <2> QED
      BY <2>1, <2>2, <2>3 DEF StepKind
  <1>2. ASSUME Next
        PROVE  TypeInv' /\ paged' = paged /\ StepKind
    <2>0. UNCHANGED paged
      BY <1>2 DEF Next
    <2>1. ASSUME NEW s \in Sessions, SessionStep(s)
          PROVE  TypeInv' /\ StepKind
      <3>1. ASSUME Begin(s) PROVE TypeInv' /\ StepKind
        BY <2>0, <3>1, BeginIs DEF StepKind
      <3>2. ASSUME NEW kind \in DataKinds, StartStatement(s, kind) PROVE TypeInv' /\ StepKind
        BY <2>0, <3>2, StartIs DEF StepKind
      <3>3. ASSUME InsertRow(s) PROVE TypeInv' /\ StepKind
        BY <2>0, <3>3, InsertIs DEF StepKind
      <3>3a. ASSUME InsertRowFails(s) PROVE TypeInv' /\ StepKind
        BY <2>0, <3>3a, InsertFailsIs DEF StepKind
      <3>4. ASSUME NEW id \in DOMAIN sess[s].scan, UpdateRow(s, id) PROVE TypeInv' /\ StepKind
        BY <2>0, <3>4, UpdateIs DEF StepKind
      <3>5. ASSUME NEW id \in DOMAIN sess[s].scan, UpdateRowFails(s, id) PROVE TypeInv' /\ StepKind
        BY <2>0, <3>5, UpdateFailsIs DEF StepKind
      <3>6. ASSUME NEW id \in DOMAIN sess[s].scan, DeleteRow(s, id) PROVE TypeInv' /\ StepKind
        BY <2>0, <3>6, DeleteIs DEF StepKind
      <3>7. ASSUME EndStatement(s) PROVE TypeInv' /\ StepKind
        <4>1. up /\ sess[s].stmt # "none" /\ UNCHANGED <<paged, up, damage, writes, txns>>
          BY <2>0, <3>7 DEF EndStatement, bounds
        <4>2. CASE sess[s].auto
          <5>1. sess[s].txn # 0 /\ Commit(s)
            BY <3>7, <4>2 DEF EndStatement, TypeInv, SessType
          <5> QED
            BY <4>1, <5>1, CommitIs DEF StepKind
        <4>3. CASE ~sess[s].auto
          <5>1. sess' = [sess EXCEPT ![s] = Ended(@)] /\ UNCHANGED <<db, committed, dirty>>
            BY <3>7, <4>3 DEF EndStatement
          <5> QED
            BY <4>1, <5>1, EndIs DEF StepKind
        <4> QED
          BY <4>2, <4>3
      <3>8. ASSUME FailStatement(s) PROVE TypeInv' /\ StepKind
        <4>1. /\ up /\ sess' = [sess EXCEPT ![s] = Ended(@)]
              /\ UNCHANGED <<paged, db, up, committed, dirty, damage, writes, txns>>
          BY <2>0, <3>8 DEF FailStatement, bounds
        <4> QED
          BY <4>1, EndIs DEF StepKind
      <3>9. ASSUME CommitStatement(s) PROVE TypeInv' /\ StepKind
        <4>1. up /\ sess[s].txn # 0 /\ Commit(s) /\ UNCHANGED <<paged, up, damage, writes, txns>>
          BY <2>0, <3>9 DEF CommitStatement, Idle, InTxn, bounds
        <4> QED
          BY <4>1, CommitIs DEF StepKind
      <3>10. ASSUME Rollback(s) PROVE TypeInv' /\ StepKind
        BY <2>0, <3>10, RollbackIs DEF StepKind
      <3>11. ASSUME Disconnect(s) PROVE TypeInv' /\ StepKind
        BY <2>0, <3>11, DisconnectIs DEF StepKind
      <3> QED
        BY <2>1, <3>1, <3>2, <3>3, <3>3a, <3>4, <3>5, <3>6, <3>7, <3>8, <3>9, <3>10, <3>11 DEF SessionStep
    <2>2. ASSUME BackupCheckpoint PROVE TypeInv' /\ StepKind
      BY <2>0, <2>2, BackupIs DEF StepKind
    <2>3. ASSUME Crash PROVE TypeInv' /\ StepKind
      BY <2>0, <2>3, CrashIs DEF StepKind
    <2>4. ASSUME Shutdown PROVE TypeInv' /\ StepKind
      BY <2>0, <2>4, ShutdownIs DEF StepKind
    <2>5. ASSUME Open PROVE TypeInv' /\ StepKind
      BY <2>0, <2>5, OpenIs DEF StepKind
    <2> QED
      BY <1>2, <2>0, <2>1, <2>2, <2>3, <2>4, <2>5 DEF Next
  <1> QED
    BY <1>1, <1>2

(* The tables, the log and the sessions stay well formed, whatever         *)
(* statements, crashes and restarts there are.                             *)
THEOREM TypeCorrect == Spec => []TypeOK
  <1>1. TypeInv /\ [Next]_vars => TypeInv'
    BY StepIs
  <1> QED
    BY <1>1, InitType, TypeInvOK, PTL DEF Spec

-----------------------------------------------------------------------------
(* The transactions and their ids: no two open transactions have the same, *)
(* and unless an id was reused the log has no Commit or Abort record of an *)
(* open one, and records only of rows that it has written.                 *)
TxnsApart(ss) ==
    \A s, u \in Sessions : s # u /\ ss[s].txn # 0 => ss[s].txn # ss[u].txn

OwnRecord(r, b) ==
    r.op.kind \notin {"Commit", "Abort"} /\ (r.op.kind \in DataKinds => r.op.id \in DOMAIN b.pending)

OpenRecords(w, b) == \A i \in DOMAIN w : w[i].txn = b.txn => OwnRecord(w[i], b)

RecordsOwn(w, ss, dam) ==
    "txnReuse" \notin dam => \A s \in Sessions : ss[s].txn # 0 => OpenRecords(w, ss[s])

LEMMA OpenRecordsMore ==
    ASSUME NEW w, WalOK(w), NEW r, NEW b, NEW c, OpenRecords(w, b), c.txn = b.txn,
           DOMAIN b.pending \subseteq DOMAIN c.pending, r.txn = c.txn => OwnRecord(r, c)
    PROVE  OpenRecords(Append(w, r), c)
  <1>1. Len(w) \in Nat /\ DOMAIN w = 1..Len(w) /\ DOMAIN Append(w, r) = 1..(Len(w) + 1)
    BY DEF WalOK
  <1>2. Append(w, r)[Len(w) + 1] = r /\ \A i \in 1..Len(w) : Append(w, r)[i] = w[i]
    BY DEF WalOK
  <1>3. \A i \in 1..(Len(w) + 1) : i \in 1..Len(w) \/ i = Len(w) + 1
    BY <1>1
  <1> SUFFICES ASSUME NEW i \in 1..(Len(w) + 1), Append(w, r)[i].txn = c.txn
               PROVE  OwnRecord(Append(w, r)[i], c)
    BY <1>1 DEF OpenRecords
  <1>4. CASE i \in 1..Len(w)
    <2>1. OwnRecord(w[i], b)
      BY <1>1, <1>2, <1>4 DEF OpenRecords
    <2> QED
      BY <1>2, <1>4, <2>1 DEF OwnRecord
  <1>5. CASE i = Len(w) + 1
    BY <1>2, <1>5
  <1> QED
    BY <1>3, <1>4, <1>5

LEMMA NoSession ==
    ASSUME TypeInv, ~up, NEW s \in Sessions
    PROVE  /\ sess[s] = NewSession /\ sess[s].txn = 0 /\ DOMAIN sess[s].pending = {}
           /\ sess[s].undo = <<>> /\ sess[s].unrecorded = FALSE /\ DOMAIN sess[s].scan = {}
  BY NewSessionType DEF TypeInv

LEMMA TxnsStep ==
    ASSUME TypeInv, StepKind, TxnsApart(sess)
    PROVE  TxnsApart(sess')
  <1> SUFFICES ASSUME NEW s \in Sessions, NEW u \in Sessions, s # u, sess'[s].txn # 0
               PROVE  sess'[s].txn # sess'[u].txn
    BY DEF TxnsApart
  <1>1. \A v \in Sessions : sess[v].txn \in Nat /\ sess[v].txn < db.nextTxn
    BY DEF TypeInv, SessType
  <1>2. db.nextTxn \in Nat
    BY DEF TypeInv, DbType
  <1>3. \A v \in Sessions : \/ sess'[v].txn = sess[v].txn
                            \/ sess'[v].txn = 0
                            \/ /\ sess'[v].txn = db.nextTxn
                               /\ \A x \in Sessions : x # v => sess'[x] = sess[x]
    <2> SUFFICES ASSUME NEW v \in Sessions
                 PROVE  \/ sess'[v].txn = sess[v].txn
                        \/ sess'[v].txn = 0
                        \/ /\ sess'[v].txn = db.nextTxn
                           /\ \A x \in Sessions : x # v => sess'[x] = sess[x]
      OBVIOUS
    <2>1. CASE Quiet
      BY <2>1 DEF Quiet, SameWork
    <2>2. ASSUME NEW z \in Sessions, Begins(z)
          PROVE  \/ sess'[v].txn = sess[v].txn
                 \/ /\ sess'[v].txn = db.nextTxn
                    /\ \A x \in Sessions : x # v => sess'[x] = sess[x]
      BY <2>2 DEF Begins, OthersSame
    <2>3. ASSUME NEW z \in Sessions, NEW id, Notes(z, id)
          PROVE  sess'[v].txn = sess[v].txn
      BY <2>3 DEF Notes, OthersSame, Recorded
    <2>4. ASSUME NEW z \in Sessions, NEW e, ChangesRow(z, e)
          PROVE  sess'[v].txn = sess[v].txn
      BY <2>4 DEF ChangesRow, OthersSame, Recorded
    <2>5. ASSUME NEW z \in Sessions, sess'[z] = NewSession, OthersSame(z)
          PROVE  sess'[v].txn = sess[v].txn \/ sess'[v].txn = 0
      BY <2>5, NewSessionType DEF OthersSame
    <2>6. CASE SavesAll \/ Opens
      BY <2>6 DEF SavesAll, Opens
    <2>7. CASE Stops
      BY <2>7, NewSessionType DEF Stops
    <2> QED
      BY <2>1, <2>2, <2>3, <2>4, <2>5, <2>6, <2>7
      DEF StepKind, Appends, Saves, Strays, WritesRow, Commits, RollsBack, Leaves, Dies, ShutsDown
  <1>4. sess[s].txn # 0 => sess[s].txn # sess[u].txn
    BY DEF TxnsApart
  <1>5. CASE sess'[s].txn = sess[s].txn
    BY <1>1, <1>2, <1>3, <1>4, <1>5
  <1>6. CASE sess'[s].txn = db.nextTxn /\ sess'[u] = sess[u]
    BY <1>1, <1>2, <1>6
  <1> QED
    BY <1>3, <1>5, <1>6

LEMMA RecordsStep ==
    ASSUME TypeInv, StepKind, TxnsApart(sess), RecordsOwn(db.wal, sess, damage)
    PROVE  RecordsOwn(db'.wal, sess', damage')
  <1> SUFFICES ASSUME "txnReuse" \notin damage', NEW s \in Sessions, sess'[s].txn # 0
               PROVE  OpenRecords(db'.wal, sess'[s])
    BY DEF RecordsOwn
  <1>0. WalOK(db.wal)
    BY DEF TypeInv, DbType
  <1>1. "txnReuse" \notin damage
    BY DEF StepKind, Quiet, Begins, Notes, Appends, Saves, Strays, Commits, RollsBack, Leaves, SavesAll,
           Dies, ShutsDown, Opens, MemoryDamage
  <1>2. sess[s].txn # 0 => OpenRecords(db.wal, sess[s])
    BY <1>1 DEF RecordsOwn
  <1>3. ASSUME sess'[s].txn = sess[s].txn, DOMAIN sess[s].pending \subseteq DOMAIN sess'[s].pending,
               db'.wal = db.wal \/ db'.wal = <<>>
        PROVE  OpenRecords(db'.wal, sess'[s])
    BY <1>2, <1>3 DEF OpenRecords, OwnRecord
  <1>4. ASSUME sess'[s].txn = sess[s].txn, DOMAIN sess[s].pending \subseteq DOMAIN sess'[s].pending,
               NEW r, db'.wal = Append(db.wal, r), r.txn = sess'[s].txn => OwnRecord(r, sess'[s])
        PROVE  OpenRecords(db'.wal, sess'[s])
    <2>1. OpenRecords(db.wal, sess[s])
      BY <1>2, <1>4
    <2>2. OpenRecords(Append(db.wal, r), sess'[s])
      BY <1>0, <1>4, <2>1, OpenRecordsMore
    <2> QED
      BY <1>4, <2>2
  <1>5. CASE Quiet
    BY <1>3, <1>5 DEF Quiet, SameWork
  <1>6. ASSUME NEW z \in Sessions, Begins(z)
        PROVE  OpenRecords(db'.wal, sess'[s])
    <2>1. PICK r : r = [lsn |-> db.lsn + 1, txn |-> db.nextTxn, op |-> Control("Begin")]
      OBVIOUS
    <2>2. db'.wal = Append(db.wal, r) /\ r.txn = db.nextTxn /\ r.op.kind = "Begin"
      BY <1>6, <2>1 DEF Begins, Logs, Control
    <2>3. OwnRecord(r, sess'[s])
      BY <2>2 DEF OwnRecord, DataKinds
    <2>4. CASE s # z
      BY <1>4, <1>6, <2>2, <2>3, <2>4 DEF Begins, OthersSame
    <2>5. CASE s = z
      <3>1. \A i \in DOMAIN db.wal : db.wal[i].txn # db.nextTxn
        BY <1>6 DEF Begins, Reuse
      <3>2. sess'[s].txn = db.nextTxn
        BY <1>6, <2>5 DEF Begins
      <3>3. OpenRecords(db.wal, sess'[s])
        BY <3>1, <3>2 DEF OpenRecords
      <3> QED
        BY <1>0, <2>2, <2>3, <3>3, OpenRecordsMore
    <2> QED
      BY <2>4, <2>5
  <1>7. ASSUME NEW z \in Sessions, NEW id, Notes(z, id)
        PROVE  OpenRecords(db'.wal, sess'[s])
    BY <1>3, <1>7 DEF Notes, OthersSame, Recorded
  <1>8. ASSUME NEW z \in Sessions, NEW e, WritesRow(z, e)
        PROVE  /\ sess'[s].txn = sess[s].txn /\ DOMAIN sess[s].pending \subseteq DOMAIN sess'[s].pending
               /\ s = z => e.id \in DOMAIN sess'[s].pending
    BY <1>8 DEF WritesRow, ChangesRow, OthersSame, Recorded, Put
  <1>9. ASSUME NEW z \in Sessions, NEW e, Appends(z, e)
        PROVE  OpenRecords(db'.wal, sess'[s])
    <2>1. PICK r : r = [lsn |-> db.lsn + 1, txn |-> sess[z].txn, op |-> e]
      OBVIOUS
    <2>2. db'.wal = Append(db.wal, r) /\ r.txn = sess[z].txn /\ r.op = e /\ WritesRow(z, e)
      BY <1>9, <2>1 DEF Appends, Logs
    <2>3. e.kind \in DataKinds /\ sess[z].txn # 0
      BY <2>2 DEF WritesRow, ChangesRow
    <2>4. r.txn = sess'[s].txn => OwnRecord(r, sess'[s])
      <3>1. s # z => sess[s].txn # sess[z].txn
        BY <2>3 DEF TxnsApart
      <3> QED
        BY <1>8, <2>2, <2>3, <3>1 DEF OwnRecord, DataKinds
    <2> QED
      BY <1>4, <1>8, <2>2, <2>4
  <1>10. ASSUME NEW z \in Sessions, NEW e, Saves(z, e)
         PROVE  OpenRecords(db'.wal, sess'[s])
    BY <1>3, <1>8, <1>10 DEF Saves
  <1>10a. ASSUME NEW z \in Sessions, NEW e, Strays(z, e)
          PROVE  OpenRecords(db'.wal, sess'[s])
    BY <1>3, <1>10a DEF Strays, ChangesRow, OthersSame, Recorded
  <1>11. ASSUME NEW z \in Sessions, Commits(z) \/ RollsBack(z)
         PROVE  OpenRecords(db'.wal, sess'[s])
    <2>1. PICK k \in {"Commit", "Abort"} : Logs(sess[z].txn, Control(k))
      BY <1>11 DEF Commits, RollsBack
    <2>2. PICK r : r = [lsn |-> db.lsn + 1, txn |-> sess[z].txn, op |-> Control(k)]
      OBVIOUS
    <2>3. db'.wal = Append(db.wal, r) /\ r.txn = sess[z].txn
      BY <2>1, <2>2 DEF Logs
    <2>4. sess'[z] = NewSession /\ OthersSame(z) /\ sess[z].txn # 0
      BY <1>11 DEF Commits, RollsBack
    <2>5. s # z /\ sess'[s] = sess[s]
      BY <2>4, NewSessionType DEF OthersSame
    <2>6. r.txn # sess'[s].txn
      BY <2>3, <2>4, <2>5 DEF TxnsApart
    <2> QED
      BY <1>4, <2>3, <2>5, <2>6
  <1>12. ASSUME NEW z \in Sessions, Leaves(z)
         PROVE  OpenRecords(db'.wal, sess'[s])
    <2>1. s # z /\ sess'[s] = sess[s] /\ db' = db
      BY <1>12, NewSessionType DEF Leaves, OthersSame
    <2> QED
      BY <1>3, <2>1
  <1>13. CASE SavesAll \/ Opens
    BY <1>3, <1>13 DEF SavesAll, Opens
  <1>14. CASE Stops
    BY <1>14, NewSessionType DEF Stops
  <1> QED
    BY <1>5, <1>6, <1>7, <1>9, <1>10, <1>10a, <1>11, <1>12, <1>13, <1>14 DEF StepKind, Dies, ShutsDown

-----------------------------------------------------------------------------
(* The sessions.  A transaction has an undo record for every row that it   *)
(* has written, unless a write is unrecorded, and the rows it has touched  *)
(* or scanned have ids that the table has given out.                       *)
IdsOf(undo) == {undo[i].id : i \in DOMAIN undo}

TouchedBy(b) == DOMAIN b.pending \cup IdsOf(b.undo)

Tidy(next, b) ==
    /\ b.unrecorded => DOMAIN b.pending # {}
    /\ ~b.unrecorded => DOMAIN b.pending \subseteq IdsOf(b.undo)
    /\ \A id \in TouchedBy(b) \cup DOMAIN b.scan : id < next

AllTidy(next, ss) == \A s \in Sessions : Tidy(next, ss[s])

LEMMA IdsMore ==
    ASSUME NEW undo, UndoOK(undo), NEW e
    PROVE  IdsOf(Append(undo, e)) = IdsOf(undo) \cup {e.id}
  <1>1. Len(undo) \in Nat /\ DOMAIN undo = 1..Len(undo) /\ DOMAIN Append(undo, e) = 1..(Len(undo) + 1)
    BY DEF UndoOK
  <1>2. Append(undo, e)[Len(undo) + 1] = e /\ \A i \in 1..Len(undo) : Append(undo, e)[i] = undo[i]
    BY DEF UndoOK
  <1>3. \A i \in 1..(Len(undo) + 1) : i \in 1..Len(undo) \/ i = Len(undo) + 1
    BY <1>1
  <1>4. Len(undo) + 1 \in 1..(Len(undo) + 1) /\ \A i \in 1..Len(undo) : i \in 1..(Len(undo) + 1)
    BY <1>1
  <1> QED
    BY <1>1, <1>2, <1>3, <1>4 DEF IdsOf

LEMMA NewTidy ==
    /\ \A n : Tidy(n, NewSession)
    /\ TouchedBy(NewSession) = {} /\ IdsOf(NewSession.undo) = {}
  <1>1. IdsOf(NewSession.undo) = {}
    BY NewSessionType DEF IdsOf
  <1>2. TouchedBy(NewSession) = {}
    BY <1>1, NewSessionType DEF TouchedBy
  <1> QED
    BY <1>1, <1>2, NewSessionType DEF Tidy

LEMMA RecordedIds ==
    ASSUME TypeInv, NEW s \in Sessions, NEW kind, NEW id, NEW old, Recorded(s, kind, id, old)
    PROVE  /\ IdsOf(sess[s].undo) \subseteq IdsOf(sess'[s].undo)
           /\ IdsOf(sess'[s].undo) \subseteq IdsOf(sess[s].undo) \cup {id}
           /\ ~Lost(s) => id \in IdsOf(sess'[s].undo)
  <1>1. UndoOK(sess[s].undo)
    BY DEF TypeInv, SessType
  <1>2. UndoOf(kind, id, old).id = id
    BY DEF UndoOf
  <1>3. CASE Lost(s)
    BY <1>3 DEF Lost
  <1>4. CASE sess'[s].undo = Append(sess[s].undo, UndoOf(kind, id, old))
    <2>1. IdsOf(sess'[s].undo) = IdsOf(sess[s].undo) \cup {UndoOf(kind, id, old).id}
      BY <1>1, <1>4, IdsMore
    <2> QED
      BY <1>2, <2>1
  <1> QED
    BY <1>3, <1>4 DEF Recorded

(* What a step leaves as it was.                                           *)
LEMMA MemNext ==
    ASSUME TypeInv
    PROVE  db.mem.next \in Nat /\ \A i \in DOMAIN db.mem.rows : i \in Ids /\ i < db.mem.next
  BY DEF TypeInv, DbType, TableOK, Ids

LEMMA TidyKept ==
    ASSUME NEW b, NEW n, NEW m, Tidy(n, b), SessType(b), n \in Nat, m \in Nat, m >= n,
           UndoOK(b.undo)
    PROVE  Tidy(m, b)
  <1>1. \A i \in DOMAIN b.undo : b.undo[i].id \in Nat
    BY DEF UndoOK, Ids
  <1>2. \A id \in TouchedBy(b) \cup DOMAIN b.scan : id \in Nat
    BY <1>1 DEF TouchedBy, IdsOf, SessType, Ids
  <1> QED
    BY <1>2 DEF Tidy

LEMMA TidyStep ==
    ASSUME TypeInv, TypeInv', StepKind, AllTidy(db.mem.next, sess)
    PROVE  AllTidy(db'.mem.next, sess')
  <1> SUFFICES ASSUME NEW s \in Sessions
               PROVE  Tidy(db'.mem.next, sess'[s])
    BY DEF AllTidy
  <1>0. Tidy(db.mem.next, sess[s]) /\ SessType(sess[s]) /\ UndoOK(sess[s].undo)
    BY DEF AllTidy, TypeInv, SessType
  <1>1. db.mem.next \in Nat /\ \A i \in DOMAIN db.mem.rows : i \in Ids /\ i < db.mem.next
    BY MemNext
  <1>2. db'.mem.next \in Nat
    BY DEF TypeInv, DbType, TableOK
  <1>3. ASSUME sess'[s] = sess[s], db'.mem.next >= db.mem.next
        PROVE  Tidy(db'.mem.next, sess'[s])
    BY <1>0, <1>1, <1>2, <1>3, TidyKept
  <1>4. ASSUME sess'[s] = NewSession
        PROVE  Tidy(db'.mem.next, sess'[s])
    BY <1>4, NewTidy
  <1>5. CASE Quiet
    BY <1>0, <1>1, <1>5 DEF Quiet, SameWork, Tidy, TouchedBy
  <1>6. ASSUME NEW z \in Sessions, Begins(z)
        PROVE  Tidy(db'.mem.next, sess'[s])
    <2>1. db'.mem.next = db.mem.next /\ db'.mem.next >= db.mem.next
      BY <1>1, <1>6 DEF Begins
    <2>2. CASE s # z
      BY <1>3, <1>6, <2>1, <2>2 DEF Begins, OthersSame
    <2>3. CASE s = z
      BY <1>1, <1>6, <2>1, <2>3 DEF Begins, Tidy, TouchedBy, IdsOf
    <2> QED
      BY <2>2, <2>3
  <1>7. ASSUME NEW z \in Sessions, NEW id, Notes(z, id)
        PROVE  Tidy(db'.mem.next, sess'[s])
    <2>1. db'.mem.next = db.mem.next /\ db'.mem.next >= db.mem.next
      BY <1>1, <1>7 DEF Notes
    <2>2. CASE s # z
      BY <1>3, <1>7, <2>1, <2>2 DEF Notes, OthersSame
    <2>3. CASE s = z
      <3>1. PICK kind : Recorded(s, kind, id, sess[s].scan[id])
        BY <1>7, <2>3 DEF Notes
      <3>2. /\ IdsOf(sess[s].undo) \subseteq IdsOf(sess'[s].undo)
            /\ IdsOf(sess'[s].undo) \subseteq IdsOf(sess[s].undo) \cup {id}
        BY <3>1, RecordedIds
      <3>3. /\ sess'[s].pending = sess[s].pending /\ sess'[s].unrecorded = sess[s].unrecorded
            /\ id \in DOMAIN sess[s].scan /\ DOMAIN sess'[s].scan \subseteq DOMAIN sess[s].scan
        BY <1>7, <2>3, <3>1 DEF Notes, Recorded
      <3> QED
        BY <1>0, <2>1, <3>2, <3>3 DEF Tidy, TouchedBy
    <2> QED
      BY <2>2, <2>3
  <1>8. ASSUME NEW z \in Sessions, NEW e, WritesRow(z, e)
        PROVE  Tidy(db'.mem.next, sess'[s])
    <2>1. db'.mem.next >= db.mem.next /\ e.id < db'.mem.next
      BY <1>8 DEF WritesRow, ChangesRow
    <2>2. CASE s # z
      BY <1>3, <1>8, <2>1, <2>2 DEF WritesRow, ChangesRow, OthersSame
    <2>3. CASE s = z
      <3>1. Recorded(s, e.kind, e.id, Old(s, e))
        BY <1>8, <2>3 DEF WritesRow, ChangesRow
      <3>2. /\ IdsOf(sess[s].undo) \subseteq IdsOf(sess'[s].undo)
            /\ IdsOf(sess'[s].undo) \subseteq IdsOf(sess[s].undo) \cup {e.id}
            /\ ~Lost(s) => e.id \in IdsOf(sess'[s].undo)
        BY <3>1, RecordedIds
      <3>3. /\ DOMAIN sess'[s].pending = DOMAIN sess[s].pending \cup {e.id}
            /\ sess'[s].unrecorded = (sess[s].unrecorded \/ Lost(s))
            /\ DOMAIN sess'[s].scan \subseteq DOMAIN sess[s].scan
        BY <1>8, <2>3, <3>1 DEF WritesRow, ChangesRow, Recorded, Put
      <3>4. Lost(s) \in BOOLEAN /\ sess[s].unrecorded \in BOOLEAN
        BY <1>0 DEF SessType, Lost
      <3>5. Tidy(db'.mem.next, sess[s])
        BY <1>0, <1>1, <1>2, <2>1, TidyKept
      <3>6. \A id \in TouchedBy(sess'[s]) \cup DOMAIN sess'[s].scan : id < db'.mem.next
        BY <2>1, <3>2, <3>3, <3>5 DEF Tidy, TouchedBy
      <3>7. ~sess'[s].unrecorded => DOMAIN sess'[s].pending \subseteq IdsOf(sess'[s].undo)
        <4> SUFFICES ASSUME ~sess'[s].unrecorded
                     PROVE  DOMAIN sess'[s].pending \subseteq IdsOf(sess'[s].undo)
          OBVIOUS
        <4>1. ~sess[s].unrecorded /\ ~Lost(s)
          BY <3>3, <3>4
        <4> QED
          BY <3>2, <3>3, <3>5, <4>1 DEF Tidy
      <3> QED
        BY <3>3, <3>6, <3>7 DEF Tidy
    <2> QED
      BY <2>2, <2>3
  <1>8a. ASSUME NEW z \in Sessions, NEW e, Strays(z, e)
         PROVE  Tidy(db'.mem.next, sess'[s])
    <2>1. /\ db'.mem.next >= db.mem.next /\ e.id < db'.mem.next /\ OthersSame(z)
          /\ Recorded(z, e.kind, e.id, Old(z, e))
      BY <1>8a DEF Strays, ChangesRow
    <2>2. CASE s # z
      BY <1>3, <2>1, <2>2 DEF OthersSame
    <2>3. CASE s = z
      <3>1. /\ IdsOf(sess[s].undo) \subseteq IdsOf(sess'[s].undo)
            /\ IdsOf(sess'[s].undo) \subseteq IdsOf(sess[s].undo) \cup {e.id}
        BY <2>1, <2>3, RecordedIds
      <3>2. /\ sess'[s].pending = sess[s].pending /\ sess'[s].unrecorded = sess[s].unrecorded
            /\ DOMAIN sess'[s].scan \subseteq DOMAIN sess[s].scan
        BY <1>8a, <2>1, <2>3 DEF Strays, Recorded
      <3>3. Tidy(db'.mem.next, sess[s])
        BY <1>0, <1>1, <1>2, <2>1, TidyKept
      <3> QED
        BY <2>1, <3>1, <3>2, <3>3 DEF Tidy, TouchedBy
    <2> QED
      BY <2>2, <2>3
  <1>9. ASSUME NEW z \in Sessions, sess'[z] = NewSession, OthersSame(z), db'.mem.next >= db.mem.next
        PROVE  Tidy(db'.mem.next, sess'[s])
    BY <1>3, <1>4, <1>9 DEF OthersSame
  <1>10. ASSUME NEW z \in Sessions, Commits(z) \/ Leaves(z)
         PROVE  Tidy(db'.mem.next, sess'[s])
    <2>1. db'.mem.next >= db.mem.next
      BY <1>1, <1>10 DEF Commits, Leaves
    <2> QED
      BY <1>9, <1>10, <2>1 DEF Commits, Leaves
  <1>11. ASSUME NEW z \in Sessions, RollsBack(z)
         PROVE  Tidy(db'.mem.next, sess'[s])
    <2>1. TableOK(db.mem) /\ UndoOK(sess[z].undo)
      BY DEF TypeInv, DbType, SessType
    <2>2. db'.mem.next >= db.mem.next
      BY <1>11, <2>1, RewoundOK DEF RollsBack
    <2> QED
      BY <1>9, <1>11, <2>2 DEF RollsBack
  <1>12. CASE SavesAll
    BY <1>1, <1>3, <1>12 DEF SavesAll
  <1>13. CASE Stops
    BY <1>4, <1>13 DEF Stops
  <1>14. CASE Opens
    <2>1. sess[s] = NewSession
      BY <1>14, NoSession DEF Opens
    <2> QED
      BY <1>4, <1>14, <2>1 DEF Opens
  <1> QED
    BY <1>5, <1>6, <1>7, <1>8, <1>8a, <1>10, <1>11, <1>12, <1>13, <1>14
    DEF StepKind, Appends, Saves, Dies, ShutsDown

(* Unless there was interference, no two transactions have touched the     *)
(* same row.                                                               *)
Apart(ss, dam) ==
    "interference" \notin dam =>
        \A s, u \in Sessions : s # u => TouchedBy(ss[s]) \cap TouchedBy(ss[u]) = {}

(* The row is as the scan found it, nobody else has touched it, and        *)
(* it is committed or the transaction's own.                               *)
Clear(s, id) ==
    /\ \A u \in Sessions : u # s => id \notin TouchedBy(sess[u])
    /\ id \in DOMAIN db.mem.rows /\ db.mem.rows[id] = sess[s].scan[id]
    /\ id \notin DOMAIN sess[s].pending
          => id \in DOMAIN committed /\ committed[id] = db.mem.rows[id].val

LEMMA ClearIs ==
    ASSUME NEW s \in Sessions, NEW id, "interference" \notin Interference(s, id)
    PROVE  Clear(s, id)
  BY DEF Interference, Clear, Touched, TouchedBy, IdsOf

LEMMA WriteClear ==
    ASSUME TypeInv, AllTidy(db.mem.next, sess), NEW s \in Sessions, NEW e, ChangesRow(s, e),
           "interference" \notin Harm(s, e)
    PROVE  /\ \A u \in Sessions : u # s => e.id \notin TouchedBy(sess[u])
           /\ e.kind # "Insert" => Clear(s, e.id)
           /\ e.kind = "Insert" => e.id \notin DOMAIN db.mem.rows /\ e.id \notin TouchedBy(sess[s])
  <1>1. CASE e.kind = "Insert"
    <2>1. e.id = db.mem.next
      BY <1>1 DEF ChangesRow
    <2>2. db.mem.next \in Nat /\ \A i \in DOMAIN db.mem.rows : i \in Ids /\ i < db.mem.next
      BY MemNext
    <2>3. \A u \in Sessions : \A id \in TouchedBy(sess[u]) : id < db.mem.next
      BY DEF AllTidy, Tidy
    <2> QED
      BY <1>1, <2>1, <2>2, <2>3
  <1>2. CASE e.kind # "Insert"
    <2>1. Clear(s, e.id)
      BY <1>2, ClearIs DEF Harm
    <2> QED
      BY <1>2, <2>1 DEF Clear
  <1> QED
    BY <1>1, <1>2

LEMMA ApartStep ==
    ASSUME TypeInv, StepKind, AllTidy(db.mem.next, sess), Apart(sess, damage)
    PROVE  Apart(sess', damage')
  <1> SUFFICES ASSUME "interference" \notin damage', NEW s \in Sessions, NEW u \in Sessions, s # u
               PROVE  TouchedBy(sess'[s]) \cap TouchedBy(sess'[u]) = {}
    BY DEF Apart
  <1>1. "interference" \notin damage
    BY DEF StepKind, Quiet, Begins, Notes, Appends, Saves, Strays, Commits, RollsBack, Leaves, SavesAll,
           Dies, ShutsDown, Opens, MemoryDamage
  <1>2. TouchedBy(sess[s]) \cap TouchedBy(sess[u]) = {}
    BY <1>1 DEF Apart
  <1>3. ASSUME TouchedBy(sess'[s]) \subseteq TouchedBy(sess[s]),
               TouchedBy(sess'[u]) \subseteq TouchedBy(sess[u])
        PROVE  TouchedBy(sess'[s]) \cap TouchedBy(sess'[u]) = {}
    BY <1>2, <1>3
  <1>4. ASSUME NEW z \in Sessions, OthersSame(z), NEW id,
               TouchedBy(sess'[z]) \subseteq TouchedBy(sess[z]) \cup {id},
               \A v \in Sessions : v # z => id \notin TouchedBy(sess[v])
        PROVE  TouchedBy(sess'[s]) \cap TouchedBy(sess'[u]) = {}
    <2>1. \A v \in Sessions : v # z => sess'[v] = sess[v]
      BY <1>4 DEF OthersSame
    <2>2. CASE s = z
      BY <1>2, <1>4, <2>1, <2>2
    <2>3. CASE u = z
      BY <1>2, <1>4, <2>1, <2>3
    <2>4. CASE s # z /\ u # z
      BY <1>2, <2>1, <2>4
    <2> QED
      BY <2>2, <2>3, <2>4
  <1>5. CASE Quiet
    BY <1>3, <1>5 DEF Quiet, SameWork, TouchedBy
  <1>6. ASSUME NEW z \in Sessions, OthersSame(z), TouchedBy(sess'[z]) = {}
        PROVE  TouchedBy(sess'[s]) \cap TouchedBy(sess'[u]) = {}
    BY <1>2, <1>6 DEF OthersSame
  <1>7. ASSUME NEW z \in Sessions, Begins(z)
        PROVE  TouchedBy(sess'[s]) \cap TouchedBy(sess'[u]) = {}
    <2>1. TouchedBy(sess'[z]) = {}
      BY <1>7 DEF Begins, TouchedBy, IdsOf
    <2> QED
      BY <1>6, <1>7, <2>1 DEF Begins
  <1>8. ASSUME NEW z \in Sessions, NEW id, Notes(z, id)
        PROVE  TouchedBy(sess'[s]) \cap TouchedBy(sess'[u]) = {}
    <2>1. PICK kind : Recorded(z, kind, id, sess[z].scan[id])
      BY <1>8 DEF Notes
    <2>2. IdsOf(sess'[z].undo) \subseteq IdsOf(sess[z].undo) \cup {id}
      BY <2>1, RecordedIds
    <2>3. TouchedBy(sess'[z]) \subseteq TouchedBy(sess[z]) \cup {id}
      BY <1>8, <2>2 DEF Notes, TouchedBy
    <2>4. Clear(z, id)
      BY <1>8, ClearIs DEF Notes
    <2> QED
      BY <1>4, <1>8, <2>3, <2>4 DEF Notes, Clear
  <1>9. ASSUME NEW z \in Sessions, NEW e, ChangesRow(z, e), "interference" \notin Harm(z, e),
               DOMAIN sess'[z].pending \subseteq DOMAIN sess[z].pending \cup {e.id}
        PROVE  TouchedBy(sess'[s]) \cap TouchedBy(sess'[u]) = {}
    <2>1. Recorded(z, e.kind, e.id, Old(z, e)) /\ OthersSame(z)
      BY <1>9 DEF ChangesRow
    <2>2. IdsOf(sess'[z].undo) \subseteq IdsOf(sess[z].undo) \cup {e.id}
      BY <2>1, RecordedIds
    <2>4. TouchedBy(sess'[z]) \subseteq TouchedBy(sess[z]) \cup {e.id}
      BY <1>9, <2>2 DEF TouchedBy
    <2>5. \A v \in Sessions : v # z => e.id \notin TouchedBy(sess[v])
      BY <1>9, WriteClear
    <2> QED
      BY <1>4, <2>1, <2>4, <2>5
  <1>10. ASSUME NEW z \in Sessions, NEW e, Appends(z, e) \/ Saves(z, e) \/ Strays(z, e)
         PROVE  TouchedBy(sess'[s]) \cap TouchedBy(sess'[u]) = {}
    <2>1. ChangesRow(z, e) /\ "interference" \notin Harm(z, e)
      BY <1>10 DEF Appends, Saves, Strays, WritesRow
    <2>2. DOMAIN sess'[z].pending \subseteq DOMAIN sess[z].pending \cup {e.id}
      BY <1>10 DEF Appends, Saves, Strays, WritesRow, Put
    <2> QED
      BY <1>9, <2>1, <2>2
  <1>11. ASSUME NEW z \in Sessions, Commits(z) \/ RollsBack(z) \/ Leaves(z)
         PROVE  TouchedBy(sess'[s]) \cap TouchedBy(sess'[u]) = {}
    BY <1>6, <1>11, NewTidy DEF Commits, RollsBack, Leaves
  <1>12. CASE SavesAll \/ Opens
    BY <1>3, <1>12 DEF SavesAll, Opens
  <1>13. CASE Stops
    BY <1>13, NewTidy DEF Stops
  <1> QED
    BY <1>5, <1>7, <1>8, <1>10, <1>11, <1>12, <1>13 DEF StepKind, Dies, ShutsDown

-----------------------------------------------------------------------------
(* Memory.  While nothing has gone wrong that reaches the files, a row     *)
(* that is there is not one that an open transaction has deleted last; if  *)
(* memory is sound too, a row has the value that the open transaction with *)
(* a write on it gave it last, every other row has its committed value,    *)
(* and the undo list of a transaction takes each of its rows back to that. *)
Com(com, id) == IF id \in DOMAIN com THEN com[id] ELSE 0

NoDisk(dam) == dam \cap DiskDamage = {}

Sound(p, dam) == NoDisk(dam) /\ (p \/ dam \cap MemoryDamage = {})

Free(ss, id) == \A s \in Sessions : id \notin DOMAIN ss[s].pending

UndoLands(undo, id, b, c) == Lands(Len(undo), Reverse(undo), id, {b}, {c})

WrittenIs(mem, ss) ==
    \A s \in Sessions : \A id \in DOMAIN ss[s].pending : Cell(mem, id) = ss[s].pending[id]

ThereIs(mem, ss) ==
    \A s \in Sessions : \A id \in DOMAIN ss[s].pending : Cell(mem, id) # 0 => ss[s].pending[id] # 0

RestIs(mem, ss, com) == \A id \in Ids : Free(ss, id) => Cell(mem, id) = Com(com, id)

UndoIs(mem, b, com) ==
    ~b.unrecorded => \A id \in IdsOf(b.undo) : UndoLands(b.undo, id, Cell(mem, id), Com(com, id))

MemOf(p, mem, ss, com, dam) ==
    /\ NoDisk(dam) => ThereIs(mem, ss)
    /\ Sound(p, dam) => WrittenIs(mem, ss)
    /\ Sound(p, dam) => RestIs(mem, ss, com)
    /\ Sound(p, dam) => \A s \in Sessions : UndoIs(mem, ss[s], com)

LEMMA ReverseIs ==
    ASSUME NEW undo, UndoOK(undo), NEW e
    PROVE  LET n == Len(undo)
           IN  /\ n \in Nat /\ Len(Append(undo, e)) = n + 1
               /\ Reverse(Append(undo, e))[1] = e
               /\ \A i \in 1..n : Reverse(Append(undo, e))[i + 1] = Reverse(undo)[i]
               /\ \A i \in 1..n : \E j \in DOMAIN undo : Reverse(undo)[i] = undo[j]
  <1> DEFINE n == Len(undo)
             v == Append(undo, e)
  <1>1. n \in Nat /\ Len(v) = n + 1 /\ v[n + 1] = e /\ \A i \in 1..n : v[i] = undo[i]
    BY DEF UndoOK
  <1>2. DOMAIN undo = 1..n
    BY DEF UndoOK
  <1> HIDE DEF n, v
  <1>3. Reverse(v) = [i \in 1..(n + 1) |-> v[((n + 1) - i) + 1]]
    BY <1>1 DEF Reverse
  <1>4. Reverse(undo) = [i \in 1..n |-> undo[(n - i) + 1]]
    BY DEF Reverse, n
  <1>5. Reverse(v)[1] = e
    <2>1. 1 \in 1..(n + 1) /\ ((n + 1) - 1) + 1 = n + 1
      BY <1>1
    <2> QED
      BY <1>1, <1>3, <2>1
  <1>6. ASSUME NEW i \in 1..n
        PROVE  Reverse(v)[i + 1] = Reverse(undo)[i] /\ \E j \in DOMAIN undo : Reverse(undo)[i] = undo[j]
    <2>1. i + 1 \in 1..(n + 1) /\ ((n + 1) - (i + 1)) + 1 = (n - i) + 1 /\ (n - i) + 1 \in 1..n
      BY <1>1
    <2> QED
      BY <1>1, <1>2, <1>3, <1>4, <2>1
  <1> QED
    BY <1>1, <1>5, <1>6 DEF n, v

LEMMA UndoLandsMore ==
    ASSUME NEW undo, UndoOK(undo), NEW e, NEW id, NEW b, NEW c,
           UndoLands(undo, id, EffCell(e, id, b), c)
    PROVE  UndoLands(Append(undo, e), id, b, c)
  <1>1. PICK n : n = Len(undo)
    OBVIOUS
  <1>2. PICK x : x = Reverse(undo)
    OBVIOUS
  <1>3. PICK y : y = Reverse(Append(undo, e))
    OBVIOUS
  <1>4. n \in Nat /\ Len(Append(undo, e)) = n + 1 /\ y[1] = e /\ \A i \in 1..n : y[i + 1] = x[i]
    BY <1>1, <1>2, <1>3, ReverseIs
  <1>5. Lands(n, x, id, {EffCell(y[1], id, b)}, {c})
    BY <1>1, <1>2, <1>4 DEF UndoLands
  <1>6. Lands(n + 1, y, id, {b}, {c})
    BY <1>4, <1>5, LandsFirst
  <1> QED
    BY <1>3, <1>4, <1>6 DEF UndoLands

LEMMA UndoLandsNone ==
    ASSUME NEW undo, UndoOK(undo), NEW id, id \notin IdsOf(undo), NEW b
    PROVE  UndoLands(undo, id, b, b)
  <1>1. PICK n : n = Len(undo)
    OBVIOUS
  <1>2. PICK x : x = Reverse(undo)
    OBVIOUS
  <1>3. n \in Nat /\ \A i \in 1..n : \E j \in DOMAIN undo : x[i] = undo[j]
    BY <1>1, <1>2, ReverseIs
  <1>4. \A i \in 1..n : x[i].id # id
    BY <1>3 DEF IdsOf
  <1>5. Lands(n, x, id, {b}, {b})
    BY <1>3, <1>4, LandsNone
  <1> QED
    BY <1>1, <1>2, <1>5 DEF UndoLands

LEMMA RewoundCell ==
    ASSUME NEW t, TableOK(t), NEW undo, UndoOK(undo), NEW id \in Ids
    PROVE  /\ \A c : UndoLands(undo, id, Cell(t, id), c) => Cell(Rewound(t, undo), id) = c
           /\ id \notin IdsOf(undo) => Cell(Rewound(t, undo), id) = Cell(t, id)
  <1>1. \A S : Lands(Len(undo), Reverse(undo), id, {Cell(t, id)}, S)
                   => Cell(Rewound(t, undo), id) \in S
    BY RewoundOK
  <1>2. ASSUME NEW c, UndoLands(undo, id, Cell(t, id), c)
        PROVE  Cell(Rewound(t, undo), id) = c
    <2>1. Lands(Len(undo), Reverse(undo), id, {Cell(t, id)}, {c})
      BY <1>2 DEF UndoLands
    <2>2. Cell(Rewound(t, undo), id) \in {c}
      BY <1>1, <2>1
    <2> QED
      BY <2>2
  <1>3. id \notin IdsOf(undo) => UndoLands(undo, id, Cell(t, id), Cell(t, id))
    BY UndoLandsNone
  <1> QED
    BY <1>2, <1>3

(* An undo record more, with which the row goes back to where it was.      *)
LEMMA UndoIsMore ==
    ASSUME NEW b, NEW c, UndoOK(b.undo), NEW e, c.undo = Append(b.undo, e), c.unrecorded = FALSE,
           b.unrecorded = FALSE, NEW mem, NEW mem2, NEW com, UndoIs(mem, b, com),
           \A id \in IdsOf(b.undo) : id # e.id => Cell(mem2, id) = Cell(mem, id),
           EffCell(e, e.id, Cell(mem2, e.id)) = Cell(mem, e.id),
           e.id \notin IdsOf(b.undo) => Cell(mem, e.id) = Com(com, e.id)
    PROVE  UndoIs(mem2, c, com)
  <1> SUFFICES ASSUME NEW id \in IdsOf(c.undo)
               PROVE  UndoLands(c.undo, id, Cell(mem2, id), Com(com, id))
    BY DEF UndoIs
  <1>1. IdsOf(c.undo) = IdsOf(b.undo) \cup {e.id}
    BY IdsMore
  <1>2. EffCell(e, id, Cell(mem2, id)) = Cell(mem, id)
    <2>1. CASE id = e.id
      BY <2>1
    <2>2. CASE id # e.id
      BY <1>1, <2>2 DEF EffCell
    <2> QED
      BY <2>1, <2>2
  <1>3. UndoLands(b.undo, id, Cell(mem, id), Com(com, id))
    <2>1. CASE id \in IdsOf(b.undo)
      BY <2>1 DEF UndoIs
    <2>2. CASE id \notin IdsOf(b.undo)
      <3>1. Cell(mem, id) = Com(com, id)
        BY <1>1, <2>2
      <3>2. UndoLands(b.undo, id, Cell(mem, id), Cell(mem, id))
        BY <2>2, UndoLandsNone
      <3> QED
        BY <3>1, <3>2
    <2> QED
      BY <2>1, <2>2
  <1>4. UndoLands(Append(b.undo, e), id, Cell(mem2, id), Com(com, id))
    BY <1>2, <1>3, UndoLandsMore
  <1> QED
    BY <1>4

LEMMA UndoIsSame ==
    ASSUME NEW b, NEW c, NEW mem, NEW mem2, NEW com, NEW com2, UndoIs(mem, b, com),
           c.undo = b.undo, c.unrecorded = b.unrecorded,
           \A id \in IdsOf(b.undo) : Cell(mem2, id) = Cell(mem, id) /\ Com(com2, id) = Com(com, id)
    PROVE  UndoIs(mem2, c, com2)
  BY DEF UndoIs

-----------------------------------------------------------------------------
(* The table file.  A paged one is memory, with the writes of the open     *)
(* transactions in it; the other kind has the committed values when the    *)
(* log is empty, except in the rows of the transactions it was saved in.   *)
(* Of a closed database the log is seen entirely.                          *)
PendingIn(ss) == {s \in Sessions : DOMAIN ss[s].pending # {}}

AllCommitted(t, com) == \A id \in Ids : Cell(t, id) = Com(com, id)

FileOf(p, u, d, ss, com, dirt, dam) ==
    /\ p /\ u => d.dat = d.mem /\ PendingIn(ss) \subseteq dirt
    /\ ~p /\ d.ckpt = 0 => dirt = {}
    /\ NoDisk(dam) /\ ~u => d.wal = <<>> \/ d.ckpt = 0
    /\ NoDisk(dam) /\ ~p /\ d.wal = <<>> =>
          \A id \in Ids : (\A s \in dirt : id \notin DOMAIN ss[s].pending)
                             => Cell(d.dat, id) = Com(com, id)
    /\ NoDisk(dam) /\ p /\ ~u => AllCommitted(d.dat, com)

(* The log.  While none of it is hidden, replay takes every row of the     *)
(* file to its committed value, and with the records of an open            *)
(* transaction to the value that this transaction gave it.  The file of a  *)
(* paged table may have it already: then replay leaves it, and leaves a    *)
(* row that is there.                                                      *)
Fix(w, K, id, c) == Rep(w, K, id, {c}, {c}) /\ (c # 0 => Rep(w, K, id, Pos, Pos))

Good(p, w, K, id, b, c) == IF p THEN Fix(w, K, id, c) ELSE Rep(w, K, id, {b}, {c})

ReplaysCommitted(p, d, com) ==
    \A id \in Ids : Good(p, d.wal, Winners(d), id, Cell(d.dat, id), Com(com, id))

ReplaysOpen(p, d, b) ==
    \A id \in DOMAIN b.pending :
        Good(p, d.wal, Winners(d) \cup {b.txn}, id, Cell(d.dat, id), b.pending[id])

ReplayOf(p, d, ss, com, dam) ==
    NoDisk(dam) /\ d.ckpt = 0 =>
        ReplaysCommitted(p, d, com) /\ \A s \in Sessions : ReplaysOpen(p, d, ss[s])

(* The inductive invariant.                                                *)
IInv ==
    /\ TypeInv
    /\ TxnsApart(sess) /\ RecordsOwn(db.wal, sess, damage)
    /\ AllTidy(db.mem.next, sess) /\ Apart(sess, damage)
    /\ up => MemOf(paged, db.mem, sess, committed, damage)
    /\ FileOf(paged, up, db, sess, committed, dirty, damage)
    /\ ReplayOf(paged, db, sess, committed, damage)

LEMMA DamageGrows ==
    ASSUME NEW dam, NEW more, dam \subseteq more
    PROVE  /\ NoDisk(more) => NoDisk(dam) /\ "interference" \notin more /\ "txnReuse" \notin more
                              /\ "dirtyFile" \notin more /\ "hidden" \notin more
           /\ \A p : Sound(p, more) => Sound(p, dam) /\ NoDisk(more)
  BY DEF NoDisk, Sound, DiskDamage

LEMMA SessionTypes ==
    ASSUME IInv, NEW s \in Sessions
    PROVE  /\ SessType(sess[s]) /\ UndoOK(sess[s].undo) /\ sess[s].auto \in BOOLEAN
           /\ sess[s].unrecorded \in BOOLEAN /\ Tidy(db.mem.next, sess[s])
           /\ IdsOf(sess[s].undo) \subseteq Ids /\ DOMAIN sess[s].pending \subseteq Ids
           /\ sess[s].txn = 0 => DOMAIN sess[s].pending = {}
  <1>1. SessType(sess[s]) /\ Tidy(db.mem.next, sess[s])
    BY DEF IInv, TypeInv, AllTidy
  <1>2. UndoOK(sess[s].undo)
    BY <1>1 DEF SessType
  <1>3. IdsOf(sess[s].undo) \subseteq Ids
    BY <1>2 DEF UndoOK, IdsOf
  <1> QED
    BY <1>1, <1>2, <1>3 DEF SessType

LEMMA Disjoint ==
    ASSUME IInv, NoDisk(damage), NEW s \in Sessions, NEW u \in Sessions, s # u
    PROVE  TouchedBy(sess[s]) \cap TouchedBy(sess[u]) = {}
  BY DamageGrows DEF IInv, Apart

-----------------------------------------------------------------------------
(* What the steps do to memory.                                            *)
LEMMA MemQuiet ==
    ASSUME IInv, up, Quiet
    PROVE  MemOf(paged, db'.mem, sess', committed', damage')
  <1>1. MemOf(paged, db.mem, sess, committed, damage)
    BY DEF IInv
  <1>2. db' = db /\ committed' = committed /\ damage' = damage
    BY DEF Quiet
  <1>3. \A s \in Sessions : /\ sess'[s].pending = sess[s].pending /\ sess'[s].undo = sess[s].undo
                            /\ sess'[s].unrecorded = sess[s].unrecorded
    BY DEF Quiet, SameWork
  <1>4. /\ WrittenIs(db.mem, sess) => WrittenIs(db.mem, sess')
        /\ ThereIs(db.mem, sess) => ThereIs(db.mem, sess')
    BY <1>3 DEF WrittenIs, ThereIs
  <1>5. RestIs(db.mem, sess, committed) => RestIs(db.mem, sess', committed)
    BY <1>3 DEF RestIs, Free
  <1>6. \A s \in Sessions : UndoIs(db.mem, sess[s], committed) => UndoIs(db.mem, sess'[s], committed)
    BY <1>3 DEF UndoIs
  <1> QED
    BY <1>1, <1>2, <1>4, <1>5, <1>6 DEF MemOf

LEMMA MemBegins ==
    ASSUME IInv, NEW s \in Sessions, Begins(s)
    PROVE  MemOf(paged, db'.mem, sess', committed', damage')
  <1>1. MemOf(paged, db.mem, sess, committed, damage)
    BY DEF IInv, Begins
  <1>2. db'.mem = db.mem /\ committed' = committed /\ damage \subseteq damage'
    BY DEF Begins
  <1>3. \A u \in Sessions : u # s => sess'[u] = sess[u]
    BY DEF Begins, OthersSame
  <1>4. DOMAIN sess'[s].pending = {} /\ DOMAIN sess[s].pending = {} /\ sess'[s].undo = <<>>
    BY SessionTypes DEF Begins
  <1>5. IdsOf(sess'[s].undo) = {}
    BY <1>4 DEF IdsOf
  <1>6. /\ WrittenIs(db.mem, sess) => WrittenIs(db.mem, sess')
        /\ ThereIs(db.mem, sess) => ThereIs(db.mem, sess')
    BY <1>3, <1>4 DEF WrittenIs, ThereIs
  <1>7. RestIs(db.mem, sess, committed) => RestIs(db.mem, sess', committed)
    BY <1>3, <1>4 DEF RestIs, Free
  <1>8. \A u \in Sessions : UndoIs(db.mem, sess[u], committed) => UndoIs(db.mem, sess'[u], committed)
    BY <1>3, <1>5 DEF UndoIs
  <1> QED
    BY <1>1, <1>2, <1>6, <1>7, <1>8, DamageGrows DEF MemOf

LEMMA MemNotes ==
    ASSUME IInv, NEW s \in Sessions, NEW id \in Ids, Notes(s, id)
    PROVE  MemOf(paged, db'.mem, sess', committed', damage')
  <1>1. MemOf(paged, db.mem, sess, committed, damage)
    BY DEF IInv, Notes
  <1>2. /\ db' = db /\ committed' = committed /\ damage' = damage \cup Interference(s, id)
        /\ sess'[s].pending = sess[s].pending /\ sess'[s].unrecorded = sess[s].unrecorded
    BY DEF Notes
  <1>3. \A u \in Sessions : u # s => sess'[u] = sess[u]
    BY DEF Notes, OthersSame
  <1>4. \A u \in Sessions : sess'[u].pending = sess[u].pending
    BY <1>2, <1>3
  <1>5. /\ WrittenIs(db.mem, sess) => WrittenIs(db.mem, sess')
        /\ ThereIs(db.mem, sess) => ThereIs(db.mem, sess')
    BY <1>4 DEF WrittenIs, ThereIs
  <1>6. RestIs(db.mem, sess, committed) => RestIs(db.mem, sess', committed)
    BY <1>4 DEF RestIs, Free
  <1>7. ASSUME Sound(paged, damage')
        PROVE  UndoIs(db.mem, sess'[s], committed)
    <2>1. Sound(paged, damage) /\ "interference" \notin damage'
      BY <1>2, <1>7, DamageGrows
    <2>2. UndoIs(db.mem, sess[s], committed) /\ RestIs(db.mem, sess, committed)
      BY <1>1, <2>1 DEF MemOf
    <2>3. Clear(s, id)
      BY <1>2, <2>1, ClearIs
    <2>4. PICK kind \in {"Update", "Delete"} :
             Recorded(s, kind, id, sess[s].scan[id]) /\ (kind = "Delete" => id \notin DOMAIN db.mem.rows)
      BY DEF Notes
    <2>5. kind = "Update"
      BY <2>3, <2>4 DEF Clear
    <2>6. CASE Lost(s)
      <3>1. sess'[s].undo = sess[s].undo
        BY <2>6 DEF Lost
      <3> QED
        BY <1>2, <2>2, <3>1 DEF UndoIs
    <2>7. CASE sess[s].unrecorded
      BY <1>2, <2>7 DEF UndoIs
    <2>8. CASE ~Lost(s) /\ ~sess[s].unrecorded
      <3>1. PICK e : e = UndoOf("Update", id, sess[s].scan[id])
        OBVIOUS
      <3>2. e.kind = "Update" /\ e.id = id /\ e.row = sess[s].scan[id]
        BY <3>1 DEF UndoOf
      <3>3. sess'[s].undo = Append(sess[s].undo, e)
        BY <2>4, <2>5, <2>8, <3>1 DEF Recorded
      <3>4. Cell(db.mem, id) = sess[s].scan[id].val
        BY <2>3 DEF Clear, Cell
      <3>5. EffCell(e, id, Cell(db.mem, id)) = Cell(db.mem, id)
        BY <3>2, <3>4 DEF EffCell, CellStep
      <3>6. id \notin IdsOf(sess[s].undo) => Cell(db.mem, id) = Com(committed, id)
        <4> SUFFICES ASSUME id \notin IdsOf(sess[s].undo)
                     PROVE  Free(sess, id)
          BY <2>2 DEF RestIs
        <4>1. id \notin DOMAIN sess[s].pending
          BY <2>8, SessionTypes DEF Tidy
        <4>2. \A u \in Sessions : u # s => id \notin DOMAIN sess[u].pending
          BY <2>3 DEF Clear, TouchedBy
        <4> QED
          BY <4>1, <4>2 DEF Free
      <3>7. UndoOK(sess[s].undo) /\ sess[s].unrecorded = FALSE /\ sess'[s].unrecorded = FALSE
        BY <1>2, <2>8, SessionTypes
      <3> QED
        BY <2>2, <3>2, <3>3, <3>5, <3>6, <3>7, UndoIsMore
    <2> QED
      BY <2>6, <2>7, <2>8
  <1>8. ASSUME Sound(paged, damage')
        PROVE  \A u \in Sessions : UndoIs(db.mem, sess'[u], committed)
    <2>1. Sound(paged, damage)
      BY <1>2, <1>8, DamageGrows
    <2> QED
      BY <1>1, <1>3, <1>7, <1>8, <2>1 DEF MemOf
  <1>9. (NoDisk(damage') => NoDisk(damage)) /\ (Sound(paged, damage') => Sound(paged, damage))
    BY <1>2, DamageGrows
  <1> QED
    BY <1>1, <1>2, <1>5, <1>6, <1>8, <1>9 DEF MemOf

(* What the undo record of a write says.                                   *)
LEMMA UndoTakesBack ==
    ASSUME IInv, NEW s \in Sessions, NEW e, WritesRow(s, e), "interference" \notin Harm(s, e)
    PROVE  EffCell(UndoOf(e.kind, e.id, Old(s, e)), e.id, e.row.val) = Cell(db.mem, e.id)
  <1>1. PICK x : x = UndoOf(e.kind, e.id, Old(s, e))
    OBVIOUS
  <1>2. e.kind \in DataKinds /\ (e.row.val = 0 <=> e.kind = "Delete")
    BY DEF WritesRow, ChangesRow
  <1>3. x.id = e.id /\ x.row = Old(s, e)
    BY <1>1 DEF UndoOf
  <1>4. /\ e.kind # "Insert" => Clear(s, e.id)
        /\ e.kind = "Insert" => e.id \notin DOMAIN db.mem.rows
    BY WriteClear DEF IInv, WritesRow
  <1>5. e.kind # "Insert" => Old(s, e).val = Cell(db.mem, e.id)
    BY <1>4 DEF Old, Clear, Cell
  <1>6. CASE e.kind = "Insert"
    <2>1. x.kind = "Delete" /\ Cell(db.mem, e.id) = 0
      BY <1>1, <1>4, <1>6 DEF UndoOf, Cell
    <2> QED
      BY <1>1, <1>3, <2>1 DEF EffCell, CellStep
  <1>7. CASE e.kind = "Update"
    <2>1. x.kind = "Update" /\ e.row.val # 0
      BY <1>1, <1>2, <1>7 DEF UndoOf
    <2> QED
      BY <1>1, <1>3, <1>5, <1>7, <2>1 DEF EffCell, CellStep
  <1>8. CASE e.kind = "Delete"
    <2>1. x.kind = "Insert"
      BY <1>1, <1>8 DEF UndoOf
    <2> QED
      BY <1>1, <1>3, <1>5, <1>8, <2>1 DEF EffCell, CellStep
  <1> QED
    BY <1>2, <1>6, <1>7, <1>8 DEF DataKinds

LEMMA MemWrites ==
    ASSUME IInv, NEW s \in Sessions, NEW e, WritesRow(s, e), damage \cup Harm(s, e) \subseteq damage'
    PROVE  MemOf(paged, db'.mem, sess', committed', damage')
  <1>1. MemOf(paged, db.mem, sess, committed, damage)
    BY DEF IInv, WritesRow, ChangesRow
  <1>2. /\ \A u \in Sessions : u # s => sess'[u] = sess[u]
        /\ sess'[s].pending = Put(sess[s].pending, e.id, e.row.val)
        /\ sess'[s].unrecorded = (sess[s].unrecorded \/ Lost(s))
        /\ \A i \in Ids : Cell(db'.mem, i) = IF i = e.id THEN e.row.val ELSE Cell(db.mem, i)
        /\ committed' = committed /\ Recorded(s, e.kind, e.id, Old(s, e))
    BY DEF WritesRow, ChangesRow, OthersSame
  <1>3. e.id \in Ids
    BY DEF WritesRow, ChangesRow, EffectOK, Effects, Ids
  <1>4. /\ DOMAIN sess'[s].pending = DOMAIN sess[s].pending \cup {e.id}
        /\ \A i \in DOMAIN sess'[s].pending :
              sess'[s].pending[i] = IF i = e.id THEN e.row.val ELSE sess[s].pending[i]
    BY <1>2 DEF Put
  <1>5. ASSUME NoDisk(damage')
        PROVE  /\ NoDisk(damage) /\ "interference" \notin Harm(s, e)
               /\ \A u \in Sessions : u # s => e.id \notin TouchedBy(sess[u])
    <2>1. NoDisk(damage) /\ "interference" \notin Harm(s, e)
      BY <1>5, DamageGrows
    <2> QED
      BY <2>1, WriteClear DEF IInv, WritesRow
  <1>6. ASSUME NoDisk(damage'), WrittenIs(db.mem, sess)
        PROVE  WrittenIs(db'.mem, sess')
    <2>1. WrittenIs(db.mem, sess)
      BY <1>6
    <2> SUFFICES ASSUME NEW u \in Sessions, NEW id \in DOMAIN sess'[u].pending
                 PROVE  Cell(db'.mem, id) = sess'[u].pending[id]
      BY DEF WrittenIs
    <2>2. CASE u = s
      <3>1. id \in Ids
        BY <1>3, <1>4, <2>2, SessionTypes
      <3> QED
        BY <1>2, <1>4, <2>1, <2>2, <3>1 DEF WrittenIs
    <2>3. CASE u # s
      <3>1. id # e.id /\ id \in Ids
        BY <1>2, <1>5, <1>6, <2>3, SessionTypes DEF TouchedBy
      <3> QED
        BY <1>2, <2>1, <2>3, <3>1 DEF WrittenIs
    <2> QED
      BY <2>2, <2>3
  <1>6a. ASSUME NoDisk(damage')
         PROVE  ThereIs(db'.mem, sess')
    <2>1. ThereIs(db.mem, sess)
      BY <1>1, <1>5, <1>6a DEF MemOf
    <2> SUFFICES ASSUME NEW u \in Sessions, NEW id \in DOMAIN sess'[u].pending, Cell(db'.mem, id) # 0
                 PROVE  sess'[u].pending[id] # 0
      BY DEF ThereIs
    <2>2. CASE u = s
      <3>1. id \in Ids
        BY <1>3, <1>4, <2>2, SessionTypes
      <3> QED
        BY <1>2, <1>4, <2>1, <2>2, <3>1 DEF ThereIs
    <2>3. CASE u # s
      <3>1. id # e.id /\ id \in Ids
        BY <1>2, <1>5, <1>6a, <2>3, SessionTypes DEF TouchedBy
      <3> QED
        BY <1>2, <2>1, <2>3, <3>1 DEF ThereIs
    <2> QED
      BY <2>2, <2>3
  <1>7. ASSUME Sound(paged, damage')
        PROVE  NoDisk(damage') /\ Sound(paged, damage) /\ WrittenIs(db.mem, sess)
    BY <1>1, <1>7, DamageGrows DEF MemOf
  <1>8. ASSUME Sound(paged, damage')
        PROVE  RestIs(db'.mem, sess', committed)
    <2>1. RestIs(db.mem, sess, committed)
      BY <1>1, <1>7, <1>8 DEF MemOf
    <2> SUFFICES ASSUME NEW id \in Ids, Free(sess', id)
                 PROVE  Cell(db'.mem, id) = Com(committed, id)
      BY DEF RestIs
    <2>2. id # e.id
      BY <1>4 DEF Free
    <2>3. Free(sess, id)
      BY <1>2, <1>4 DEF Free
    <2> QED
      BY <1>2, <2>1, <2>2, <2>3 DEF RestIs
  <1>9. ASSUME Sound(paged, damage'), NEW u \in Sessions
        PROVE  UndoIs(db'.mem, sess'[u], committed)
    <2>1. /\ \A v \in Sessions : UndoIs(db.mem, sess[v], committed)
          /\ RestIs(db.mem, sess, committed)
      BY <1>1, <1>7, <1>9 DEF MemOf
    <2>2. "interference" \notin Harm(s, e) /\ \A v \in Sessions : v # s => e.id \notin TouchedBy(sess[v])
      BY <1>5, <1>7, <1>9
    <2>3. CASE u # s
      <3>1. sess'[u] = sess[u] /\ e.id \notin IdsOf(sess[u].undo) /\ IdsOf(sess[u].undo) \subseteq Ids
        BY <1>2, <2>2, <2>3, SessionTypes DEF TouchedBy
      <3>2. \A id \in IdsOf(sess[u].undo) : Cell(db'.mem, id) = Cell(db.mem, id)
        BY <1>2, <3>1
      <3> QED
        BY <2>1, <3>1, <3>2, UndoIsSame
    <2>4. CASE u = s /\ sess'[s].unrecorded
      BY <2>4 DEF UndoIs
    <2>5. CASE u = s /\ ~sess'[s].unrecorded
      <3>1. sess[s].unrecorded = FALSE /\ ~Lost(s) /\ sess'[s].unrecorded = FALSE
        BY <1>2, <2>5, SessionTypes DEF Lost
      <3>2. PICK x : x = UndoOf(e.kind, e.id, Old(s, e))
        OBVIOUS
      <3>3. sess'[s].undo = Append(sess[s].undo, x) /\ x.id = e.id
        BY <1>2, <3>1, <3>2 DEF Recorded, UndoOf
      <3>4. EffCell(x, x.id, Cell(db'.mem, x.id)) = Cell(db.mem, x.id)
        BY <1>2, <1>3, <2>2, <3>2, <3>3, UndoTakesBack
      <3>5. \A id \in IdsOf(sess[s].undo) : id # x.id => Cell(db'.mem, id) = Cell(db.mem, id)
        BY <1>2, <3>3, SessionTypes
      <3>6. x.id \notin IdsOf(sess[s].undo) => Cell(db.mem, x.id) = Com(committed, x.id)
        <4> SUFFICES ASSUME x.id \notin IdsOf(sess[s].undo)
                     PROVE  Free(sess, e.id)
          BY <1>3, <2>1, <3>3 DEF RestIs
        <4>1. e.id \notin DOMAIN sess[s].pending
          BY <3>1, <3>3, SessionTypes DEF Tidy
        <4>2. \A v \in Sessions : v # s => e.id \notin DOMAIN sess[v].pending
          BY <2>2 DEF TouchedBy
        <4> QED
          BY <4>1, <4>2 DEF Free
      <3>7. UndoOK(sess[s].undo) /\ UndoIs(db.mem, sess[s], committed)
        BY <2>1, SessionTypes
      <3> QED
        <4>1. PICK b, c : b = sess[s] /\ c = sess'[s]
          OBVIOUS
        <4>2. PICK mem, mem2 : mem = db.mem /\ mem2 = db'.mem
          OBVIOUS
        <4>3. UndoOK(b.undo) /\ c.undo = Append(b.undo, x) /\ UndoIs(mem, b, committed)
          BY <3>3, <3>7, <4>1, <4>2
        <4>4. c.unrecorded = FALSE /\ b.unrecorded = FALSE
          BY <3>1, <4>1
        <4>5. \A id \in IdsOf(b.undo) : id # x.id => Cell(mem2, id) = Cell(mem, id)
          BY <3>5, <4>1, <4>2
        <4>6. EffCell(x, x.id, Cell(mem2, x.id)) = Cell(mem, x.id)
          BY <3>4, <4>2
        <4>7. x.id \notin IdsOf(b.undo) => Cell(mem, x.id) = Com(committed, x.id)
          BY <3>6, <4>1, <4>2
        <4>8. UndoIs(mem2, c, committed)
          BY ONLY <4>3, <4>4, <4>5, <4>6, <4>7, UndoIsMore
        <4> QED
          BY <2>5, <4>1, <4>2, <4>8
    <2> QED
      BY <2>3, <2>4, <2>5
  <1> QED
    BY <1>2, <1>6, <1>6a, <1>7, <1>8, <1>9 DEF MemOf

(* A write without a record: memory is not sound any more.                 *)
LEMMA MemStrays ==
    ASSUME IInv, NEW s \in Sessions, NEW e, Strays(s, e)
    PROVE  MemOf(paged, db'.mem, sess', committed', damage')
  <1>1. ~Sound(paged, damage')
    BY DEF Strays, Sound, NoDisk, DiskDamage, MemoryDamage
  <1>2. ASSUME NoDisk(damage')
        PROVE  ThereIs(db'.mem, sess')
    <2>1. ChangesRow(s, e) /\ damage \cup Harm(s, e) \subseteq damage'
      BY DEF Strays
    <2>2. NoDisk(damage) /\ "interference" \notin Harm(s, e)
      BY <1>2, <2>1, DamageGrows
    <2>3. /\ \A u \in Sessions : u # s => e.id \notin TouchedBy(sess[u])
          /\ e.kind # "Insert" => Clear(s, e.id)
          /\ e.kind = "Insert" => e.id \notin DOMAIN db.mem.rows /\ e.id \notin TouchedBy(sess[s])
      BY <2>1, <2>2, WriteClear DEF IInv
    <2>4. ThereIs(db.mem, sess)
      BY <2>1, <2>2 DEF IInv, MemOf, ChangesRow
    <2>5. /\ \A u \in Sessions : sess'[u].pending = sess[u].pending
          /\ \A i \in Ids : i # e.id => Cell(db'.mem, i) = Cell(db.mem, i)
      BY <2>1 DEF Strays, ChangesRow, OthersSame
    <2> SUFFICES ASSUME NEW u \in Sessions, NEW id \in DOMAIN sess[u].pending, Cell(db'.mem, id) # 0
                 PROVE  sess[u].pending[id] # 0
      BY <2>5 DEF ThereIs
    <2>6. id \in Ids
      BY SessionTypes
    <2>7. CASE id # e.id
      BY <2>4, <2>5, <2>6, <2>7 DEF ThereIs
    <2>8. CASE id = e.id
      <3>1. u = s /\ e.kind # "Insert"
        BY <2>3, <2>8 DEF TouchedBy
      <3>2. Cell(db.mem, id) # 0
        <4>1. TableOK(db.mem)
          BY DEF IInv, TypeInv, DbType
        <4> QED
          BY <2>3, <2>8, <3>1, <4>1, CellType DEF Clear
      <3> QED
        BY <2>4, <3>2 DEF ThereIs
    <2> QED
      BY <2>7, <2>8
  <1> QED
    BY <1>1, <1>2 DEF MemOf

LEMMA ComWith ==
    ASSUME TypeInv, NEW s \in Sessions, NEW id
    PROVE  Com(CommittedWith(sess[s].pending), id) =
              IF id \in DOMAIN sess[s].pending THEN sess[s].pending[id] ELSE Com(committed, id)
  <1>1. PICK p : p = sess[s].pending
    OBVIOUS
  <1>2. PICK f : f = CommittedWith(p)
    OBVIOUS
  <1>3. /\ DOMAIN f = {i \in DOMAIN committed \cup DOMAIN p : i \in DOMAIN p => p[i] # 0}
        /\ \A i \in DOMAIN f : f[i] = IF i \in DOMAIN p THEN p[i] ELSE committed[i]
    BY <1>2 DEF CommittedWith
  <1>4. Com(f, id) = IF id \in DOMAIN p THEN p[id] ELSE Com(committed, id)
    BY <1>3 DEF Com
  <1> QED
    BY <1>1, <1>2, <1>4

LEMMA MemCommits ==
    ASSUME IInv, NEW s \in Sessions, Commits(s)
    PROVE  MemOf(paged, db'.mem, sess', committed', damage')
  <1>1. MemOf(paged, db.mem, sess, committed, damage)
    BY DEF IInv, Commits
  <1>2. /\ db'.mem = db.mem /\ damage' = damage /\ sess'[s] = NewSession
        /\ \A u \in Sessions : u # s => sess'[u] = sess[u]
    BY DEF Commits, OthersSame
  <1>3. \A id : Com(committed', id) =
                   IF id \in DOMAIN sess[s].pending THEN sess[s].pending[id] ELSE Com(committed, id)
    BY ComWith DEF Commits, IInv
  <1>4. DOMAIN sess'[s].pending = {} /\ IdsOf(sess'[s].undo) = {}
    BY <1>2, NewTidy, NewSessionType
  <1>5. /\ WrittenIs(db.mem, sess) => WrittenIs(db.mem, sess')
        /\ ThereIs(db.mem, sess) => ThereIs(db.mem, sess')
    BY <1>2, <1>4 DEF WrittenIs, ThereIs
  <1>6. ASSUME Sound(paged, damage)
        PROVE  RestIs(db.mem, sess', committed')
    <2>1. RestIs(db.mem, sess, committed) /\ WrittenIs(db.mem, sess)
      BY <1>1, <1>6 DEF MemOf, Sound
    <2> SUFFICES ASSUME NEW id \in Ids, Free(sess', id)
                 PROVE  Cell(db.mem, id) = Com(committed', id)
      BY DEF RestIs
    <2>2. CASE id \in DOMAIN sess[s].pending
      BY <1>3, <2>1, <2>2 DEF WrittenIs
    <2>3. CASE id \notin DOMAIN sess[s].pending
      <3>1. Free(sess, id)
        BY <1>2, <2>3 DEF Free
      <3> QED
        BY <1>3, <2>1, <2>3, <3>1 DEF RestIs
    <2> QED
      BY <2>2, <2>3
  <1>7. ASSUME Sound(paged, damage), NEW u \in Sessions
        PROVE  UndoIs(db.mem, sess'[u], committed')
    <2>1. UndoIs(db.mem, sess[u], committed) /\ NoDisk(damage)
      BY <1>1, <1>7 DEF MemOf, Sound
    <2>2. CASE u = s
      BY <1>4, <2>2 DEF UndoIs
    <2>3. CASE u # s
      <3>1. TouchedBy(sess[s]) \cap TouchedBy(sess[u]) = {}
        BY <2>1, <2>3, Disjoint
      <3>2. \A id \in IdsOf(sess[u].undo) : Com(committed', id) = Com(committed, id)
        BY <1>3, <3>1 DEF TouchedBy
      <3> QED
        BY <1>2, <2>1, <2>3, <3>2, UndoIsSame
    <2> QED
      BY <2>2, <2>3
  <1> QED
    BY <1>1, <1>2, <1>5, <1>6, <1>7 DEF MemOf

LEMMA MemRollsBack ==
    ASSUME IInv, NEW s \in Sessions, RollsBack(s)
    PROVE  MemOf(paged, db'.mem, sess', committed', damage')
  <1>1. MemOf(paged, db.mem, sess, committed, damage)
    BY DEF IInv, RollsBack
  <1>2. /\ db'.mem = Rewound(db.mem, sess[s].undo) /\ committed' = committed /\ sess'[s] = NewSession
        /\ damage \subseteq damage'
        /\ \A u \in Sessions : u # s => sess'[u] = sess[u]
    BY DEF RollsBack, OthersSame
  <1>3. DOMAIN sess'[s].pending = {} /\ IdsOf(sess'[s].undo) = {}
    BY <1>2, NewTidy, NewSessionType
  <1>4. TableOK(db.mem) /\ UndoOK(sess[s].undo)
    BY SessionTypes DEF IInv, TypeInv, DbType
  <1>5. \A id \in Ids :
           /\ \A c : UndoLands(sess[s].undo, id, Cell(db.mem, id), c) => Cell(db'.mem, id) = c
           /\ id \notin IdsOf(sess[s].undo) => Cell(db'.mem, id) = Cell(db.mem, id)
    BY <1>2, <1>4, RewoundCell
  <1>6. ASSUME NoDisk(damage'), NEW u \in Sessions, u # s, NEW id \in TouchedBy(sess[u])
        PROVE  Cell(db'.mem, id) = Cell(db.mem, id)
    <2>1. NoDisk(damage)
      BY <1>2, <1>6, DamageGrows
    <2>2. id \notin IdsOf(sess[s].undo)
      BY <1>6, <2>1, Disjoint DEF TouchedBy
    <2>3. id \in Ids
      BY <1>6, SessionTypes DEF TouchedBy
    <2> QED
      BY <1>5, <2>2, <2>3
  <1>7. ASSUME NoDisk(damage')
        PROVE  /\ ThereIs(db'.mem, sess')
               /\ WrittenIs(db.mem, sess) => WrittenIs(db'.mem, sess')
    <2>1. ThereIs(db.mem, sess)
      BY <1>1, <1>2, <1>7, DamageGrows DEF MemOf
    <2> QED
      BY <1>2, <1>3, <1>6, <1>7, <2>1 DEF WrittenIs, ThereIs, TouchedBy
  <1>8. ASSUME Sound(paged, damage')
        PROVE  NoDisk(damage') /\ Sound(paged, damage) /\ WrittenIs(db.mem, sess)
    BY <1>1, <1>2, <1>8, DamageGrows DEF MemOf
  <1>9. ASSUME Sound(paged, damage')
        PROVE  sess[s].unrecorded = FALSE
    <2> SUFFICES ASSUME sess[s].unrecorded
                 PROVE  FALSE
      BY SessionTypes
    <2>1. "partial" \in damage' /\ (s \in dirty => "dirtyFile" \in damage')
      BY DEF RollsBack
    <2>2. CASE paged
      <3>1. PendingIn(sess) \subseteq dirty
        BY <2>2 DEF IInv, FileOf, RollsBack
      <3>2. DOMAIN sess[s].pending # {}
        BY SessionTypes DEF Tidy
      <3>3. "dirtyFile" \in damage'
        BY <2>1, <3>1, <3>2 DEF PendingIn
      <3> QED
        BY <1>8, <1>9, <3>3, DamageGrows
    <2>3. CASE ~paged
      BY <1>9, <2>1, <2>3 DEF Sound, MemoryDamage
    <2> QED
      BY <2>2, <2>3
  <1>10. ASSUME Sound(paged, damage')
         PROVE  RestIs(db'.mem, sess', committed)
    <2>1. RestIs(db.mem, sess, committed) /\ UndoIs(db.mem, sess[s], committed)
      BY <1>1, <1>8, <1>10 DEF MemOf
    <2> SUFFICES ASSUME NEW id \in Ids, Free(sess', id)
                 PROVE  Cell(db'.mem, id) = Com(committed, id)
      BY DEF RestIs
    <2>2. CASE id \in IdsOf(sess[s].undo)
      <3>1. UndoLands(sess[s].undo, id, Cell(db.mem, id), Com(committed, id))
        BY <1>9, <1>10, <2>1, <2>2 DEF UndoIs
      <3> QED
        BY <1>5, <3>1
    <2>3. CASE id \notin IdsOf(sess[s].undo)
      <3>1. id \notin DOMAIN sess[s].pending
        BY <1>9, <1>10, <2>3, SessionTypes DEF Tidy
      <3>2. Free(sess, id)
        BY <1>2, <3>1 DEF Free
      <3> QED
        BY <1>5, <2>1, <2>3, <3>2 DEF RestIs
    <2> QED
      BY <2>2, <2>3
  <1>11. ASSUME Sound(paged, damage'), NEW u \in Sessions
         PROVE  UndoIs(db'.mem, sess'[u], committed)
    <2>1. UndoIs(db.mem, sess[u], committed) /\ NoDisk(damage')
      BY <1>1, <1>8, <1>11 DEF MemOf
    <2>2. CASE u = s
      BY <1>3, <2>2 DEF UndoIs
    <2>3. CASE u # s
      <3>1. \A id \in IdsOf(sess[u].undo) : Cell(db'.mem, id) = Cell(db.mem, id)
        BY <1>6, <2>1, <2>3 DEF TouchedBy
      <3> QED
        BY <1>2, <2>1, <2>3, <3>1, UndoIsSame
    <2> QED
      BY <2>2, <2>3
  <1> QED
    BY <1>2, <1>7, <1>8, <1>10, <1>11 DEF MemOf

LEMMA MemLeaves ==
    ASSUME IInv, NEW s \in Sessions, Leaves(s)
    PROVE  MemOf(paged, db'.mem, sess', committed', damage')
  <1>1. MemOf(paged, db.mem, sess, committed, damage)
    BY DEF IInv, Leaves
  <1>2. /\ db' = db /\ committed' = committed /\ sess'[s] = NewSession
        /\ damage \subseteq damage' /\ "disconnect" \in damage' /\ (s \in dirty => "dirtyFile" \in damage')
        /\ \A u \in Sessions : u # s => sess'[u] = sess[u]
    BY DEF Leaves, OthersSame
  <1>3. DOMAIN sess'[s].pending = {} /\ IdsOf(sess'[s].undo) = {}
    BY <1>2, NewTidy, NewSessionType
  <1>4. (NoDisk(damage') => NoDisk(damage)) /\ (Sound(paged, damage') => Sound(paged, damage))
    BY <1>2, DamageGrows
  <1>5. /\ WrittenIs(db.mem, sess) => WrittenIs(db.mem, sess')
        /\ ThereIs(db.mem, sess) => ThereIs(db.mem, sess')
    BY <1>2, <1>3 DEF WrittenIs, ThereIs
  <1>6. ASSUME Sound(paged, damage')
        PROVE  DOMAIN sess[s].pending = {}
    <2>1. paged /\ "dirtyFile" \notin damage'
      BY <1>2, <1>6 DEF Sound, NoDisk, DiskDamage, MemoryDamage
    <2>2. PendingIn(sess) \subseteq dirty
      BY <2>1 DEF IInv, FileOf, Leaves
    <2> QED
      BY <1>2, <2>1, <2>2 DEF PendingIn
  <1>7. ASSUME Sound(paged, damage'), RestIs(db.mem, sess, committed)
        PROVE  RestIs(db.mem, sess', committed)
    <2> SUFFICES ASSUME NEW id \in Ids, Free(sess', id)
                 PROVE  Free(sess, id)
      BY <1>7 DEF RestIs
    <2> QED
      BY <1>2, <1>6, <1>7 DEF Free
  <1>8. \A u \in Sessions : UndoIs(db.mem, sess[u], committed) => UndoIs(db.mem, sess'[u], committed)
    BY <1>2, <1>3 DEF UndoIs
  <1> QED
    BY <1>1, <1>2, <1>4, <1>5, <1>7, <1>8 DEF MemOf

-----------------------------------------------------------------------------
(* What recovery makes of the files.                                       *)
LEMMA HiddenIs ==
    ASSUME TypeInv
    PROVE  ~Hidden(db) <=> db.wal = <<>> \/ db.ckpt = 0
  <1>1. WalOK(db.wal) /\ db.ckpt \in Nat
    BY DEF TypeInv, DbType
  <1>2. Len(db.wal) \in Nat /\ DOMAIN db.wal = 1..Len(db.wal) /\ (db.wal = <<>> <=> Len(db.wal) = 0)
    BY <1>1 DEF WalOK
  <1>3. \A i \in 1..Len(db.wal) : db.wal[i].lsn = i
    BY <1>1 DEF WalOK
  <1>4. Hidden(db) <=> \E i \in 1..Len(db.wal) : i <= db.ckpt
    BY <1>2, <1>3 DEF Hidden
  <1> HIDE DEF Hidden
  <1>5. Len(db.wal) # 0 => 1 \in 1..Len(db.wal)
    BY <1>2
  <1>6. (\E i \in 1..Len(db.wal) : i <= db.ckpt) <=> Len(db.wal) # 0 /\ db.ckpt # 0
    BY <1>1, <1>2, <1>5
  <1> QED
    BY <1>2, <1>4, <1>6

LEMMA FileCommitted ==
    ASSUME IInv, NoDisk(damage), dirty = {}, paged \/ db.wal = <<>>
    PROVE  AllCommitted(db.dat, committed)
  <1>0. FileOf(paged, up, db, sess, committed, dirty, damage)
    BY DEF IInv
  <1>1. CASE paged /\ up
    <2>1. db.dat = db.mem /\ PendingIn(sess) = {}
      BY <1>0, <1>1 DEF FileOf
    <2>2. Sound(paged, damage)
      BY <1>1 DEF Sound
    <2>3. RestIs(db.mem, sess, committed)
      BY <1>1, <2>2 DEF IInv, MemOf
    <2>4. \A id : Free(sess, id)
      BY <2>1 DEF PendingIn, Free
    <2> QED
      BY <2>1, <2>3, <2>4 DEF RestIs, AllCommitted
  <1>2. CASE paged /\ ~up
    BY <1>0, <1>2 DEF FileOf
  <1>3. CASE ~paged /\ db.wal = <<>>
    BY <1>0, <1>3 DEF FileOf, AllCommitted
  <1> QED
    BY <1>1, <1>2, <1>3

LEMMA RecoversCommitted ==
    ASSUME IInv, NoDisk(damage), dirty = {}, db.wal = <<>> \/ db.ckpt = 0
    PROVE  AllCommitted(Recovered(db), committed)
  <1>0. WalOK(db.wal) /\ TableOK(db.dat) /\ db.ckpt \in Nat
    BY DEF IInv, TypeInv, DbType
  <1>1. CASE db.wal = <<>>
    <2>1. AllCommitted(db.dat, committed)
      BY <1>1, FileCommitted
    <2>2. \A id \in Ids : Cell(Recovered(db), id) = Cell(db.dat, id)
      BY <1>0, <1>1, RecoveredOK
    <2> QED
      BY <2>1, <2>2 DEF AllCommitted
  <1>2. CASE db.ckpt = 0
    <2> SUFFICES ASSUME NEW id \in Ids
                 PROVE  Cell(Recovered(db), id) = Com(committed, id)
      BY DEF AllCommitted
    <2>1. Good(paged, db.wal, Winners(db), id, Cell(db.dat, id), Com(committed, id))
      BY <1>2 DEF IInv, ReplayOf, ReplaysCommitted
    <2>2. Rep(db.wal, Winners(db), id, {Cell(db.dat, id)}, {Com(committed, id)})
      <3>1. CASE paged
        <4>1. Cell(db.dat, id) = Com(committed, id)
          BY <3>1, FileCommitted DEF AllCommitted
        <4> QED
          BY <2>1, <3>1, <4>1 DEF Good, Fix
      <3>2. CASE ~paged
        BY <2>1, <3>2 DEF Good
      <3> QED
        BY <3>1, <3>2
    <2>3. Cell(Recovered(db), id) \in {Com(committed, id)}
      BY <1>0, <1>2, <2>2, RecoveredOK
    <2> QED
      BY <2>3
  <1> QED
    BY <1>1, <1>2

LEMMA MemOpens ==
    ASSUME IInv, Opens
    PROVE  MemOf(paged, db'.mem, sess', committed', damage')
  <1>1. /\ ~up /\ db'.mem = Recovered(db) /\ sess' = sess /\ committed' = committed
        /\ damage' = damage \ MemoryDamage
    BY DEF Opens
  <1>2. NoDisk(damage') => NoDisk(damage)
    BY <1>1 DEF NoDisk, DiskDamage, MemoryDamage
  <1>3. \A s \in Sessions : DOMAIN sess[s].pending = {} /\ IdsOf(sess[s].undo) = {}
    BY <1>1, NoSession, NewTidy DEF IInv
  <1>4. /\ WrittenIs(db'.mem, sess) /\ ThereIs(db'.mem, sess)
        /\ \A s \in Sessions : UndoIs(db'.mem, sess[s], committed)
    BY <1>3 DEF WrittenIs, ThereIs, UndoIs
  <1>5. ASSUME NoDisk(damage)
        PROVE  RestIs(db'.mem, sess, committed)
    <2>1. dirty = {} /\ (db.wal = <<>> \/ db.ckpt = 0)
      BY <1>1, <1>5 DEF IInv, TypeInv, FileOf
    <2>2. AllCommitted(Recovered(db), committed)
      BY <1>5, <2>1, RecoversCommitted
    <2> QED
      BY <1>1, <2>2 DEF AllCommitted, RestIs
  <1> QED
    BY <1>1, <1>2, <1>4, <1>5 DEF MemOf, Sound

LEMMA MemStep ==
    ASSUME IInv, StepKind, up'
    PROVE  MemOf(paged, db'.mem, sess', committed', damage')
  <1>1. CASE Quiet
    <2>1. up
      BY <1>1 DEF Quiet
    <2> QED
      BY <1>1, <2>1, MemQuiet
  <1>2. ASSUME NEW s \in Sessions, Begins(s) PROVE MemOf(paged, db'.mem, sess', committed', damage')
    BY <1>2, MemBegins
  <1>3. ASSUME NEW s \in Sessions, NEW id \in Ids, Notes(s, id)
        PROVE  MemOf(paged, db'.mem, sess', committed', damage')
    BY <1>3, MemNotes
  <1>4. ASSUME NEW s \in Sessions, NEW e, Appends(s, e) \/ Saves(s, e)
        PROVE  MemOf(paged, db'.mem, sess', committed', damage')
    <2>1. WritesRow(s, e) /\ damage \cup Harm(s, e) \subseteq damage'
      BY <1>4 DEF Appends, Saves
    <2> QED
      BY <2>1, MemWrites
  <1>4a. ASSUME NEW s \in Sessions, NEW e, Strays(s, e)
         PROVE  MemOf(paged, db'.mem, sess', committed', damage')
    BY <1>4a, MemStrays
  <1>5. ASSUME NEW s \in Sessions, Commits(s) \/ RollsBack(s) \/ Leaves(s)
        PROVE  MemOf(paged, db'.mem, sess', committed', damage')
    BY <1>5, MemCommits, MemRollsBack, MemLeaves
  <1>6. CASE SavesAll
    <2>1. db'.mem = db.mem /\ sess' = sess /\ committed' = committed /\ damage \subseteq damage'
      BY <1>6 DEF SavesAll
    <2>2. (NoDisk(damage') => NoDisk(damage)) /\ (Sound(paged, damage') => Sound(paged, damage))
      BY <2>1, DamageGrows
    <2>3. MemOf(paged, db.mem, sess, committed, damage)
      BY <1>6 DEF IInv, SavesAll
    <2> QED
      BY <2>1, <2>2, <2>3 DEF MemOf
  <1>7. CASE Opens
    BY <1>7, MemOpens
  <1> QED
    BY <1>1, <1>2, <1>3, <1>4, <1>4a, <1>5, <1>6, <1>7 DEF StepKind, Dies, ShutsDown, Stops

-----------------------------------------------------------------------------
(* What the steps do to the table file.                                    *)
LEMMA SpreadIs ==
    ASSUME NEW dam, damage \cup Spread \subseteq dam, NoDisk(dam)
    PROVE  damage \cap MemoryDamage = {} /\ NoDisk(damage) /\ Sound(paged, damage)
  BY DamageGrows DEF Spread, Sound

LEMMA FreeAll ==
    ASSUME IInv, Quiescent
    PROVE  (\A s \in Sessions : DOMAIN sess[s].pending = {}) /\ \A id : Free(sess, id)
  <1>1. \A s \in Sessions : DOMAIN sess[s].pending = {}
    BY SessionTypes DEF Quiescent, InTxn
  <1> QED
    BY <1>1 DEF Free

LEMMA LogNotEmpty ==
    ASSUME TypeInv, NEW txn, NEW op, Logs(txn, op)
    PROVE  db'.wal # <<>>
  <1>1. db.wal \in Seq(Records)
    BY DEF TypeInv, DbType, WalOK
  <1> QED
    BY <1>1 DEF Logs

LEMMA FileLogs ==
    ASSUME IInv, up', NEW txn, NEW op, Logs(txn, op),
           paged => db'.dat = db'.mem /\ PendingIn(sess') \subseteq dirty', ~paged => dirty' \subseteq dirty
    PROVE  FileOf(paged, up', db', sess', committed', dirty', damage')
  <1>1. db'.wal # <<>> /\ db'.ckpt = db.ckpt
    BY LogNotEmpty DEF IInv, Logs
  <1>2. ~paged /\ db.ckpt = 0 => dirty = {}
    BY DEF IInv, FileOf
  <1> QED
    BY <1>1, <1>2 DEF FileOf

LEMMA FileSaves ==
    ASSUME IInv, NEW s \in Sessions, NEW e, Saves(s, e),
           MemOf(paged, db'.mem, sess', committed', damage')
    PROVE  FileOf(paged, up', db', sess', committed', dirty', damage')
  <1>1. /\ up' = up /\ up /\ db'.dat = db'.mem /\ db'.wal = <<>> /\ db'.ckpt = db.lsn + 1
        /\ damage' = damage \cup Harm(s, e) \cup Spread
    BY DEF Saves, WritesRow, ChangesRow
  <1>1a. /\ paged => PendingIn(sess') \subseteq dirty'
         /\ ~paged => dirty' = PendingIn(sess')
    <2>1. paged /\ up => PendingIn(sess) \subseteq dirty
      BY DEF IInv, FileOf
    <2>2. \A u \in Sessions : u # s => sess'[u] = sess[u]
      BY DEF Saves, WritesRow, ChangesRow, OthersSame
    <2> QED
      BY <1>1, <2>1, <2>2 DEF Saves, PendingSessions, Pending, PendingIn
  <1>2. db'.ckpt # 0
    BY <1>1 DEF IInv, TypeInv, DbType
  <1>3. ASSUME NoDisk(damage')
        PROVE  RestIs(db'.mem, sess', committed')
    <2>1. damage \cap MemoryDamage = {}
      BY <1>1, <1>3, SpreadIs
    <2>2. Harm(s, e) \subseteq {"interference"} /\ Spread \subseteq {"dirtyFile"}
      BY InterferenceIs DEF Harm, Spread
    <2>3. Sound(paged, damage')
      BY <1>1, <1>3, <2>1, <2>2 DEF Sound, MemoryDamage
    <2> QED
      BY <2>3 DEF MemOf
  <1>4. ASSUME NEW id, \A u \in dirty' : id \notin DOMAIN sess'[u].pending
        PROVE  Free(sess', id)
    BY <1>1a, <1>4 DEF PendingIn, Free, IInv, TypeInv
  <1> QED
    BY <1>1, <1>1a, <1>2, <1>3, <1>4 DEF FileOf, RestIs

LEMMA FileQuiet ==
    ASSUME IInv, UNCHANGED <<db, up, committed, dirty>>, damage \subseteq damage',
           \A u \in Sessions : sess'[u].pending = sess[u].pending
    PROVE  FileOf(paged, up', db', sess', committed', dirty', damage')
  <1>1. FileOf(paged, up, db, sess, committed, dirty, damage)
    BY DEF IInv
  <1>2. NoDisk(damage') => NoDisk(damage)
    BY DamageGrows
  <1>3. PendingIn(sess') = PendingIn(sess) /\ dirty \subseteq Sessions
    BY DEF PendingIn, IInv, TypeInv
  <1> QED
    BY <1>1, <1>2, <1>3 DEF FileOf

LEMMA FileLeaves ==
    ASSUME IInv, NEW s \in Sessions, Leaves(s)
    PROVE  FileOf(paged, up', db', sess', committed', dirty', damage')
  <1>1. FileOf(paged, up, db, sess, committed, dirty, damage) /\ dirty \subseteq Sessions
    BY DEF IInv, TypeInv
  <1>2. /\ db' = db /\ committed' = committed /\ sess'[s] = NewSession /\ up /\ up' = up
        /\ damage \subseteq damage' /\ (s \in dirty => "dirtyFile" \in damage') /\ dirty' = dirty \ {s}
        /\ \A u \in Sessions : u # s => sess'[u] = sess[u]
    BY DEF Leaves, OthersSame
  <1>3. DOMAIN sess'[s].pending = {}
    BY <1>2, NewSessionType
  <1>4. PendingIn(sess') = PendingIn(sess) \ {s}
    BY <1>2, <1>3 DEF PendingIn
  <1>5. NoDisk(damage') => NoDisk(damage) /\ s \notin dirty
    BY <1>2, DamageGrows
  <1>6. ASSUME NoDisk(damage'), ~paged, db.wal = <<>>, NEW id \in Ids,
               \A u \in dirty' : id \notin DOMAIN sess'[u].pending
        PROVE  Cell(db.dat, id) = Com(committed, id)
    <2>1. \A u \in dirty : id \notin DOMAIN sess[u].pending
      BY <1>1, <1>2, <1>5, <1>6
    <2> QED
      BY <1>1, <1>5, <1>6, <2>1 DEF FileOf
  <1>7. (paged => db.dat = db.mem /\ PendingIn(sess) \subseteq dirty) /\ (~paged /\ db.ckpt = 0 => dirty = {})
    BY <1>1, <1>2 DEF FileOf
  <1> QED
    BY <1>2, <1>4, <1>6, <1>7 DEF FileOf

LEMMA MemCommitted ==
    ASSUME IInv, up, Quiescent, Sound(paged, damage)
    PROVE  AllCommitted(db.mem, committed)
  <1>1. RestIs(db.mem, sess, committed)
    BY DEF IInv, MemOf
  <1> QED
    BY <1>1, FreeAll DEF RestIs, AllCommitted

LEMMA FileSavesAll ==
    ASSUME IInv, SavesAll
    PROVE  FileOf(paged, up', db', sess', committed', dirty', damage')
  <1>1. FileOf(paged, up, db, sess, committed, dirty, damage)
    BY DEF IInv
  <1>2. /\ up /\ up' = up /\ db'.mem = db.mem /\ db'.dat = db.mem /\ db'.ckpt # 0 /\ Quiescent
        /\ sess' = sess /\ committed' = committed /\ dirty' = dirty /\ damage' = damage \cup Spread
    BY DEF SavesAll
  <1>3. NoDisk(damage') => AllCommitted(db.mem, committed)
    BY <1>2, SpreadIs, MemCommitted
  <1>4. paged => PendingIn(sess) \subseteq dirty
    BY <1>1, <1>2 DEF FileOf
  <1> QED
    BY <1>2, <1>3, <1>4 DEF FileOf, AllCommitted

LEMMA FileDies ==
    ASSUME IInv, Dies
    PROVE  FileOf(paged, up', db', sess', committed', dirty', damage')
  <1>1. /\ up /\ up' = FALSE /\ db'.dat = db.dat /\ db'.wal = db.wal /\ db'.ckpt = db.ckpt
        /\ dirty' = {} /\ committed' = committed /\ damage \subseteq damage'
        /\ (dirty # {} => "dirtyFile" \in damage') /\ (Hidden(db) => "hidden" \in damage')
    BY DEF Dies, Stops
  <1>2. NoDisk(damage') => NoDisk(damage) /\ dirty = {} /\ (db.wal = <<>> \/ db.ckpt = 0)
    BY <1>1, DamageGrows, HiddenIs DEF IInv
  <1>3. NoDisk(damage') /\ (paged \/ db.wal = <<>>) => AllCommitted(db.dat, committed)
    BY <1>2, FileCommitted
  <1> QED
    BY <1>1, <1>2, <1>3 DEF FileOf, AllCommitted

LEMMA ShutsDownIs ==
    ASSUME IInv, ShutsDown, NoDisk(damage')
    PROVE  AllCommitted(db.mem, committed)
  <1>1. up /\ damage \subseteq damage' /\ (~Quiescent => "dirtyFile" \in damage')
    BY DEF ShutsDown, Stops
  <1>2. Quiescent
    BY <1>1, DamageGrows
  <1>3. damage \cup Spread \subseteq damage'
    BY <1>2 DEF ShutsDown
  <1> QED
    BY <1>1, <1>2, <1>3, SpreadIs, MemCommitted

LEMMA FileShutsDown ==
    ASSUME IInv, ShutsDown
    PROVE  FileOf(paged, up', db', sess', committed', dirty', damage')
  <1>1. up' = FALSE /\ db'.dat = db.mem /\ db'.wal = <<>> /\ dirty' = {} /\ committed' = committed
    BY DEF ShutsDown, Stops
  <1>2. NoDisk(damage') => AllCommitted(db.mem, committed)
    BY ShutsDownIs
  <1> QED
    BY <1>1, <1>2 DEF FileOf, AllCommitted

LEMMA FileOpens ==
    ASSUME IInv, Opens
    PROVE  FileOf(paged, up', db', sess', committed', dirty', damage')
  <1>1. FileOf(paged, up, db, sess, committed, dirty, damage)
    BY DEF IInv
  <1>2. /\ ~up /\ up' = TRUE /\ db'.mem = Recovered(db) /\ db'.dat = (IF paged THEN Recovered(db) ELSE db.dat)
        /\ db'.wal = db.wal /\ db'.ckpt = db.ckpt /\ sess' = sess /\ committed' = committed
        /\ dirty' = dirty /\ damage' = damage \ MemoryDamage
    BY DEF Opens
  <1>3. dirty = {} /\ PendingIn(sess) = {}
    BY <1>2, NoSession DEF IInv, TypeInv, PendingIn
  <1>4. NoDisk(damage') => NoDisk(damage)
    BY <1>2 DEF NoDisk, DiskDamage, MemoryDamage
  <1> QED
    BY <1>1, <1>2, <1>3, <1>4 DEF FileOf

LEMMA FileStep ==
    ASSUME IInv, StepKind, up' => MemOf(paged, db'.mem, sess', committed', damage')
    PROVE  FileOf(paged, up', db', sess', committed', dirty', damage')
  <1> DEFINE Goal == FileOf(paged, up', db', sess', committed', dirty', damage')
  <1>0. paged /\ up => db.dat = db.mem /\ PendingIn(sess) \subseteq dirty
    BY DEF IInv, FileOf
  <1> HIDE DEF Goal
  <1>1. CASE Quiet
    <2>1. UNCHANGED <<db, up, committed, dirty>> /\ damage \subseteq damage'
      BY <1>1 DEF Quiet
    <2>2. \A u \in Sessions : sess'[u].pending = sess[u].pending
      BY <1>1 DEF Quiet, SameWork
    <2> QED
      BY <2>1, <2>2, FileQuiet DEF Goal
  <1>2. ASSUME NEW s \in Sessions, Begins(s) PROVE Goal
    <2>1. DOMAIN sess[s].pending = {} /\ DOMAIN sess'[s].pending = {}
      BY <1>2, SessionTypes DEF Begins
    <2>2. PendingIn(sess') = PendingIn(sess)
      BY <1>2, <2>1 DEF PendingIn, Begins, OthersSame
    <2>3. up' /\ up /\ Logs(db.nextTxn, Control("Begin")) /\ db'.dat = db.dat /\ db'.mem = db.mem /\ dirty' = dirty
      BY <1>2 DEF Begins
    <2> QED
      BY <1>0, <2>2, <2>3, FileLogs DEF Goal
  <1>3. ASSUME NEW s \in Sessions, NEW id, Notes(s, id) PROVE Goal
    <2>1. UNCHANGED <<db, up, committed, dirty>> /\ damage \subseteq damage'
      BY <1>3 DEF Notes
    <2>2. \A u \in Sessions : sess'[u].pending = sess[u].pending
      BY <1>3 DEF Notes, OthersSame
    <2> QED
      BY <2>1, <2>2, FileQuiet DEF Goal
  <1>4. ASSUME NEW s \in Sessions, NEW e, Appends(s, e) PROVE Goal
    <2>1. /\ up /\ up' /\ Logs(sess[s].txn, e) /\ db'.dat = (IF paged THEN db'.mem ELSE db.dat)
          /\ dirty' = (IF paged THEN dirty \cup {s} ELSE dirty)
          /\ \A u \in Sessions : u # s => sess'[u] = sess[u]
      BY <1>4 DEF Appends, WritesRow, ChangesRow, OthersSame
    <2>2. paged => PendingIn(sess') \subseteq dirty'
      BY <1>0, <2>1 DEF PendingIn
    <2> QED
      BY <2>1, <2>2, FileLogs DEF Goal
  <1>4a. ASSUME NEW s \in Sessions, NEW e, Strays(s, e) PROVE Goal
    <2>1. /\ up /\ up' /\ db'.dat = (IF paged THEN db'.mem ELSE db.dat)
          /\ db'.wal = db.wal /\ db'.ckpt = db.ckpt /\ committed' = committed
          /\ dirty' = (IF paged THEN dirty \cup {s} ELSE dirty) /\ damage \subseteq damage'
      BY <1>4a DEF Strays, ChangesRow
    <2>2. \A u \in Sessions : sess'[u].pending = sess[u].pending
      BY <1>4a DEF Strays, ChangesRow, OthersSame
    <2>3. PendingIn(sess') = PendingIn(sess) /\ dirty \subseteq Sessions
      BY <2>2 DEF PendingIn, IInv, TypeInv
    <2>4. (NoDisk(damage') => NoDisk(damage)) /\ FileOf(paged, up, db, sess, committed, dirty, damage)
      BY <2>1, DamageGrows DEF IInv
    <2>5. CASE paged
      BY <1>0, <2>1, <2>3, <2>5 DEF Goal, FileOf
    <2>6. CASE ~paged
      BY <2>1, <2>2, <2>3, <2>4, <2>6 DEF Goal, FileOf
    <2> QED
      BY <2>5, <2>6
  <1>5. ASSUME NEW s \in Sessions, NEW e, Saves(s, e) PROVE Goal
    <2>1. up'
      BY <1>5 DEF Saves, WritesRow, ChangesRow
    <2> QED
      BY <1>5, <2>1, FileSaves DEF Goal
  <1>6. ASSUME NEW s \in Sessions, Commits(s) \/ RollsBack(s) PROVE Goal
    <2>1. /\ up /\ up' /\ sess'[s] = NewSession /\ dirty' = dirty \ {s}
          /\ \A u \in Sessions : u # s => sess'[u] = sess[u]
      BY <1>6 DEF Commits, RollsBack, OthersSame
    <2>2. DOMAIN sess'[s].pending = {}
      BY <2>1, NewSessionType
    <2>3. PendingIn(sess') = PendingIn(sess) \ {s}
      BY <2>1, <2>2 DEF PendingIn
    <2>4. PICK k : Logs(sess[s].txn, Control(k))
      BY <1>6 DEF Commits, RollsBack
    <2>5. paged => db'.dat = db'.mem
      BY <1>0, <1>6, <2>1 DEF Commits, RollsBack
    <2> QED
      BY <1>0, <2>1, <2>3, <2>4, <2>5, FileLogs DEF Goal
  <1>7. ASSUME NEW s \in Sessions, Leaves(s) PROVE Goal
    BY <1>7, FileLeaves DEF Goal
  <1>8. CASE SavesAll
    BY <1>8, FileSavesAll DEF Goal
  <1>9. CASE Dies
    BY <1>9, FileDies DEF Goal
  <1>10. CASE ShutsDown
    BY <1>10, FileShutsDown DEF Goal
  <1>11. CASE Opens
    BY <1>11, FileOpens DEF Goal
  <1>12. Goal
    BY <1>1, <1>2, <1>3, <1>4, <1>4a, <1>5, <1>6, <1>7, <1>8, <1>9, <1>10, <1>11 DEF StepKind, Goal
  <1> QED
    BY <1>12 DEF Goal

-----------------------------------------------------------------------------
(* What the steps do to replay.                                            *)
LEMMA GoodSkip ==
    ASSUME NEW w, WalOK(w), NEW r, NEW K, NEW id \in Ids, NEW p \in BOOLEAN, NEW b, NEW b2, NEW c,
           Good(p, w, K, id, b, c), r.txn \notin K \/ r.op.id # id, ~p => b2 = b
    PROVE  Good(p, Append(w, r), K, id, b2, c)
  <1>1. CASE p
    <2>1. Rep(w, K, id, {c}, {c}) /\ (c # 0 => Rep(w, K, id, Pos, Pos))
      BY <1>1 DEF Good, Fix
    <2>2. Rep(Append(w, r), K, id, {c}, {c})
      BY <2>1, RepSkip
    <2>3. c # 0 => Rep(Append(w, r), K, id, Pos, Pos)
      BY <2>1, RepSkip
    <2> QED
      BY <1>1, <2>2, <2>3 DEF Good, Fix
  <1>2. CASE ~p
    <2>1. Rep(w, K, id, {b}, {c})
      BY <1>2 DEF Good
    <2>2. Rep(Append(w, r), K, id, {b}, {c})
      BY <2>1, RepSkip
    <2> QED
      BY <1>2, <2>2 DEF Good
  <1> QED
    BY <1>1, <1>2

LEMMA GoodLocal ==
    ASSUME NEW w, WalOK(w), NEW K, NEW J, NEW id \in Ids, NEW p \in BOOLEAN, NEW b, NEW c,
           Good(p, w, K, id, b, c),
           \A i \in 1..Len(w) : w[i].op.id = id => (w[i].txn \in K <=> w[i].txn \in J)
    PROVE  Good(p, w, J, id, b, c)
  <1>0. ASSUME NEW B, NEW S, Rep(w, K, id, B, S)
        PROVE  Rep(w, J, id, B, S)
    BY <1>0, RepLocal
  <1> QED
    BY <1>0 DEF Good, Fix

LEMMA RepAny ==
    ASSUME NEW w, WalOK(w), NEW K, NEW id, NEW B
    PROVE  Rep(w, K, id, B, Nat)
  <1>1. Len(w) \in Nat
    BY DEF WalOK
  <1>2. ASSUME NEW f, IsRun(Len(w), KeptBy(w, K), id, f)
        PROVE  f[Len(w)] \in Nat
    <2>1. f \in [0..Len(w) -> Nat] /\ Len(w) \in 0..Len(w)
      BY <1>1, <1>2 DEF IsRun
    <2> QED
      BY <2>1
  <1> QED
    BY <1>2 DEF Rep, Lands

(* A write of the row: an update finds it there.                           *)
LEMMA GoodAdd ==
    ASSUME NEW w, WalOK(w), NEW r, NEW K, NEW id \in Ids, NEW p \in BOOLEAN, NEW b, NEW b2, NEW c,
           Good(p, w, K, id, b, c), r.txn \in K, r.op.id = id, EffectOK(r.op),
           r.op.kind \in DataKinds, r.op.kind = "Update" => c # 0,
           r.op.row.val = 0 <=> r.op.kind = "Delete", ~p => b2 = b
    PROVE  Good(p, Append(w, r), K, id, b2, r.op.row.val)
  <1> DEFINE v == r.op.row.val
  <1>0. v \in Nat
    BY EngineAssumption DEF EffectOK, Effects, RowType, NoRow
  <1>1. \A x : x # 0 \/ r.op.kind # "Update" => EffCell(r.op, id, x) = v
    BY DEF EffCell, CellStep, DataKinds
  <1> HIDE DEF v
  <1>2. ASSUME NEW B, NEW S, Rep(w, K, id, B, S), 0 \notin S \/ r.op.kind # "Update"
        PROVE  Rep(Append(w, r), K, id, B, {v})
    <2>1. \A x \in S : x \in Nat => EffCell(r.op, id, x) \in {v}
      BY <1>1, <1>2
    <2> QED
      BY <1>2, <2>1, RepAdd
  <1>3. CASE ~p
    <2>1. Rep(w, K, id, {b}, {c}) /\ (0 \notin {c} \/ r.op.kind # "Update")
      BY <1>3 DEF Good
    <2>2. Rep(Append(w, r), K, id, {b}, {v})
      BY <1>2, <2>1
    <2> QED
      BY <1>3, <2>2 DEF Good, v
  <1>4. CASE p /\ r.op.kind # "Update"
    <2>1. \A B : Rep(w, K, id, B, Nat)
      BY RepAny
    <2>2. \A B : Rep(Append(w, r), K, id, B, {v})
      BY <1>2, <1>4, <2>1
    <2>3. v # 0 => Rep(Append(w, r), K, id, Pos, Pos)
      <3> SUFFICES ASSUME v # 0
                   PROVE  Rep(Append(w, r), K, id, Pos, Pos)
        OBVIOUS
      <3>1. {v} \subseteq Pos /\ Pos \subseteq Pos
        BY <1>0 DEF Pos
      <3> QED
        BY <2>2, <3>1, RepWeaken
    <2> QED
      BY <1>4, <2>2, <2>3 DEF Good, Fix, v
  <1>5. CASE p /\ r.op.kind = "Update"
    <2>1. Rep(w, K, id, Pos, Pos) /\ 0 \notin Pos /\ v \in Pos
      BY <1>0, <1>5 DEF Good, Fix, Pos, v
    <2>2. Rep(Append(w, r), K, id, Pos, {v})
      BY <1>2, <2>1
    <2>3. {v} \subseteq Pos /\ Pos \subseteq Pos /\ {v} \subseteq {v}
      BY <2>1
    <2>4. Rep(Append(w, r), K, id, Pos, Pos) /\ Rep(Append(w, r), K, id, {v}, {v})
      BY <2>2, <2>3, RepWeaken
    <2> QED
      BY <1>5, <2>4 DEF Good, Fix, v
  <1> QED
    BY <1>3, <1>4, <1>5

LEMMA OpenNotWinner ==
    ASSUME IInv, NoDisk(damage), NEW s \in Sessions, sess[s].txn # 0
    PROVE  sess[s].txn \notin Winners(db)
  <1>1. OpenRecords(db.wal, sess[s])
    BY DamageGrows DEF IInv, RecordsOwn
  <1>2. Ends(db, sess[s].txn) = {}
    BY <1>1 DEF Ends, Seen, OpenRecords, OwnRecord
  <1> QED
    BY <1>2, WinnerIs

LEMMA OpenRows ==
    ASSUME IInv, NoDisk(damage), NEW s \in Sessions, sess[s].txn # 0, NEW id \in Ids,
           id \notin DOMAIN sess[s].pending, NEW i \in 1..Len(db.wal), db.wal[i].op.id = id
    PROVE  db.wal[i].txn # sess[s].txn
  <1>1. OpenRecords(db.wal, sess[s])
    BY DamageGrows DEF IInv, RecordsOwn
  <1>2. WalOK(db.wal)
    BY DEF IInv, TypeInv, DbType
  <1>3. DOMAIN db.wal = 1..Len(db.wal) /\ EffectOK(db.wal[i].op)
    BY <1>2 DEF WalOK
  <1>4. db.wal[i].op.kind \in DataKinds
    BY <1>3 DEF EffectOK, Ids
  <1> QED
    BY <1>1, <1>3, <1>4 DEF OpenRecords, OwnRecord

LEMMA WinnersCong ==
    ASSUME NEW d, NEW e, e.wal = d.wal, e.ckpt = d.ckpt
    PROVE  Winners(e) = Winners(d)
  <1>1. Seen(e) = Seen(d)
    BY DEF Seen
  <1>2. \A txn : Outcome(e, txn) = Outcome(d, txn)
    BY <1>1 DEF Outcome
  <1> QED
    BY <1>1, <1>2 DEF Winners

LEMMA ReplayIs ==
    ASSUME IInv, NoDisk(damage), db.ckpt = 0
    PROVE  ReplaysCommitted(paged, db, committed) /\ \A s \in Sessions : ReplaysOpen(paged, db, sess[s])
  BY DEF IInv, ReplayOf

(* The log is as it was.                                                   *)
LEMMA ReplaySame ==
    ASSUME IInv, NoDisk(damage') => NoDisk(damage), db'.wal = db.wal, db'.ckpt = db.ckpt,
           ~paged => db'.dat = db.dat, committed' = committed,
           \A u \in Sessions : \/ sess'[u].pending = sess[u].pending /\ sess'[u].txn = sess[u].txn
                               \/ DOMAIN sess'[u].pending = {}
    PROVE  ReplayOf(paged, db', sess', committed', damage')
  <1> SUFFICES ASSUME NoDisk(damage'), db'.ckpt = 0
               PROVE  /\ ReplaysCommitted(paged, db', committed')
                      /\ \A s \in Sessions : ReplaysOpen(paged, db', sess'[s])
    BY DEF ReplayOf
  <1>1. ReplaysCommitted(paged, db, committed) /\ \A s \in Sessions : ReplaysOpen(paged, db, sess[s])
    BY ReplayIs
  <1>2. Winners(db') = Winners(db)
    BY WinnersCong
  <1>3. \A K, id, c : Good(paged, db.wal, K, id, Cell(db.dat, id), c)
                         => Good(paged, db'.wal, K, id, Cell(db'.dat, id), c)
    BY DEF Good
  <1>4. ReplaysCommitted(paged, db', committed')
    BY <1>1, <1>2, <1>3 DEF ReplaysCommitted
  <1>5. \A s \in Sessions : ReplaysOpen(paged, db', sess'[s])
    BY <1>1, <1>2, <1>3 DEF ReplaysOpen
  <1> QED
    BY <1>4, <1>5

(* A Begin, Commit or Abort record more.                                   *)
LEMMA ReplayControl ==
    ASSUME IInv, TypeInv', NoDisk(damage') => NoDisk(damage), NEW z \in Sessions, NEW txn, NEW k,
           Logs(txn, Control(k)), k = "Begin" \/ (k = "Abort" /\ txn = sess[z].txn /\ txn # 0),
           ~paged => db'.dat = db.dat, committed' = committed, OthersSame(z),
           DOMAIN sess'[z].pending = {}
    PROVE  ReplayOf(paged, db', sess', committed', damage')
  <1> SUFFICES ASSUME NoDisk(damage'), db'.ckpt = 0
               PROVE  /\ ReplaysCommitted(paged, db', committed')
                      /\ \A s \in Sessions : ReplaysOpen(paged, db', sess'[s])
    BY DEF ReplayOf
  <1>0. WalOK(db.wal) /\ WalOK(db'.wal) /\ paged \in BOOLEAN /\ db.ckpt = 0 /\ NoDisk(damage)
    BY DEF IInv, TypeInv, DbType, Logs
  <1>1. ReplaysCommitted(paged, db, committed) /\ \A s \in Sessions : ReplaysOpen(paged, db, sess[s])
    BY <1>0, ReplayIs
  <1>2. PICK r : r = [lsn |-> db.lsn + 1, txn |-> txn, op |-> Control(k)]
    OBVIOUS
  <1>3. db'.wal = Append(db.wal, r) /\ r.txn = txn /\ r.op.kind = k /\ r.op.id = 0
    BY <1>2 DEF Logs, Control
  <1>4. r.op.kind # "Commit" /\ (r.op.kind = "Abort" => r.txn \notin Winners(db))
    BY <1>0, <1>3, OpenNotWinner
  <1>5. Winners(db') = Winners(db)
    <2>1. PICK d, e : d = db /\ e = db'
      OBVIOUS
    <2>2. /\ WalOK(d.wal) /\ d.ckpt = 0 /\ WalOK(e.wal) /\ e.ckpt = 0 /\ e.wal = Append(d.wal, r)
          /\ r.op.kind # "Commit" /\ (r.op.kind = "Abort" => r.txn \notin Winners(d))
      BY <1>0, <1>3, <1>4, <2>1
    <2>3. Winners(e) = Winners(d)
      BY <2>2, WinnersSame
    <2> QED
      BY <2>1, <2>3
  <1>6. ASSUME NEW K, NEW id \in Ids, NEW c, Good(paged, db.wal, K, id, Cell(db.dat, id), c)
        PROVE  Good(paged, db'.wal, K, id, Cell(db'.dat, id), c)
    <2>1. r.op.id # id /\ (~paged => Cell(db'.dat, id) = Cell(db.dat, id))
      BY <1>3 DEF Ids
    <2>2. Good(paged, Append(db.wal, r), K, id, Cell(db'.dat, id), c)
      BY <1>0, <1>6, <2>1, GoodSkip
    <2> QED
      BY <1>3, <2>2
  <1>7. ReplaysCommitted(paged, db', committed')
    BY <1>1, <1>5, <1>6 DEF ReplaysCommitted
  <1>8. ASSUME NEW s \in Sessions
        PROVE  ReplaysOpen(paged, db', sess'[s])
    <2>1. CASE s = z
      BY <2>1 DEF ReplaysOpen
    <2>2. CASE s # z
      <3>1. sess'[s] = sess[s] /\ DOMAIN sess[s].pending \subseteq Ids
        BY <2>2, SessionTypes DEF OthersSame
      <3> QED
        BY <1>1, <1>5, <1>6, <3>1 DEF ReplaysOpen
    <2> QED
      BY <2>1, <2>2
  <1> QED
    BY <1>7, <1>8

LEMMA ReplayCommits ==
    ASSUME IInv, TypeInv', NEW z \in Sessions, Commits(z)
    PROVE  ReplayOf(paged, db', sess', committed', damage')
  <1> SUFFICES ASSUME NoDisk(damage'), db'.ckpt = 0
               PROVE  /\ ReplaysCommitted(paged, db', committed')
                      /\ \A s \in Sessions : ReplaysOpen(paged, db', sess'[s])
    BY DEF ReplayOf
  <1> DEFINE txn == sess[z].txn
             C == Winners(db)
  <1>0. /\ WalOK(db.wal) /\ WalOK(db'.wal) /\ paged \in BOOLEAN /\ db.ckpt = 0 /\ NoDisk(damage)
        /\ txn # 0 /\ db'.dat = db.dat
    BY DEF IInv, TypeInv, DbType, Logs, Commits
  <1>1. ReplaysCommitted(paged, db, committed) /\ \A s \in Sessions : ReplaysOpen(paged, db, sess[s])
    BY <1>0, ReplayIs
  <1>2. PICK r : r = [lsn |-> db.lsn + 1, txn |-> txn, op |-> Control("Commit")]
    OBVIOUS
  <1>3. db'.wal = Append(db.wal, r) /\ r.txn = txn /\ r.op.kind = "Commit" /\ r.op.id = 0
    BY <1>2 DEF Logs, Control, Commits
  <1>5. Winners(db') = C \cup {txn}
    <2>1. PICK d, e : d = db /\ e = db'
      OBVIOUS
    <2>2. /\ WalOK(d.wal) /\ d.ckpt = 0 /\ WalOK(e.wal) /\ e.ckpt = 0 /\ e.wal = Append(d.wal, r)
          /\ r.op.kind = "Commit"
      BY <1>0, <1>3, <2>1
    <2>3. Winners(e) = Winners(d) \cup {r.txn}
      BY <2>2, WinnersMore
    <2> QED
      BY <1>3, <2>1, <2>3
  <1>6. ASSUME NEW K, NEW id \in Ids, NEW c, Good(paged, db.wal, K, id, Cell(db.dat, id), c)
        PROVE  Good(paged, db'.wal, K, id, Cell(db'.dat, id), c)
    <2>1. r.op.id # id
      BY <1>3 DEF Ids
    <2>2. Good(paged, Append(db.wal, r), K, id, Cell(db.dat, id), c)
      BY <1>0, <1>6, <2>1, GoodSkip
    <2> QED
      BY <1>0, <1>3, <2>2
  <1>7. ASSUME NEW K, NEW id \in Ids, NEW c, Good(paged, db.wal, K, id, Cell(db.dat, id), c),
               id \notin DOMAIN sess[z].pending
        PROVE  Good(paged, db.wal, K \cup {txn}, id, Cell(db.dat, id), c)
    <2>1. \A i \in 1..Len(db.wal) : db.wal[i].op.id = id
             => (db.wal[i].txn \in K <=> db.wal[i].txn \in K \cup {txn})
      BY <1>0, <1>7, OpenRows
    <2> QED
      BY <1>0, <1>7, <2>1, GoodLocal
  <1>8. \A id : Com(committed', id) =
                   IF id \in DOMAIN sess[z].pending THEN sess[z].pending[id] ELSE Com(committed, id)
    BY ComWith DEF Commits, IInv
  <1> HIDE DEF txn, C
  <1>9. ReplaysCommitted(paged, db', committed')
    <2> SUFFICES ASSUME NEW id \in Ids
                 PROVE  Good(paged, db'.wal, C \cup {txn}, id, Cell(db'.dat, id), Com(committed', id))
      BY <1>5 DEF ReplaysCommitted
    <2>1. CASE id \in DOMAIN sess[z].pending
      <3>1. Good(paged, db.wal, C \cup {txn}, id, Cell(db.dat, id), sess[z].pending[id])
        BY <1>1, <2>1 DEF ReplaysOpen, C, txn
      <3> QED
        BY <1>6, <1>8, <2>1, <3>1
    <2>2. CASE id \notin DOMAIN sess[z].pending
      <3>1. Good(paged, db.wal, C, id, Cell(db.dat, id), Com(committed, id))
        BY <1>1 DEF ReplaysCommitted, C
      <3>2. Good(paged, db.wal, C \cup {txn}, id, Cell(db.dat, id), Com(committed, id))
        BY <1>7, <2>2, <3>1
      <3> QED
        BY <1>6, <1>8, <2>2, <3>2
    <2> QED
      BY <2>1, <2>2
  <1>10. ASSUME NEW s \in Sessions
         PROVE  ReplaysOpen(paged, db', sess'[s])
    <2>1. CASE s = z
      BY <2>1, NewSessionType DEF ReplaysOpen, Commits
    <2>2. CASE s # z
      <3>1. sess'[s] = sess[s] /\ DOMAIN sess[s].pending \subseteq Ids
        BY <2>2, SessionTypes DEF OthersSame, Commits
      <3>2. DOMAIN sess[s].pending \cap DOMAIN sess[z].pending = {}
        BY <1>0, <2>2, Disjoint DEF TouchedBy
      <3>3. ASSUME NEW id \in DOMAIN sess[s].pending
            PROVE  Good(paged, db'.wal, (C \cup {txn}) \cup {sess[s].txn}, id, Cell(db'.dat, id),
                        sess[s].pending[id])
        <4>1. Good(paged, db.wal, C \cup {sess[s].txn}, id, Cell(db.dat, id), sess[s].pending[id])
          BY <1>1 DEF ReplaysOpen, C
        <4>2. Good(paged, db.wal, (C \cup {sess[s].txn}) \cup {txn}, id, Cell(db.dat, id), sess[s].pending[id])
          BY <1>7, <3>1, <3>2, <4>1
        <4>3. (C \cup {sess[s].txn}) \cup {txn} = (C \cup {txn}) \cup {sess[s].txn}
          OBVIOUS
        <4> QED
          BY <1>6, <3>1, <4>2, <4>3
      <3> QED
        BY <1>5, <3>1, <3>3 DEF ReplaysOpen
    <2> QED
      BY <2>1, <2>2
  <1> QED
    BY <1>9, <1>10

LEMMA ReplayAppends ==
    ASSUME IInv, TypeInv', NEW z \in Sessions, NEW e, Appends(z, e)
    PROVE  ReplayOf(paged, db', sess', committed', damage')
  <1> SUFFICES ASSUME NoDisk(damage'), db'.ckpt = 0
               PROVE  /\ ReplaysCommitted(paged, db', committed')
                      /\ \A s \in Sessions : ReplaysOpen(paged, db', sess'[s])
    BY DEF ReplayOf
  <1> DEFINE txn == sess[z].txn
             C == Winners(db)
  <1>0. /\ WalOK(db.wal) /\ WalOK(db'.wal) /\ paged \in BOOLEAN /\ db.ckpt = 0
        /\ WritesRow(z, e) /\ txn # 0 /\ (~paged => db'.dat = db.dat) /\ committed' = committed
        /\ EffectOK(e) /\ e.kind \in DataKinds /\ (e.row.val = 0 <=> e.kind = "Delete")
    BY DEF IInv, TypeInv, DbType, Logs, Appends, WritesRow, ChangesRow
  <1>1. NoDisk(damage) /\ "interference" \notin Harm(z, e)
    BY DamageGrows DEF Appends
  <1>2. ReplaysCommitted(paged, db, committed) /\ \A s \in Sessions : ReplaysOpen(paged, db, sess[s])
    BY <1>0, <1>1, ReplayIs
  <1>3. PICK r : r = [lsn |-> db.lsn + 1, txn |-> txn, op |-> e]
    OBVIOUS
  <1>4. db'.wal = Append(db.wal, r) /\ r.txn = txn /\ r.op = e
    BY <1>3 DEF Logs, Appends
  <1>5. txn \notin C
    BY <1>0, <1>1, OpenNotWinner
  <1>6. Winners(db') = C
    <2>1. PICK d, f : d = db /\ f = db'
      OBVIOUS
    <2>2. /\ WalOK(d.wal) /\ d.ckpt = 0 /\ WalOK(f.wal) /\ f.ckpt = 0 /\ f.wal = Append(d.wal, r)
          /\ r.op.kind # "Commit" /\ r.op.kind # "Abort"
      BY <1>0, <1>4, <2>1 DEF DataKinds
    <2>3. Winners(f) = Winners(d)
      BY <2>2, WinnersSame
    <2> QED
      BY <2>1, <2>3
  <1>7. \A id : ~paged => Cell(db'.dat, id) = Cell(db.dat, id)
    BY <1>0
  <1>8. ASSUME NEW K, NEW id \in Ids, NEW c, Good(paged, db.wal, K, id, Cell(db.dat, id), c),
               txn \notin K \/ e.id # id
        PROVE  Good(paged, db'.wal, K, id, Cell(db'.dat, id), c)
    <2>1. Good(paged, Append(db.wal, r), K, id, Cell(db'.dat, id), c)
      BY <1>0, <1>4, <1>7, <1>8, GoodSkip
    <2> QED
      BY <1>4, <2>1
  <1> HIDE DEF txn, C
  <1>9. ReplaysCommitted(paged, db', committed')
    <2> SUFFICES ASSUME NEW id \in Ids
                 PROVE  Good(paged, db'.wal, C, id, Cell(db'.dat, id), Com(committed, id))
      BY <1>0, <1>6 DEF ReplaysCommitted
    <2>1. Good(paged, db.wal, C, id, Cell(db.dat, id), Com(committed, id))
      BY <1>2 DEF ReplaysCommitted, C
    <2> QED
      BY <1>5, <1>8, <2>1
  <1>10. ASSUME NEW s \in Sessions, s # z
         PROVE  ReplaysOpen(paged, db', sess'[s])
    <2>1. sess'[s] = sess[s] /\ DOMAIN sess[s].pending \subseteq Ids
      BY <1>0, <1>10, SessionTypes DEF OthersSame, WritesRow, ChangesRow
    <2>2. sess[s].txn # txn
      BY <1>0, <1>10 DEF IInv, TxnsApart, txn
    <2>3. ASSUME NEW id \in DOMAIN sess[s].pending
          PROVE  Good(paged, db'.wal, C \cup {sess[s].txn}, id, Cell(db'.dat, id), sess[s].pending[id])
      <3>1. Good(paged, db.wal, C \cup {sess[s].txn}, id, Cell(db.dat, id), sess[s].pending[id])
        BY <1>2 DEF ReplaysOpen, C
      <3>2. txn \notin C \cup {sess[s].txn}
        BY <1>5, <2>2
      <3> QED
        BY <1>8, <2>1, <3>1, <3>2
    <2> QED
      BY <1>6, <2>1, <2>3 DEF ReplaysOpen
  <1>11. /\ DOMAIN sess'[z].pending = DOMAIN sess[z].pending \cup {e.id}
         /\ \A i \in DOMAIN sess'[z].pending :
               sess'[z].pending[i] = IF i = e.id THEN e.row.val ELSE sess[z].pending[i]
         /\ sess'[z].txn = txn
    BY <1>0 DEF WritesRow, ChangesRow, Put, Recorded, txn
  <1>12. e.id \in Ids /\ DOMAIN sess[z].pending \subseteq Ids
    BY <1>0, SessionTypes DEF EffectOK, Effects, Ids
  <1>13. PICK c : /\ Good(paged, db.wal, C \cup {txn}, e.id, Cell(db.dat, e.id), c)
                  /\ e.kind = "Update" => c # 0
    <2>1. e.kind = "Update" => Clear(z, e.id) /\ e.kind # "Insert"
      BY <1>0, <1>1, WriteClear DEF IInv, WritesRow
    <2>2. e.kind = "Update" => Cell(db.mem, e.id) # 0
      <3>1. TableOK(db.mem)
        BY DEF IInv, TypeInv, DbType
      <3> QED
        BY <2>1, <3>1, CellType DEF Clear
    <2>3. CASE e.id \in DOMAIN sess[z].pending
      <3>1. Good(paged, db.wal, C \cup {txn}, e.id, Cell(db.dat, e.id), sess[z].pending[e.id])
        BY <1>2, <2>3 DEF ReplaysOpen, C, txn
      <3>2. Cell(db.mem, e.id) # 0 => sess[z].pending[e.id] # 0
        BY <1>0, <1>1, <2>3 DEF IInv, MemOf, ThereIs, WritesRow, ChangesRow
      <3> QED
        BY <2>2, <3>1, <3>2
    <2>4. CASE e.id \notin DOMAIN sess[z].pending
      <3>1. Good(paged, db.wal, C, e.id, Cell(db.dat, e.id), Com(committed, e.id))
        BY <1>2, <1>12 DEF ReplaysCommitted, C
      <3>2. \A i \in 1..Len(db.wal) : db.wal[i].op.id = e.id
               => (db.wal[i].txn \in C <=> db.wal[i].txn \in C \cup {txn})
        BY <1>0, <1>1, <1>12, <2>4, OpenRows DEF txn
      <3>3. Good(paged, db.wal, C \cup {txn}, e.id, Cell(db.dat, e.id), Com(committed, e.id))
        BY <1>0, <1>12, <3>1, <3>2, GoodLocal
      <3>4. e.kind = "Update" => Com(committed, e.id) = Cell(db.mem, e.id)
        BY <2>1, <2>4 DEF Clear, Com, Cell
      <3> QED
        BY <2>2, <3>3, <3>4
    <2> QED
      BY <2>3, <2>4
  <1>14. Good(paged, db'.wal, C \cup {txn}, e.id, Cell(db'.dat, e.id), e.row.val)
    <2>1. r.txn \in C \cup {txn} /\ r.op.id = e.id /\ r.op.row.val = e.row.val /\ EffectOK(r.op)
      BY <1>0, <1>4
    <2>2. r.op.kind \in DataKinds /\ (r.op.kind = "Update" => c # 0) /\ (r.op.row.val = 0 <=> r.op.kind = "Delete")
      BY <1>0, <1>4, <1>13
    <2>3. Good(paged, Append(db.wal, r), C \cup {txn}, e.id, Cell(db'.dat, e.id), r.op.row.val)
      BY <1>0, <1>7, <1>12, <1>13, <2>1, <2>2, GoodAdd
    <2> QED
      BY <1>4, <2>1, <2>3
  <1>15. ReplaysOpen(paged, db', sess'[z])
    <2> SUFFICES ASSUME NEW id \in DOMAIN sess'[z].pending
                 PROVE  Good(paged, db'.wal, C \cup {txn}, id, Cell(db'.dat, id), sess'[z].pending[id])
      BY <1>6, <1>11 DEF ReplaysOpen
    <2>1. CASE id = e.id
      BY <1>11, <1>14, <2>1
    <2>2. CASE id # e.id
      <3>1. Good(paged, db.wal, C \cup {txn}, id, Cell(db.dat, id), sess[z].pending[id])
        BY <1>2, <1>11, <2>2 DEF ReplaysOpen, C, txn
      <3>2. id \in Ids
        BY <1>11, <1>12
      <3> QED
        BY <1>8, <1>11, <2>2, <3>1, <3>2
    <2> QED
      BY <2>1, <2>2
  <1> QED
    BY <1>9, <1>10, <1>15

LEMMA ReplayShutsDown ==
    ASSUME IInv, ShutsDown
    PROVE  ReplayOf(paged, db', sess', committed', damage')
  <1> SUFFICES ASSUME NoDisk(damage'), db'.ckpt = 0
               PROVE  /\ ReplaysCommitted(paged, db', committed')
                      /\ \A s \in Sessions : ReplaysOpen(paged, db', sess'[s])
    BY DEF ReplayOf
  <1>1. AllCommitted(db.mem, committed)
    BY ShutsDownIs
  <1>2. /\ db'.dat = db.mem /\ db'.wal = <<>> /\ committed' = committed
        /\ \A s \in Sessions : sess'[s] = NewSession
    BY DEF ShutsDown, Stops
  <1>3. \A s \in Sessions : ReplaysOpen(paged, db', sess'[s])
    BY <1>2, NewSessionType DEF ReplaysOpen
  <1>4. ASSUME NEW id \in Ids
        PROVE  Good(paged, db'.wal, Winners(db'), id, Cell(db'.dat, id), Com(committed', id))
    <2>1. Cell(db'.dat, id) = Com(committed', id)
      BY <1>1, <1>2 DEF AllCommitted
    <2>2. \A K, B : Rep(<<>>, K, id, B, B)
      BY RepEmpty
    <2> QED
      BY <1>2, <2>1, <2>2 DEF Good, Fix
  <1> QED
    BY <1>3, <1>4 DEF ReplaysCommitted

LEMMA ReplayStep ==
    ASSUME IInv, TypeInv', StepKind
    PROVE  ReplayOf(paged, db', sess', committed', damage')
  <1> DEFINE Goal == ReplayOf(paged, db', sess', committed', damage')
  <1> SUFFICES Goal
    OBVIOUS
  <1> HIDE DEF Goal
  <1>1. CASE Quiet
    <2>1. UNCHANGED <<db, committed, damage>>
      BY <1>1 DEF Quiet
    <2>2. \A u \in Sessions : sess'[u].pending = sess[u].pending /\ sess'[u].txn = sess[u].txn
      BY <1>1 DEF Quiet, SameWork
    <2> QED
      BY <2>1, <2>2, ReplaySame DEF Goal
  <1>2. ASSUME NEW s \in Sessions, Begins(s) PROVE Goal
    <2>1. damage \subseteq damage' /\ Logs(db.nextTxn, Control("Begin")) /\ db'.dat = db.dat
          /\ committed' = committed /\ OthersSame(s) /\ DOMAIN sess'[s].pending = {}
      BY <1>2 DEF Begins
    <2>2. NoDisk(damage') => NoDisk(damage)
      BY <2>1, DamageGrows
    <2> QED
      BY <2>1, <2>2, ReplayControl DEF Goal
  <1>3. ASSUME NEW s \in Sessions, NEW id, Notes(s, id) PROVE Goal
    <2>1. UNCHANGED <<db, committed>> /\ damage \subseteq damage'
      BY <1>3 DEF Notes
    <2>2. \A u \in Sessions : sess'[u].pending = sess[u].pending /\ sess'[u].txn = sess[u].txn
      BY <1>3 DEF Notes, OthersSame, Recorded
    <2>3. NoDisk(damage') => NoDisk(damage)
      BY <2>1, DamageGrows
    <2> QED
      BY <2>1, <2>2, <2>3, ReplaySame DEF Goal
  <1>4. ASSUME NEW s \in Sessions, NEW e, Appends(s, e) PROVE Goal
    BY <1>4, ReplayAppends DEF Goal
  <1>4a. ASSUME NEW s \in Sessions, NEW e, Strays(s, e) PROVE Goal
    <2>1. /\ db'.wal = db.wal /\ db'.ckpt = db.ckpt /\ (~paged => db'.dat = db.dat)
          /\ committed' = committed /\ damage \subseteq damage'
      BY <1>4a DEF Strays, ChangesRow
    <2>2. \A u \in Sessions : sess'[u].pending = sess[u].pending /\ sess'[u].txn = sess[u].txn
      BY <1>4a DEF Strays, ChangesRow, OthersSame, Recorded
    <2>3. NoDisk(damage') => NoDisk(damage)
      BY <2>1, DamageGrows
    <2> QED
      BY <2>1, <2>2, <2>3, ReplaySame DEF Goal
  <1>5. ASSUME NEW s \in Sessions, NEW e, Saves(s, e) PROVE Goal
    <2>1. db'.ckpt # 0
      BY <1>5 DEF Saves, IInv, TypeInv, DbType
    <2> QED
      BY <2>1 DEF Goal, ReplayOf
  <1>6. ASSUME NEW s \in Sessions, Commits(s) PROVE Goal
    BY <1>6, ReplayCommits DEF Goal
  <1>7. ASSUME NEW s \in Sessions, RollsBack(s) PROVE Goal
    <2>1. /\ damage \subseteq damage' /\ Logs(sess[s].txn, Control("Abort"))
          /\ (~paged => db'.dat = db.dat) /\ sess[s].txn # 0
          /\ committed' = committed /\ OthersSame(s) /\ sess'[s] = NewSession
      BY <1>7 DEF RollsBack
    <2>2. (NoDisk(damage') => NoDisk(damage)) /\ DOMAIN sess'[s].pending = {}
      BY <2>1, DamageGrows, NewSessionType
    <2> QED
      BY <2>1, <2>2, ReplayControl DEF Goal
  <1>8. ASSUME NEW s \in Sessions, Leaves(s) PROVE Goal
    <2>1. UNCHANGED <<db, committed>> /\ damage \subseteq damage'
      BY <1>8 DEF Leaves
    <2>2. \A u \in Sessions : \/ sess'[u].pending = sess[u].pending /\ sess'[u].txn = sess[u].txn
                              \/ DOMAIN sess'[u].pending = {}
      BY <1>8, NewSessionType DEF Leaves, OthersSame
    <2>3. NoDisk(damage') => NoDisk(damage)
      BY <2>1, DamageGrows
    <2> QED
      BY <2>1, <2>2, <2>3, ReplaySame DEF Goal
  <1>9. CASE SavesAll
    <2>1. db'.ckpt # 0
      BY <1>9 DEF SavesAll
    <2> QED
      BY <2>1 DEF Goal, ReplayOf
  <1>10. CASE Dies
    <2>1. /\ db'.dat = db.dat /\ db'.wal = db.wal /\ db'.ckpt = db.ckpt /\ committed' = committed
          /\ damage \subseteq damage' /\ \A s \in Sessions : sess'[s] = NewSession
      BY <1>10 DEF Dies, Stops
    <2>2. (NoDisk(damage') => NoDisk(damage)) /\ \A s \in Sessions : DOMAIN sess'[s].pending = {}
      BY <2>1, DamageGrows, NewSessionType
    <2> QED
      BY <2>1, <2>2, ReplaySame DEF Goal
  <1>11. CASE ShutsDown
    BY <1>11, ReplayShutsDown DEF Goal
  <1>12. CASE Opens
    <2>1. /\ (~paged => db'.dat = db.dat) /\ db'.wal = db.wal /\ db'.ckpt = db.ckpt
          /\ committed' = committed /\ sess' = sess /\ damage' = damage \ MemoryDamage
      BY <1>12 DEF Opens
    <2>2. NoDisk(damage') => NoDisk(damage)
      BY <2>1 DEF NoDisk, DiskDamage, MemoryDamage
    <2> QED
      BY <2>1, <2>2, ReplaySame DEF Goal
  <1> QED
    BY <1>1, <1>2, <1>3, <1>4, <1>4a, <1>5, <1>6, <1>7, <1>8, <1>9, <1>10, <1>11, <1>12 DEF StepKind

-----------------------------------------------------------------------------
(* The invariant holds in every reachable state.                           *)
LEMMA IInvInit == Init => IInv
  <1> SUFFICES ASSUME Init
               PROVE  IInv
    OBVIOUS
  <1>1. /\ db = EmptyDb /\ up = TRUE /\ committed = <<>> /\ dirty = {} /\ damage = {}
        /\ \A s \in Sessions : sess[s] = NewSession
    BY DEF Init
  <1>2. /\ db.mem = EmptyTable /\ db.dat = EmptyTable /\ db.wal = <<>> /\ db.ckpt = 0
    BY <1>1 DEF EmptyDb
  <1>3. /\ \A s \in Sessions : sess[s].txn = 0 /\ DOMAIN sess[s].pending = {}
        /\ \A s \in Sessions : IdsOf(sess[s].undo) = {} /\ TouchedBy(sess[s]) = {}
    BY <1>1, NewSessionType, NewTidy
  <1>4. \A id : Com(committed, id) = 0
    BY <1>1 DEF Com
  <1>5. AllCommitted(EmptyTable, committed)
    BY <1>4, EmptyTableOK DEF AllCommitted
  <1>6. TxnsApart(sess) /\ RecordsOwn(db.wal, sess, damage)
    BY <1>3 DEF TxnsApart, RecordsOwn
  <1>7. AllTidy(db.mem.next, sess) /\ Apart(sess, damage)
    BY <1>1, <1>3, NewTidy DEF AllTidy, Apart
  <1>8. MemOf(paged, db.mem, sess, committed, damage)
    <2>1. /\ WrittenIs(db.mem, sess) /\ ThereIs(db.mem, sess)
          /\ \A s \in Sessions : UndoIs(db.mem, sess[s], committed)
      BY <1>3 DEF WrittenIs, ThereIs, UndoIs
    <2>2. RestIs(db.mem, sess, committed)
      BY <1>2, <1>5 DEF RestIs, AllCommitted
    <2> QED
      BY <2>1, <2>2 DEF MemOf
  <1>9. FileOf(paged, up, db, sess, committed, dirty, damage)
    <2>1. PendingIn(sess) = {}
      BY <1>3 DEF PendingIn
    <2> QED
      BY <1>1, <1>2, <1>5, <2>1 DEF FileOf, AllCommitted
  <1>10. ReplayOf(paged, db, sess, committed, damage)
    <2>1. \A s \in Sessions : ReplaysOpen(paged, db, sess[s])
      BY <1>3 DEF ReplaysOpen
    <2>2. ASSUME NEW id \in Ids
          PROVE  Good(paged, db.wal, Winners(db), id, Cell(db.dat, id), Com(committed, id))
      <3>1. Cell(db.dat, id) = Com(committed, id)
        BY <1>2, <1>5 DEF AllCommitted
      <3>2. \A K, B : Rep(<<>>, K, id, B, B)
        BY RepEmpty
      <3> QED
        BY <1>2, <3>1, <3>2 DEF Good, Fix
    <2> QED
      BY <2>1, <2>2 DEF ReplayOf, ReplaysCommitted
  <1> QED
    BY <1>6, <1>7, <1>8, <1>9, <1>10, InitType DEF IInv

(* The invariant of the next state, part by part.                          *)
LEMMA IInvNext ==
    ASSUME TypeInv', TxnsApart(sess'), RecordsOwn(db'.wal, sess', damage'),
           AllTidy(db'.mem.next, sess'), Apart(sess', damage'),
           up' => MemOf(paged', db'.mem, sess', committed', damage'),
           FileOf(paged', up', db', sess', committed', dirty', damage'),
           ReplayOf(paged', db', sess', committed', damage')
    PROVE  IInv'
  <1>1. TxnsApart(sess)' <=> TxnsApart(sess')
    BY DEF TxnsApart
  <1>2. RecordsOwn(db.wal, sess, damage)' <=> RecordsOwn(db'.wal, sess', damage')
    BY DEF RecordsOwn, OpenRecords, OwnRecord, DataKinds
  <1>3. AllTidy(db.mem.next, sess)' <=> AllTidy(db'.mem.next, sess')
    BY DEF AllTidy, Tidy, TouchedBy, IdsOf
  <1>4. Apart(sess, damage)' <=> Apart(sess', damage')
    BY DEF Apart, TouchedBy, IdsOf
  <1>5. NoDisk(damage)' <=> NoDisk(damage')
    BY DEF NoDisk, DiskDamage
  <1>6. Sound(paged, damage)' <=> Sound(paged', damage')
    BY DEF Sound, NoDisk, DiskDamage, MemoryDamage
  <1>7. /\ WrittenIs(db.mem, sess)' <=> WrittenIs(db'.mem, sess')
        /\ ThereIs(db.mem, sess)' <=> ThereIs(db'.mem, sess')
    BY DEF WrittenIs, ThereIs, Cell
  <1>8. RestIs(db.mem, sess, committed)' <=> RestIs(db'.mem, sess', committed')
    BY DEF RestIs, Free, Ids, Cell, Com
  <1>9. (\A s \in Sessions : UndoIs(db.mem, sess[s], committed))'
           <=> \A s \in Sessions : UndoIs(db'.mem, sess'[s], committed')
    BY DEF UndoIs, IdsOf, UndoLands, Lands, IsRun, EffCell, CellStep, Cell, Com, Reverse
  <1>10. MemOf(paged, db.mem, sess, committed, damage)'
            <=> MemOf(paged', db'.mem, sess', committed', damage')
    BY <1>5, <1>6, <1>7, <1>8, <1>9 DEF MemOf
  <1>11. FileOf(paged, up, db, sess, committed, dirty, damage)'
            <=> FileOf(paged', up', db', sess', committed', dirty', damage')
    BY DEF FileOf, PendingIn, AllCommitted, NoDisk, DiskDamage, Ids, Cell, Com
  <1>12. ReplaysCommitted(paged, db, committed)' <=> ReplaysCommitted(paged', db', committed')
    BY DEF ReplaysCommitted, Good, Fix, Rep, KeptBy, Control, NoRow, Winners, Outcome, Seen, Max,
           Lands, IsRun, EffCell, CellStep, Cell, Com, Ids, Pos
  <1>13. (\A s \in Sessions : ReplaysOpen(paged, db, sess[s]))'
            <=> \A s \in Sessions : ReplaysOpen(paged', db', sess'[s])
    BY DEF ReplaysOpen, Good, Fix, Rep, KeptBy, Control, NoRow, Winners, Outcome, Seen, Max,
           Lands, IsRun, EffCell, CellStep, Cell, Pos
  <1>14. ReplayOf(paged, db, sess, committed, damage)'
            <=> ReplayOf(paged', db', sess', committed', damage')
    BY <1>5, <1>12, <1>13 DEF ReplayOf
  <1> QED
    BY <1>1, <1>2, <1>3, <1>4, <1>10, <1>11, <1>14 DEF IInv

LEMMA IInvStep ==
    ASSUME IInv, [Next]_vars
    PROVE  IInv'
  <1>1. TypeInv' /\ paged' = paged /\ StepKind
    BY StepIs DEF IInv
  <1>2. TxnsApart(sess') /\ RecordsOwn(db'.wal, sess', damage')
    BY <1>1, TxnsStep, RecordsStep DEF IInv
  <1>3. AllTidy(db'.mem.next, sess') /\ Apart(sess', damage')
    BY <1>1, TidyStep, ApartStep DEF IInv
  <1>4. up' => MemOf(paged, db'.mem, sess', committed', damage')
    BY <1>1, MemStep
  <1>5. FileOf(paged, up', db', sess', committed', dirty', damage')
    BY <1>1, <1>4, FileStep
  <1>6. ReplayOf(paged, db', sess', committed', damage')
    BY <1>1, ReplayStep
  <1> QED
    BY <1>1, <1>2, <1>3, <1>4, <1>5, <1>6, IInvNext

LEMMA Invariant == Spec => []IInv
  <1>1. Init => IInv
    BY IInvInit
  <1>2. IInv /\ [Next]_vars => IInv'
    BY IInvStep
  <1> QED
    BY <1>1, <1>2, PTL DEF Spec

(* A table whose every cell is committed has the committed values.         *)
LEMMA CommittedValues ==
    ASSUME NEW t, TableOK(t), CommittedOK(committed), AllCommitted(t, committed)
    PROVE  Values(t) = committed
  <1>1. \A id \in Ids : id \in DOMAIN t.rows <=> id \in DOMAIN committed
    <2> SUFFICES ASSUME NEW id \in Ids
                 PROVE  id \in DOMAIN t.rows <=> id \in DOMAIN committed
      OBVIOUS
    <2>1. Cell(t, id) = Com(committed, id)
      BY DEF AllCommitted
    <2>2. id \in DOMAIN t.rows => Cell(t, id) # 0
      BY EngineAssumption DEF TableOK, RowType, Cell
    <2>3. id \in DOMAIN committed => Com(committed, id) # 0
      BY EngineAssumption DEF CommittedOK, Com
    <2> QED
      BY <2>1, <2>2, <2>3 DEF Cell, Com
  <1>2. DOMAIN t.rows \subseteq Ids /\ DOMAIN committed \subseteq Ids
    BY DEF TableOK, CommittedOK, Ids
  <1>3. DOMAIN t.rows = DOMAIN committed
    BY <1>1, <1>2
  <1>4. \A i \in DOMAIN committed : t.rows[i].val = committed[i]
    BY <1>2, <1>3 DEF AllCommitted, Cell, Com
  <1>5. committed = [i \in DOMAIN committed |-> committed[i]]
    BY DEF CommittedOK
  <1> QED
    BY <1>3, <1>4, <1>5 DEF Values

(* Crash atomicity: whenever the process dies, between the rows of a       *)
(* statement and with transactions open, replay_wal makes of the table     *)
(* file and the log exactly the rows of the committed transactions, unless *)
(* one of the named exceptions has happened.                               *)
THEOREM CrashesAreAtomic == Spec => []CrashAtomicity
  <1>1. ASSUME IInv
        PROVE  CrashAtomicity
    <2> SUFFICES ASSUME damage \cap DiskDamage = {}, dirty = {}, ~Hidden(db)
                 PROVE  Values(Recovered(db)) = committed
      BY DEF CrashAtomicity
    <2>1. TypeInv /\ NoDisk(damage)
      BY <1>1 DEF IInv, NoDisk
    <2>2. db.wal = <<>> \/ db.ckpt = 0
      BY <2>1, HiddenIs
    <2>3. AllCommitted(Recovered(db), committed)
      BY <1>1, <2>1, <2>2, RecoversCommitted
    <2>4. TableOK(Recovered(db)) /\ CommittedOK(committed)
      BY <2>1, RecoveredOK DEF TypeInv, DbType
    <2> QED
      BY <2>3, <2>4, CommittedValues
  <1> QED
    BY <1>1, Invariant, PTL

-----------------------------------------------------------------------------
(* Rollback of every open transaction.  Each takes the rows it has touched *)
(* back to their committed values and leaves the others.                   *)
AllTakenBack(b, seq) == FoldLeft(TakenBack, b, seq)

TakesBack(st, n, seq, b, t) ==
    st[0] = b /\ (\A i \in 1..n : st[i] = TakenBack(st[i - 1], seq[i])) /\ st[n] = t

LEMMA TakenBackStates ==
    ASSUME NEW n \in Nat, NEW seq, DOMAIN seq = 1..n, NEW b, NEW t, AllTakenBack(b, seq) = t
    PROVE  \E st : TakesBack(st, n, seq, b, t)
  <1> DEFINE Eq(f, m) == f = [x \in SUBSET (1..m) |->
                                IF x = {} THEN b ELSE TakenBack(f[x \ {Max(x)}], seq[Max(x)])]
             good == {m \in 0..n : \E f : Eq(f, m)}
  <1>1. 0 \in good
    <2> DEFINE f == [x \in SUBSET (1..0) |-> b]
    <2>1. \A x \in SUBSET (1..0) : x = {}
      OBVIOUS
    <2>2. Eq(f, 0)
      BY <2>1
    <2> QED
      BY <2>2
  <1>2. ASSUME NEW m \in 0..(n - 1), m \in good
        PROVE  m + 1 \in good
    <2>1. PICK f : Eq(f, m)
      BY <1>2
    <2> DEFINE g == [x \in SUBSET (1..(m + 1)) |->
                        IF m + 1 \in x THEN TakenBack(f[x \ {m + 1}], seq[m + 1]) ELSE f[x]]
               h == [x \in SUBSET (1..(m + 1)) |->
                        IF x = {} THEN b ELSE TakenBack(g[x \ {Max(x)}], seq[Max(x)])]
    <2>2. ASSUME NEW x \in SUBSET (1..(m + 1))
          PROVE  g[x] = h[x]
      <3>1. CASE m + 1 \in x
        <4>1. Max(x) = m + 1
          BY <3>1, MaxIs
        <4>2. x \ {m + 1} \in SUBSET (1..(m + 1)) /\ m + 1 \notin x \ {m + 1} /\ x # {}
          BY <3>1
        <4>3. g[x \ {m + 1}] = f[x \ {m + 1}]
          BY <4>2
        <4> QED
          BY <3>1, <4>1, <4>2, <4>3
      <3>2. CASE m + 1 \notin x
        <4>1. x \in SUBSET (1..m)
          BY <3>2
        <4>2. g[x] = IF x = {} THEN b ELSE TakenBack(f[x \ {Max(x)}], seq[Max(x)])
          BY <2>1, <3>2, <4>1
        <4>3. x \ {Max(x)} \in SUBSET (1..(m + 1)) /\ m + 1 \notin x \ {Max(x)}
          BY <3>2
        <4>4. g[x \ {Max(x)}] = f[x \ {Max(x)}]
          BY <4>3
        <4> QED
          BY <4>2, <4>4
      <3> QED
        BY <3>1, <3>2
    <2>3. Eq(g, m + 1)
      <3>1. g = h
        BY <2>2
      <3> QED
        BY <3>1
    <2> HIDE DEF g
    <2>4. PICK ff : ff = g
      OBVIOUS
    <2>5. Eq(ff, m + 1)
      BY <2>3, <2>4
    <2>6. m + 1 \in 0..n
      OBVIOUS
    <2> QED
      BY <2>5, <2>6
  <1>3. n \in good
    <2> HIDE DEF good
    <2>1. \A i \in 0..n : i \in good
      BY <1>1, <1>2, IndexInduction
    <2> QED
      BY <2>1
  <1> DEFINE it == CHOOSE f : Eq(f, n)
  <1>4. Eq(it, n)
    BY <1>3
  <1>5. AllTakenBack(b, seq) = it[1..n]
    BY DEF AllTakenBack, FoldLeft, MapThenFoldSet
  <1> HIDE DEF it
  <1> DEFINE st == [i \in 0..n |-> it[1..i]]
  <1>6. st[0] = b
    BY <1>4
  <1>7. ASSUME NEW i \in 1..n
        PROVE  st[i] = TakenBack(st[i - 1], seq[i])
    <2>1. 1..i \in SUBSET (1..n) /\ i \in 1..i /\ (1..i) \ {i} = 1..(i - 1)
      OBVIOUS
    <2> HIDE DEF st
    <2>3. Max(1..i) = i
      BY <2>1, MaxIs
    <2> USE DEF st
    <2>2. it[1..i] = TakenBack(it[1..(i - 1)], seq[i])
      BY <1>4, <2>1, <2>3
    <2> QED
      BY <2>2
  <1>8. AllTakenBack(b, seq) = st[n]
    BY <1>5
  <1> HIDE DEF st
  <1> QED
    BY <1>6, <1>7, <1>8 DEF TakesBack

LEMMA SetToSeqIs ==
    ASSUME NEW S, IsFiniteSet(S)
    PROVE  LET n == Cardinality(S)
               q == SetToSeq(S)
           IN  /\ n \in Nat /\ DOMAIN q = 1..n /\ \A i \in 1..n : q[i] \in S
               /\ \A i, j \in 1..n : q[i] = q[j] => i = j
               /\ \A x \in S : \E i \in 1..n : q[i] = x
  <1>1. PICK n : n = Cardinality(S)
    OBVIOUS
  <1>2. n \in Nat /\ ExistsBijection(1..n, S)
    BY <1>1, FS_CardinalityType
  <1>3. \E f \in [1..n -> S] : IsInjective(f)
    BY <1>2 DEF ExistsBijection, Bijection, Injection
  <1>4. PICK q : q = SetToSeq(S)
    OBVIOUS
  <1>5. q \in [1..n -> S] /\ IsInjective(q)
    BY <1>1, <1>3, <1>4 DEF SetToSeq
  <1>6. q \in Injection(1..n, S)
    BY <1>5 DEF Injection
  <1>7. Cardinality(1..n) = n
    BY <1>2, FS_Interval
  <1>8. q \in Surjection(1..n, S)
    BY <1>1, <1>6, <1>7, FS_Injection
  <1> QED
    BY <1>1, <1>2, <1>4, <1>5, <1>8 DEF IsInjective, Surjection

(* Only an open transaction has undo records.                              *)
UndoOpen(ss) == \A s \in Sessions : ss[s].txn = 0 => IdsOf(ss[s].undo) = {}

LEMMA UndoAllIs ==
    ASSUME IInv, UndoOpen(sess), up, damage = {}, \A s \in Sessions : ~sess[s].unrecorded
    PROVE  TableOK(UndoAll) /\ AllCommitted(UndoAll, committed)
  <1>1. PICK open : open = {s \in Sessions : InTxn(s)}
    OBVIOUS
  <1>2. IsFiniteSet(open) /\ open \subseteq Sessions
    BY <1>1, EngineAssumption, FS_Subset
  <1>3. PICK n, q : n = Cardinality(open) /\ q = SetToSeq(open)
    OBVIOUS
  <1>4. /\ n \in Nat /\ DOMAIN q = 1..n /\ \A i \in 1..n : q[i] \in open
        /\ \A i, j \in 1..n : q[i] = q[j] => i = j
        /\ \A x \in open : \E i \in 1..n : q[i] = x
    BY <1>2, <1>3, SetToSeqIs
  <1>5. UndoAll = AllTakenBack(db.mem, q)
    BY <1>1, <1>3 DEF UndoAll, AllTakenBack
  <1>6. PICK st : /\ st[0] = db.mem
                  /\ \A i \in 1..n : st[i] = TakenBack(st[i - 1], q[i])
                  /\ AllTakenBack(db.mem, q) = st[n]
    <2>1. n \in Nat /\ DOMAIN q = 1..n
      BY <1>4
    <2>2. PICK b : b = db.mem
      OBVIOUS
    <2>3. PICK t : AllTakenBack(b, q) = t
      OBVIOUS
    <2>4. \E st : TakesBack(st, n, q, b, t)
      BY ONLY <2>1, <2>3, TakenBackStates
    <2> QED
      BY <2>2, <2>3, <2>4 DEF TakesBack
  <1>7. Sound(paged, damage) /\ NoDisk(damage)
    BY DEF Sound, NoDisk
  <1>8. /\ RestIs(db.mem, sess, committed)
        /\ \A s \in Sessions : UndoIs(db.mem, sess[s], committed)
    BY <1>7 DEF IInv, MemOf
  <1>9. /\ TableOK(db.mem)
        /\ \A s \in Sessions : UndoOK(sess[s].undo) /\ DOMAIN sess[s].pending \subseteq IdsOf(sess[s].undo)
    BY SessionTypes DEF IInv, TypeInv, DbType, Tidy
  <1>10. \A s, u \in Sessions : s # u => IdsOf(sess[s].undo) \cap IdsOf(sess[u].undo) = {}
    BY <1>7, Disjoint DEF TouchedBy
  <1> DEFINE Back(i, id) == \E j \in 1..i : id \in IdsOf(sess[q[j]].undo)
             P == {i \in 0..n : /\ TableOK(st[i])
                                /\ \A id \in Ids : Cell(st[i], id) =
                                      IF Back(i, id) THEN Com(committed, id) ELSE Cell(db.mem, id)}
  <1>11. 0 \in P
    BY <1>4, <1>6, <1>9
  <1>12. ASSUME NEW i \in 0..(n - 1), i \in P
         PROVE  i + 1 \in P
    <2>1. i + 1 \in 1..n /\ (i + 1) - 1 = i /\ i + 1 \in 0..n /\ i \in Nat
      BY <1>4
    <2>2. PICK s : s = q[i + 1]
      OBVIOUS
    <2>3. s \in Sessions /\ UndoOK(sess[s].undo)
      BY <1>2, <1>4, <1>9, <2>1, <2>2
    <2>4. PICK t : t = st[i]
      OBVIOUS
    <2>5. st[i + 1] = Rewound(t, sess[s].undo) /\ TableOK(t)
      BY <1>6, <1>12, <2>1, <2>2, <2>4 DEF TakenBack
    <2>6. TableOK(st[i + 1])
      BY <2>3, <2>5, RewoundOK
    <2>7. \A j \in 1..i : q[j] \in Sessions /\ q[j] # s
      BY <1>2, <1>4, <2>1, <2>2
    <2>8. ASSUME NEW id \in Ids
          PROVE  Cell(st[i + 1], id) =
                     IF Back(i + 1, id) THEN Com(committed, id) ELSE Cell(db.mem, id)
      <3>0. Cell(t, id) = IF Back(i, id) THEN Com(committed, id) ELSE Cell(db.mem, id)
        BY <1>12, <2>4
      <3>1. Back(i + 1, id) <=> Back(i, id) \/ id \in IdsOf(sess[s].undo)
        <4>1. \A j : j \in 1..(i + 1) <=> j \in 1..i \/ j = i + 1
          BY <2>1
        <4> QED
          BY <2>2, <4>1
      <3>2. CASE id \in IdsOf(sess[s].undo)
        <4>1. ~Back(i, id)
          BY <1>10, <2>3, <2>7, <3>2
        <4>2. UndoLands(sess[s].undo, id, Cell(db.mem, id), Com(committed, id))
          BY <1>8, <2>3, <3>2 DEF UndoIs
        <4>3. Cell(t, id) = Cell(db.mem, id)
          BY <3>0, <4>1
        <4>4. Cell(Rewound(t, sess[s].undo), id) = Com(committed, id)
          BY <2>3, <2>5, <4>2, <4>3, RewoundCell
        <4> QED
          BY <2>5, <3>1, <3>2, <4>4
      <3>3. CASE id \notin IdsOf(sess[s].undo)
        <4>1. Cell(Rewound(t, sess[s].undo), id) = Cell(t, id)
          BY <2>3, <2>5, <3>3, RewoundCell
        <4> QED
          BY <2>5, <3>0, <3>1, <3>3, <4>1
      <3> QED
        BY <3>2, <3>3
    <2> HIDE DEF Back
    <2> QED
      BY <2>1, <2>6, <2>8
  <1> HIDE DEF P
  <1>13. \A i \in 0..n : i \in P
    BY <1>4, <1>11, <1>12, IndexInduction
  <1>14. TableOK(st[n]) /\ \A id \in Ids : Cell(st[n], id) =
                              IF Back(n, id) THEN Com(committed, id) ELSE Cell(db.mem, id)
    BY <1>4, <1>13 DEF P
  <1>15. ASSUME NEW id \in Ids, ~Back(n, id)
         PROVE  Cell(db.mem, id) = Com(committed, id)
    <2>1. \A s \in open : id \notin IdsOf(sess[s].undo)
      BY <1>4, <1>15
    <2>2. \A s \in Sessions : s \notin open => IdsOf(sess[s].undo) = {}
      BY <1>1 DEF InTxn, UndoOpen
    <2>3. Free(sess, id)
      BY <1>9, <2>1, <2>2 DEF Free
    <2> QED
      BY <1>8, <2>3 DEF RestIs
  <1> HIDE DEF Back
  <1> QED
    BY <1>5, <1>6, <1>14, <1>15 DEF AllCommitted

LEMMA UndoOpenStep ==
    ASSUME TypeInv, StepKind, UndoOpen(sess)
    PROVE  UndoOpen(sess')
  <1> SUFFICES ASSUME NEW u \in Sessions, sess'[u].txn = 0
               PROVE  IdsOf(sess'[u].undo) = {}
    BY DEF UndoOpen
  <1>0. sess'[u] = NewSession => IdsOf(sess'[u].undo) = {}
    BY NewTidy
  <1>1. sess'[u].undo = sess[u].undo /\ sess'[u].txn = sess[u].txn => IdsOf(sess'[u].undo) = {}
    BY DEF UndoOpen
  <1>2. CASE Quiet
    BY <1>1, <1>2 DEF Quiet, SameWork
  <1>3. ASSUME NEW s \in Sessions, Begins(s) PROVE IdsOf(sess'[u].undo) = {}
    <2>1. IdsOf(<<>>) = {}
      BY DEF IdsOf
    <2>2. OthersSame(s) /\ sess'[s].undo = <<>>
      BY <1>3 DEF Begins
    <2> QED
      BY <1>1, <2>1, <2>2 DEF OthersSame
  <1>4. ASSUME NEW s \in Sessions, NEW id, Notes(s, id) PROVE IdsOf(sess'[u].undo) = {}
    BY <1>1, <1>4 DEF Notes, OthersSame, Recorded
  <1>5. ASSUME NEW s \in Sessions, NEW e, ChangesRow(s, e) PROVE IdsOf(sess'[u].undo) = {}
    BY <1>1, <1>5 DEF ChangesRow, OthersSame, Recorded
  <1>6. ASSUME NEW s \in Sessions, Commits(s) \/ RollsBack(s) \/ Leaves(s) PROVE IdsOf(sess'[u].undo) = {}
    BY <1>0, <1>1, <1>6 DEF Commits, RollsBack, Leaves, OthersSame
  <1>7. CASE SavesAll \/ Opens
    BY <1>1, <1>7 DEF SavesAll, Opens
  <1>8. CASE Stops
    BY <1>0, <1>8 DEF Stops
  <1> QED
    BY <1>2, <1>3, <1>4, <1>5, <1>6, <1>7, <1>8
    DEF StepKind, Appends, Saves, Strays, WritesRow, Dies, ShutsDown

(* The undo records of a row that the transaction has not written, of a    *)
(* paged table and a session whose writes are not in the file: unless      *)
(* there was interference, they put back the value that the row has.       *)
Settled(mem, b) ==
    \A id \in IdsOf(b.undo) \ DOMAIN b.pending :
        UndoLands(b.undo, id, Cell(mem, id), Cell(mem, id))

AllSettled(p, mem, ss, dirt, dam) ==
    p /\ "interference" \notin dam => \A s \in Sessions \ dirt : Settled(mem, ss[s])

LEMMA SettledSame ==
    ASSUME NEW b, NEW c, NEW mem, NEW mem2, Settled(mem, b), c.undo = b.undo, c.pending = b.pending,
           \A id \in IdsOf(b.undo) : Cell(mem2, id) = Cell(mem, id)
    PROVE  Settled(mem2, c)
  BY DEF Settled

LEMMA SettledMore ==
    ASSUME NEW b, NEW c, UndoOK(b.undo), NEW e, c.undo = Append(b.undo, e), NEW mem, NEW mem2,
           Settled(mem, b), DOMAIN b.pending \subseteq DOMAIN c.pending,
           \A id \in IdsOf(c.undo) \ DOMAIN c.pending :
              Cell(mem2, id) = Cell(mem, id) /\ EffCell(e, id, Cell(mem, id)) = Cell(mem, id)
    PROVE  Settled(mem2, c)
  <1> SUFFICES ASSUME NEW id \in IdsOf(c.undo) \ DOMAIN c.pending
               PROVE  UndoLands(c.undo, id, Cell(mem2, id), Cell(mem2, id))
    BY DEF Settled
  <1>1. PICK v : v = Cell(mem, id)
    OBVIOUS
  <1>2. Cell(mem2, id) = v /\ EffCell(e, id, v) = v
    BY <1>1
  <1>3. UndoLands(b.undo, id, v, v)
    <2>1. CASE id \in IdsOf(b.undo)
      BY <1>1, <2>1 DEF Settled
    <2>2. CASE id \notin IdsOf(b.undo)
      BY <2>2, UndoLandsNone
    <2> QED
      BY <2>1, <2>2
  <1>4. UndoLands(Append(b.undo, e), id, v, v)
    BY <1>2, <1>3, UndoLandsMore
  <1> QED
    BY <1>2, <1>4

LEMMA SettledNew == \A mem : Settled(mem, NewSession)
  BY NewTidy DEF Settled

LEMMA SettledNotes ==
    ASSUME IInv, NEW s \in Sessions, NEW id, Notes(s, id), "interference" \notin damage',
           Settled(db.mem, sess[s])
    PROVE  Settled(db.mem, sess'[s])
  <1>1. PICK kind \in {"Update", "Delete"} :
           /\ Recorded(s, kind, id, sess[s].scan[id])
           /\ kind = "Delete" => id \notin DOMAIN db.mem.rows
    BY DEF Notes
  <1>2. Clear(s, id) /\ sess'[s].pending = sess[s].pending
    BY ClearIs DEF Notes
  <1>3. id \in DOMAIN db.mem.rows /\ db.mem.rows[id] = sess[s].scan[id] /\ kind = "Update"
    BY <1>1, <1>2 DEF Clear
  <1>4. PICK e : e = UndoOf(kind, id, sess[s].scan[id])
    OBVIOUS
  <1>5. e.kind = "Update" /\ e.id = id /\ e.row = db.mem.rows[id]
    BY <1>3, <1>4 DEF UndoOf
  <1>6. \A i : EffCell(e, i, Cell(db.mem, i)) = Cell(db.mem, i)
    BY <1>3, <1>5 DEF EffCell, CellStep, Cell
  <1>7. UndoOK(sess[s].undo)
    BY SessionTypes
  <1>8. CASE Lost(s)
    BY <1>2, <1>8, SettledSame DEF Lost
  <1>9. CASE ~Lost(s)
    <2>1. sess'[s].undo = Append(sess[s].undo, e)
      BY <1>1, <1>4, <1>9 DEF Recorded
    <2>2. PICK b, c : b = sess[s] /\ c = sess'[s]
      OBVIOUS
    <2>3. /\ Settled(db.mem, b) /\ UndoOK(b.undo) /\ c.undo = Append(b.undo, e)
          /\ c.pending = b.pending
      BY <1>2, <1>7, <2>1, <2>2
    <2>4. PICK mem, mem2 : mem = db.mem /\ mem2 = mem
      OBVIOUS
    <2>5. /\ Settled(mem, b) /\ DOMAIN b.pending \subseteq DOMAIN c.pending
          /\ \A i \in IdsOf(c.undo) \ DOMAIN c.pending :
                Cell(mem2, i) = Cell(mem, i) /\ EffCell(e, i, Cell(mem, i)) = Cell(mem, i)
      BY <1>6, <2>3, <2>4
    <2>6. Settled(mem2, c)
      BY ONLY <2>3, <2>5, SettledMore
    <2> QED
      BY <2>2, <2>4, <2>6
  <1> QED
    BY <1>8, <1>9

LEMMA SettledStep ==
    ASSUME IInv, StepKind, AllSettled(paged, db.mem, sess, dirty, damage)
    PROVE  AllSettled(paged, db'.mem, sess', dirty', damage')
  <1> SUFFICES ASSUME paged, "interference" \notin damage', NEW u \in Sessions \ dirty'
               PROVE  Settled(db'.mem, sess'[u])
    BY DEF AllSettled
  <1> DEFINE Goal == Settled(db'.mem, sess'[u])
  <1> SUFFICES Goal
    OBVIOUS
  <1>0. "interference" \notin damage => \A s \in Sessions \ dirty : Settled(db.mem, sess[s])
    BY DEF AllSettled
  <1>1. ASSUME "interference" \notin damage, u \notin dirty, sess'[u].undo = sess[u].undo,
               sess'[u].pending = sess[u].pending,
               \A id \in IdsOf(sess[u].undo) : Cell(db'.mem, id) = Cell(db.mem, id)
        PROVE  Goal
    BY <1>0, <1>1 DEF Settled
  <1>2. sess'[u] = NewSession => Goal
    BY SettledNew
  <1>3. IdsOf(sess[u].undo) \subseteq Ids
    BY SessionTypes
  <1>4. CASE Quiet
    <2>1. UNCHANGED <<db, dirty, damage>> /\ SameWork(sess'[u], sess[u])
      BY <1>4 DEF Quiet
    <2> QED
      BY <1>1, <2>1 DEF SameWork
  <1>5. ASSUME NEW s \in Sessions, Begins(s) PROVE Goal
    <2>1. /\ db'.mem = db.mem /\ damage \subseteq damage' /\ OthersSame(s) /\ sess'[s].undo = <<>>
          /\ dirty' = dirty
      BY <1>5 DEF Begins
    <2>2. CASE u = s
      BY <2>1, <2>2 DEF Settled, IdsOf
    <2>3. CASE u # s
      BY <1>1, <2>1, <2>3 DEF OthersSame
    <2> QED
      BY <2>2, <2>3
  <1>6. ASSUME NEW s \in Sessions, NEW id, Notes(s, id) PROVE Goal
    <2>1. db'.mem = db.mem /\ "interference" \notin damage /\ OthersSame(s) /\ dirty' = dirty
      BY <1>6 DEF Notes
    <2>2. CASE u = s
      BY <1>0, <1>6, <2>1, <2>2, SettledNotes
    <2>3. CASE u # s
      BY <1>1, <2>1, <2>3 DEF OthersSame
    <2> QED
      BY <2>2, <2>3
  <1>7. ASSUME NEW s \in Sessions, NEW e, Appends(s, e) \/ Saves(s, e) \/ Strays(s, e) PROVE Goal
    <2>1. /\ ChangesRow(s, e) /\ damage \cup Harm(s, e) \subseteq damage'
          /\ dirty' = dirty \cup {s}
      BY <1>7 DEF Appends, Saves, Strays, WritesRow
    <2>2. OthersSame(s) /\ \A i \in Ids : i # e.id => Cell(db'.mem, i) = Cell(db.mem, i)
      BY <2>1 DEF ChangesRow
    <2>4. u # s /\ u \notin dirty
      BY <2>1
    <2>5. "interference" \notin damage
      BY <2>1
    <2> QED
      <3>1. e.id \notin TouchedBy(sess[u])
        BY <2>1, <2>4, WriteClear DEF IInv
      <3>2. \A id \in IdsOf(sess[u].undo) : Cell(db'.mem, id) = Cell(db.mem, id)
        BY <1>3, <2>2, <3>1 DEF TouchedBy
      <3> QED
        BY <1>1, <2>2, <2>4, <2>5, <3>2 DEF OthersSame
  <1>8. ASSUME NEW s \in Sessions, RollsBack(s) PROVE Goal
    <2>1. /\ db'.mem = Rewound(db.mem, sess[s].undo) /\ damage \subseteq damage'
          /\ OthersSame(s) /\ sess'[s] = NewSession /\ dirty' = dirty \ {s}
      BY <1>8 DEF RollsBack
    <2>2. CASE u = s
      BY <1>2, <2>1, <2>2
    <2>3. CASE u # s
      <3>1. IdsOf(sess[u].undo) \cap IdsOf(sess[s].undo) = {}
        BY <2>1, <2>3 DEF IInv, Apart, TouchedBy
      <3>2. TableOK(db.mem) /\ UndoOK(sess[s].undo)
        BY SessionTypes DEF IInv, TypeInv, DbType
      <3>3. \A id \in Ids : id \notin IdsOf(sess[s].undo) => Cell(db'.mem, id) = Cell(db.mem, id)
        BY <2>1, <3>2, RewoundCell
      <3> QED
        BY <1>1, <1>3, <2>1, <2>3, <3>1, <3>3 DEF OthersSame
    <2> QED
      BY <2>2, <2>3
  <1>9. ASSUME NEW s \in Sessions, Commits(s) \/ Leaves(s) PROVE Goal
    <2>1. /\ db'.mem = db.mem /\ damage \subseteq damage' /\ OthersSame(s) /\ sess'[s] = NewSession
          /\ dirty' = dirty \ {s}
      BY <1>9 DEF Commits, Leaves
    <2> QED
      BY <1>1, <1>2, <2>1 DEF OthersSame
  <1>10. CASE SavesAll
    BY <1>1, <1>10 DEF SavesAll
  <1>11. CASE Stops
    BY <1>2, <1>11 DEF Stops
  <1>12. CASE Opens
    <2>1. sess'[u] = NewSession
      BY <1>12, NoSession DEF Opens, IInv
    <2> QED
      BY <1>2, <2>1
  <1> HIDE DEF Goal
  <1> QED
    BY <1>4, <1>5, <1>6, <1>7, <1>8, <1>9, <1>10, <1>11, <1>12 DEF StepKind, Dies, ShutsDown

(* What the undo lists are good for, in every reachable state.             *)
UndoInv == UndoOpen(sess) /\ AllSettled(paged, db.mem, sess, dirty, damage)

LEMMA UndoInvariant == Spec => []UndoInv
  <1>1. Init => UndoInv
    <2> SUFFICES ASSUME Init
                 PROVE  UndoInv
      OBVIOUS
    <2>1. \A s \in Sessions : sess[s] = NewSession
      BY DEF Init
    <2> QED
      BY <2>1, NewTidy, SettledNew DEF UndoInv, UndoOpen, AllSettled
  <1>2. ASSUME IInv, UndoInv, [Next]_vars
        PROVE  UndoInv'
    <2>1. StepKind /\ TypeInv /\ paged' = paged
      BY <1>2, StepIs DEF IInv
    <2>2. UndoOpen(sess') /\ AllSettled(paged', db'.mem, sess', dirty', damage')
      BY <1>2, <2>1, UndoOpenStep, SettledStep DEF UndoInv
    <2>3. UndoOpen(sess)' <=> UndoOpen(sess')
      BY DEF UndoOpen, IdsOf
    <2>4. AllSettled(paged, db.mem, sess, dirty, damage)'
             <=> AllSettled(paged', db'.mem, sess', dirty', damage')
      BY DEF AllSettled, Settled, IdsOf, UndoLands, Lands, IsRun, EffCell, CellStep, Cell, Reverse
    <2> QED
      BY <2>2, <2>3, <2>4 DEF UndoInv
  <1> QED
    BY <1>1, <1>2, Invariant, PTL DEF Spec

(* Rollback: while nothing has gone wrong, the undo lists of the open      *)
(* transactions, applied by Transaction::rollback one after the other,     *)
(* take the table back to the committed rows, however their statements     *)
(* have interleaved and wherever they have failed.  The exceptions are     *)
(* those of RollbackRestores: an open transaction with a row that has no   *)
(* undo record, as the row of an INSERT that returns between storage.      *)
(* insert and record_undo, and a write that the log did not take.          *)
THEOREM RollbacksRestore == Spec => []RollbackRestores
  <1>1. ASSUME IInv, UndoInv
        PROVE  RollbackRestores
    <2> SUFFICES ASSUME up, damage = {}, \A s \in Sessions : ~sess[s].unrecorded
                 PROVE  Values(UndoAll) = committed
      BY DEF RollbackRestores
    <2>1. TableOK(UndoAll) /\ AllCommitted(UndoAll, committed)
      BY <1>1, UndoAllIs DEF UndoInv
    <2>2. CommittedOK(committed)
      BY <1>1 DEF IInv, TypeInv
    <2> QED
      BY <2>1, <2>2, CommittedValues
  <1> QED
    BY <1>1, Invariant, UndoInvariant, PTL

-----------------------------------------------------------------------------
(* What recovery would produce, from one state to the next.                *)

(* Two runs of a cell through the same list end in the same value.         *)
LEMMA RunsAgree ==
    ASSUME NEW n \in Nat, NEW seq, NEW id, NEW f, NEW g, IsRun(n, seq, id, f), IsRun(n, seq, id, g),
           f[0] = g[0]
    PROVE  f[n] = g[n]
  <1> DEFINE P == {i \in 0..n : f[i] = g[i]}
  <1>1. 0 \in P
    OBVIOUS
  <1>2. ASSUME NEW i \in 0..(n - 1), i \in P
        PROVE  i + 1 \in P
    <2>1. i + 1 \in 1..n /\ (i + 1) - 1 = i
      OBVIOUS
    <2>2. f[i + 1] = EffCell(seq[i + 1], id, f[i]) /\ g[i + 1] = EffCell(seq[i + 1], id, g[i])
      BY <2>1 DEF IsRun
    <2> QED
      BY <1>2, <2>1, <2>2
  <1> HIDE DEF P
  <1>3. \A i \in 0..n : i \in P
    BY <1>1, <1>2, IndexInduction
  <1> QED
    BY <1>3 DEF P

(* Replay as a fold over every cell, whatever of the log is hidden.        *)
LEMMA RecoveredRuns ==
    ASSUME NEW d, WalOK(d.wal), TableOK(d.dat)
    PROVE  /\ TableOK(Recovered(d))
           /\ \A i \in 1..Len(d.wal) : EffectOK(Kept(d)[i])
           /\ \A id \in Ids : \A S : Lands(Len(d.wal), Kept(d), id, {Cell(d.dat, id)}, S)
                                        => Cell(Recovered(d), id) \in S
           /\ \A id \in Ids : Lands(Len(d.wal), Kept(d), id, {Cell(d.dat, id)}, {Cell(Recovered(d), id)})
  <1>1. PICK n, k, b : n = Len(d.wal) /\ k = Kept(d) /\ b = d.dat
    OBVIOUS
  <1>2. n \in Nat /\ DOMAIN d.wal = 1..n /\ DOMAIN k = 1..n
    BY <1>1 DEF WalOK, Kept
  <1>3. \A i \in 1..n : EffectOK(k[i])
    BY <1>1, <1>2, ControlOK DEF WalOK, Kept
  <1>4. Recovered(d) = ApplyAll(b, k)
    BY <1>1 DEF Recovered, ApplyAll
  <1>5. /\ TableOK(ApplyAll(b, k))
        /\ \A id \in Ids : \A S : Lands(n, k, id, {Cell(b, id)}, S) => Cell(ApplyAll(b, k), id) \in S
    BY <1>1, <1>2, <1>3, ApplyAllOK
  <1>6. ASSUME NEW id \in Ids
        PROVE  Lands(n, k, id, {Cell(b, id)}, {Cell(ApplyAll(b, k), id)})
    <2> SUFFICES ASSUME NEW f, IsRun(n, k, id, f), f[0] = Cell(b, id)
                 PROVE  f[n] = Cell(ApplyAll(b, k), id)
      BY DEF Lands
    <2>1. ASSUME NEW g, IsRun(n, k, id, g), g[0] = Cell(b, id)
          PROVE  g[n] = f[n]
      BY <1>2, <2>1, RunsAgree
    <2>2. Lands(n, k, id, {Cell(b, id)}, {f[n]})
      BY <2>1 DEF Lands
    <2>3. Cell(ApplyAll(b, k), id) \in {f[n]}
      BY <1>5, <2>2
    <2> QED
      BY <2>3
  <1> QED
    BY <1>1, <1>3, <1>4, <1>5, <1>6

(* What a list of effects makes of a cell: always the same, or 0 of 0 and  *)
(* always the same of the others, or nothing.                              *)
LEMMA LandsKind ==
    ASSUME NEW n \in Nat, NEW seq, \A i \in 1..n : EffectOK(seq[i]), NEW id \in Ids
    PROVE  \/ \E c : Lands(n, seq, id, Nat, {c})
           \/ Lands(n, seq, id, {0}, {0}) /\ \E v \in Pos : Lands(n, seq, id, Pos, {v})
           \/ \A b : Lands(n, seq, id, {b}, {b})
  <1> DEFINE Fixed(m) == \E c : Lands(m, seq, id, Nat, {c})
             Changed(m) == Lands(m, seq, id, {0}, {0}) /\ \E v \in Pos : Lands(m, seq, id, Pos, {v})
             Left(m) == \A b : Lands(m, seq, id, {b}, {b})
             P == {m \in 0..n : Fixed(m) \/ Changed(m) \/ Left(m)}
  <1>1. 0 \in P
    <2>1. Left(0)
      BY LandsEmpty
    <2>2. 0 \in 0..n
      OBVIOUS
    <2> HIDE DEF Fixed, Changed, Left
    <2> QED
      BY <2>1, <2>2
  <1>2. ASSUME NEW m \in 0..(n - 1), m \in P
        PROVE  m + 1 \in P
    <2>1. m \in Nat /\ m + 1 \in 1..n /\ m + 1 \in 0..n /\ EffectOK(seq[m + 1])
      OBVIOUS
    <2>2. PICK e : e = seq[m + 1]
      OBVIOUS
    <2>3. ASSUME NEW B, NEW S, NEW T, Lands(m, seq, id, B, S), \A c \in S : c \in Nat => EffCell(e, id, c) \in T
          PROVE  Lands(m + 1, seq, id, B, T)
      BY <2>1, <2>2, <2>3, LandsMore
    <2>4. Lands(m, seq, id, Nat, Nat)
      BY <2>1 DEF Lands, IsRun
    <2>5. CASE \A c \in Nat : EffCell(e, id, c) = c
      <3>1. ASSUME NEW B, NEW S, Lands(m, seq, id, B, S)
            PROVE  Lands(m + 1, seq, id, B, S)
        BY <2>3, <2>5, <3>1
      <3>2. Fixed(m) => Fixed(m + 1)
        BY <3>1
      <3>3. Changed(m) => Changed(m + 1)
        BY <3>1
      <3>4. Left(m) => Left(m + 1)
        BY <3>1
      <3> QED
        BY <1>2, <2>1, <3>2, <3>3, <3>4
    <2>6. CASE \E v : \A c \in Nat : EffCell(e, id, c) = v
      <3>1. PICK v : \A c \in Nat : EffCell(e, id, c) = v
        BY <2>6
      <3>2. Lands(m + 1, seq, id, Nat, {v})
        BY <2>3, <2>4, <3>1
      <3>3. Fixed(m + 1)
        BY <3>2
      <3> QED
        BY <2>1, <3>3
    <2>7. CASE \E v \in Pos : \A c \in Nat : EffCell(e, id, c) = IF c = 0 THEN 0 ELSE v
      <3>1. PICK v \in Pos : \A c \in Nat : EffCell(e, id, c) = IF c = 0 THEN 0 ELSE v
        BY <2>7
      <3>2. ASSUME Fixed(m) PROVE Fixed(m + 1)
        <4>1. PICK c : Lands(m, seq, id, Nat, {c})
          BY <3>2
        <4>2. PICK w : w = IF c = 0 THEN 0 ELSE v
          OBVIOUS
        <4>3. Lands(m + 1, seq, id, Nat, {w})
          BY <2>3, <3>1, <4>1, <4>2
        <4> QED
          BY <4>3
      <3>3. ASSUME Lands(m, seq, id, {0}, {0}), Lands(m, seq, id, Pos, Pos)
            PROVE  Changed(m + 1)
        <4>1. Lands(m + 1, seq, id, {0}, {0})
          BY <2>3, <3>1, <3>3
        <4>2. \A c \in Pos : c \in Nat => EffCell(e, id, c) \in {v}
          BY <3>1 DEF Pos
        <4>3. Lands(m + 1, seq, id, Pos, {v})
          BY <2>3, <3>3, <4>2
        <4> QED
          BY <4>1, <4>3
      <3>4. Changed(m) => Lands(m, seq, id, {0}, {0}) /\ Lands(m, seq, id, Pos, Pos)
        BY DEF Lands
      <3>5. Left(m) => Lands(m, seq, id, {0}, {0}) /\ Lands(m, seq, id, Pos, Pos)
        BY DEF Lands
      <3> HIDE DEF Fixed, Changed, Left
      <3> QED
        BY <1>2, <2>1, <3>2, <3>3, <3>4, <3>5
    <2>8. \/ \A c \in Nat : EffCell(e, id, c) = c
          \/ \E v : \A c \in Nat : EffCell(e, id, c) = v
          \/ \E v \in Pos : \A c \in Nat : EffCell(e, id, c) = IF c = 0 THEN 0 ELSE v
      <3>1. CASE e.id # id \/ e.kind \notin DataKinds
        BY <2>1, <2>2, <3>1 DEF EffCell, EffectOK, Ids
      <3>2. CASE e.id = id /\ e.kind = "Insert"
        BY <3>2 DEF EffCell, CellStep
      <3>3. CASE e.id = id /\ e.kind = "Delete"
        BY <3>3 DEF EffCell, CellStep
      <3>4. CASE e.id = id /\ e.kind = "Update"
        <4>1. e.row.val \in Pos
          BY <2>1, <2>2, <3>4, EngineAssumption DEF EffectOK, RowType, Pos
        <4>2. \A c \in Nat : EffCell(e, id, c) = IF c = 0 THEN 0 ELSE e.row.val
          BY <3>4 DEF EffCell, CellStep
        <4> QED
          BY <4>1, <4>2
      <3> QED
        BY <3>1, <3>2, <3>3, <3>4 DEF DataKinds
    <2> QED
      BY <2>5, <2>6, <2>7, <2>8
  <1> HIDE DEF P
  <1>3. \A i \in 0..n : i \in P
    BY <1>1, <1>2, IndexInduction
  <1>4. n \in P
    BY <1>3
  <1>5. Fixed(n) \/ Changed(n) \/ Left(n)
    BY <1>4 DEF P
  <1> QED
    BY <1>5

(* Replay of what it has made changes nothing.                             *)
LEMMA ReplayTwice ==
    ASSUME NEW d, WalOK(d.wal), TableOK(d.dat), NEW id \in Ids
    PROVE  Lands(Len(d.wal), Kept(d), id, {Cell(Recovered(d), id)}, {Cell(Recovered(d), id)})
  <1>1. PICK n, k, b, x : n = Len(d.wal) /\ k = Kept(d) /\ b = Cell(d.dat, id) /\ x = Cell(Recovered(d), id)
    OBVIOUS
  <1>2. n \in Nat /\ (\A i \in 1..n : EffectOK(k[i])) /\ b \in Nat /\ x \in Nat
    BY <1>1, RecoveredRuns, CellType DEF WalOK
  <1>3. \A S : Lands(n, k, id, {b}, S) => x \in S
    BY <1>1, RecoveredRuns
  <1>4. CASE \E c : Lands(n, k, id, Nat, {c})
    <2>1. PICK c : Lands(n, k, id, Nat, {c})
      BY <1>4
    <2>2. Lands(n, k, id, {b}, {c}) /\ Lands(n, k, id, {x}, {c})
      BY <1>2, <2>1 DEF Lands
    <2>3. x = c
      BY <1>3, <2>2
    <2> QED
      BY <1>1, <2>2, <2>3
  <1>5. CASE Lands(n, k, id, {0}, {0}) /\ \E v \in Pos : Lands(n, k, id, Pos, {v})
    <2>1. PICK v \in Pos : Lands(n, k, id, Pos, {v})
      BY <1>5
    <2>2. Lands(n, k, id, {v}, {v})
      BY <2>1 DEF Lands
    <2>3. CASE b = 0
      <3>1. x = 0
        BY <1>3, <1>5, <2>3
      <3> QED
        BY <1>1, <1>5, <3>1
    <2>4. CASE b # 0
      <3>1. Lands(n, k, id, {b}, {v})
        BY <1>2, <2>1, <2>4 DEF Lands, Pos
      <3>2. x = v
        BY <1>3, <3>1
      <3> QED
        BY <1>1, <2>2, <3>2
    <2> QED
      BY <2>3, <2>4
  <1>6. CASE \A c : Lands(n, k, id, {c}, {c})
    BY <1>1, <1>6
  <1> QED
    BY <1>2, <1>4, <1>5, <1>6, LandsKind

LEMMA KeptCong ==
    ASSUME NEW d, NEW f, f.wal = d.wal, f.ckpt = d.ckpt
    PROVE  Kept(f) = Kept(d)
  BY WinnersCong DEF Kept

(* Two databases recover the same cells.                                   *)
RecoversTo(d, f) == \A id \in Ids : Cell(Recovered(f), id) = Cell(Recovered(d), id)

(* Another file in which the cells are the same, or already recovered.     *)
KeepsLog(d, f) ==
    /\ WalOK(d.wal) /\ TableOK(d.dat) /\ TableOK(f.dat) /\ f.wal = d.wal /\ f.ckpt = d.ckpt
    /\ \A id \in Ids : Cell(f.dat, id) = Cell(d.dat, id) \/ Cell(f.dat, id) = Cell(Recovered(d), id)

LEMMA RecoversSame ==
    ASSUME NEW d, NEW f, KeepsLog(d, f)
    PROVE  RecoversTo(d, f)
  <1> SUFFICES ASSUME NEW id \in Ids
               PROVE  Cell(Recovered(f), id) = Cell(Recovered(d), id)
    BY DEF RecoversTo
  <1>0. /\ WalOK(d.wal) /\ TableOK(d.dat) /\ TableOK(f.dat) /\ f.wal = d.wal /\ f.ckpt = d.ckpt
        /\ Cell(f.dat, id) = Cell(d.dat, id) \/ Cell(f.dat, id) = Cell(Recovered(d), id)
    BY DEF KeepsLog
  <1> USE <1>0
  <1>1. PICK n, k, x : n = Len(d.wal) /\ k = Kept(d) /\ x = Cell(Recovered(d), id)
    OBVIOUS
  <1>2. Kept(f) = k /\ Len(f.wal) = n
    BY <1>1, KeptCong
  <1>3. Lands(n, k, id, {Cell(d.dat, id)}, {x}) /\ Lands(n, k, id, {x}, {x})
    BY <1>1, RecoveredRuns, ReplayTwice
  <1>4. Lands(n, k, id, {Cell(f.dat, id)}, {x})
    BY <1>1, <1>3
  <1>5. WalOK(f.wal)
    OBVIOUS
  <1>6. Cell(Recovered(f), id) \in {x}
    BY <1>2, <1>4, <1>5, RecoveredRuns
  <1> QED
    BY <1>1, <1>6

(* A record that decides nothing, of a transaction that has not committed  *)
(* or of no row, leaves the transactions that replay keeps.                *)
LEMMA WinnersStay ==
    ASSUME NEW d, WalOK(d.wal), NEW r, NEW f, WalOK(f.wal), f.wal = Append(d.wal, r),
           f.ckpt = d.ckpt, d.ckpt \in Nat, r.op.kind # "Commit",
           r.op.kind = "Abort" => r.txn \notin Winners(d)
    PROVE  Winners(f) = Winners(d)
  <1>1. PICK n : n = Len(d.wal)
    OBVIOUS
  <1>2. n \in Nat /\ Len(f.wal) = n + 1 /\ DOMAIN d.wal = 1..n /\ DOMAIN f.wal = 1..(n + 1)
    BY <1>1 DEF WalOK
  <1>3. f.wal[n + 1] = r /\ \A i \in 1..n : f.wal[i] = d.wal[i]
    BY <1>1 DEF WalOK
  <1>4. \A i \in 1..(n + 1) : i \in 1..n \/ i = n + 1
    BY <1>2
  <1>5. \A i \in 1..n : i \in 1..(n + 1)
    BY <1>2
  <1>6. Seen(d) \subseteq 1..n /\ Seen(f) \subseteq 1..(n + 1) /\ \A i \in 1..n : i \in Seen(f) <=> i \in Seen(d)
    BY <1>2, <1>3, <1>5 DEF Seen
  <1> SUFFICES ASSUME NEW txn
               PROVE  txn \in Winners(f) <=> txn \in Winners(d)
    OBVIOUS
  <1>7. /\ Ends(d, txn) \in SUBSET (1..n) /\ Ends(f, txn) \in SUBSET (1..(n + 1))
        /\ \A i \in 1..n : i \in Ends(f, txn) <=> i \in Ends(d, txn)
    BY <1>3, <1>6 DEF Ends
  <1>8. CASE n + 1 \in Ends(f, txn)
    <2>1. r.txn = txn /\ r.op.kind = "Abort"
      <3>1. f.wal[n + 1].txn = txn /\ f.wal[n + 1].op.kind \in {"Commit", "Abort"}
        BY <1>8 DEF Ends
      <3> QED
        BY <1>3, <3>1
    <2>2. Max(Ends(f, txn)) = n + 1
      BY <1>2, <1>7, <1>8, MaxIs
    <2>3. txn \notin Winners(f)
      BY <1>3, <2>1, <2>2, WinnerIs
    <2> QED
      BY <2>1, <2>3
  <1>9. CASE n + 1 \notin Ends(f, txn)
    <2>1. Ends(f, txn) = Ends(d, txn)
      BY <1>4, <1>7, <1>9
    <2>2. ASSUME Ends(d, txn) # {}
          PROVE  f.wal[Max(Ends(d, txn))] = d.wal[Max(Ends(d, txn))]
      <3>1. Max(Ends(d, txn)) \in Ends(d, txn)
        BY <1>2, <1>7, <2>2, MaxIn
      <3> QED
        BY <1>3, <1>7, <3>1
    <2>3. txn \in Winners(d) <=> Ends(d, txn) # {} /\ d.wal[Max(Ends(d, txn))].op.kind = "Commit"
      BY WinnerIs
    <2>4. txn \in Winners(f) <=> Ends(f, txn) # {} /\ f.wal[Max(Ends(f, txn))].op.kind = "Commit"
      BY WinnerIs
    <2> QED
      BY <2>1, <2>2, <2>3, <2>4
  <1> QED
    BY <1>8, <1>9

(* Such a record at the end of the log, and a file with the same cells.    *)
AppendsOnly(d, r, f) ==
    /\ WalOK(d.wal) /\ TableOK(d.dat) /\ d.ckpt \in Nat /\ WalOK(f.wal) /\ TableOK(f.dat)
    /\ f.wal = Append(d.wal, r) /\ f.ckpt = d.ckpt
    /\ r.op.kind # "Commit" /\ (r.op.kind = "Abort" => r.txn \notin Winners(d))
    /\ r.txn \notin Winners(d) \/ \A id \in Ids : \A c : EffCell(r.op, id, c) = c
    /\ \A id \in Ids : Cell(f.dat, id) = Cell(d.dat, id)

LEMMA RecoversAppend ==
    ASSUME NEW d, NEW r, NEW f, AppendsOnly(d, r, f)
    PROVE  RecoversTo(d, f)
  <1> SUFFICES ASSUME NEW id \in Ids
               PROVE  Cell(Recovered(f), id) = Cell(Recovered(d), id)
    BY DEF RecoversTo
  <1>0. /\ WalOK(d.wal) /\ TableOK(d.dat) /\ d.ckpt \in Nat /\ WalOK(f.wal) /\ TableOK(f.dat)
        /\ f.wal = Append(d.wal, r) /\ f.ckpt = d.ckpt
        /\ r.op.kind # "Commit" /\ (r.op.kind = "Abort" => r.txn \notin Winners(d))
        /\ r.txn \notin Winners(d) \/ \A c : EffCell(r.op, id, c) = c
        /\ Cell(f.dat, id) = Cell(d.dat, id)
    BY DEF AppendsOnly
  <1> USE <1>0
  <1>1. PICK n, k, m, b, x : /\ n = Len(d.wal) /\ k = Kept(d) /\ m = Kept(f)
                             /\ b = Cell(d.dat, id) /\ x = Cell(Recovered(d), id)
    OBVIOUS
  <1>2. n \in Nat /\ Len(f.wal) = n + 1 /\ DOMAIN d.wal = 1..n /\ DOMAIN f.wal = 1..(n + 1)
    BY <1>1 DEF WalOK
  <1>3. f.wal[n + 1] = r /\ \A i \in 1..n : f.wal[i] = d.wal[i]
    BY <1>1 DEF WalOK
  <1>4. Winners(f) = Winners(d)
    BY WinnersStay
  <1>5. \A i \in 1..n : i \in 1..(n + 1)
    BY <1>2
  <1>6. \A i \in 1..n : m[i] = k[i]
    BY <1>1, <1>2, <1>3, <1>4, <1>5 DEF Kept
  <1>7. \A c : EffCell(m[n + 1], id, c) = c
    <2>1. m[n + 1] = Control("Begin") \/ (m[n + 1] = r.op /\ r.txn \in Winners(d))
      BY <1>1, <1>2, <1>3, <1>4 DEF Kept
    <2> QED
      BY <2>1, ControlCell
  <1>8. Lands(n, k, id, {b}, {x})
    BY <1>1, RecoveredRuns
  <1>9. Lands(n + 1, m, id, {b}, {x})
    BY <1>2, <1>6, <1>7, <1>8, LandsMore
  <1>10. Cell(Recovered(f), id) \in {x}
    BY <1>1, <1>2, <1>9, RecoveredRuns
  <1> QED
    BY <1>1, <1>10

LEMMA SameValues ==
    ASSUME NEW t, NEW u, TableOK(t), TableOK(u), \A id \in Ids : Cell(u, id) = Cell(t, id)
    PROVE  Values(u) = Values(t)
  <1>1. DOMAIN t.rows \subseteq Ids /\ DOMAIN u.rows \subseteq Ids
    BY DEF TableOK, Ids
  <1>2. \A id \in Ids : (id \in DOMAIN t.rows => Cell(t, id) # 0) /\ (id \in DOMAIN u.rows => Cell(u, id) # 0)
    BY EngineAssumption DEF TableOK, RowType, Cell
  <1>3. \A id \in Ids : id \in DOMAIN t.rows <=> id \in DOMAIN u.rows
    BY <1>2 DEF Cell
  <1>4. DOMAIN t.rows = DOMAIN u.rows
    BY <1>1, <1>3
  <1>5. \A id \in DOMAIN t.rows : u.rows[id].val = t.rows[id].val
    BY <1>1, <1>4 DEF Cell
  <1> QED
    BY <1>4, <1>5 DEF Values

(* An open transaction has no Commit record, unless an id was reused.      *)
LEMMA OpenUndecided ==
    ASSUME IInv, "txnReuse" \notin damage, NEW s \in Sessions, sess[s].txn # 0
    PROVE  sess[s].txn \notin Winners(db)
  <1>1. OpenRecords(db.wal, sess[s])
    BY DEF IInv, RecordsOwn
  <1>2. Ends(db, sess[s].txn) = {}
    BY <1>1 DEF Ends, Seen, OpenRecords, OwnRecord
  <1> QED
    BY <1>2, WinnerIs

(* A record of an open transaction that is not its Commit.                 *)
LEMMA LogsKeeps ==
    ASSUME IInv, TypeInv', NEW txn, NEW op, Logs(txn, op), op.kind # "Commit",
           \A id \in Ids : Cell(db'.dat, id) = Cell(db.dat, id),
           \/ txn \notin Winners(db)
           \/ op = Control("Begin")
    PROVE  RecoversTo(db, db')
  <1>1. PICK d, f, r : d = db /\ f = db' /\ r = [lsn |-> db.lsn + 1, txn |-> txn, op |-> op]
    OBVIOUS
  <1>2. /\ WalOK(d.wal) /\ TableOK(d.dat) /\ d.ckpt \in Nat /\ WalOK(f.wal) /\ TableOK(f.dat)
    BY <1>1 DEF IInv, TypeInv, DbType
  <1>3. f.wal = Append(d.wal, r) /\ f.ckpt = d.ckpt /\ r.txn = txn /\ r.op = op
    BY <1>1 DEF Logs
  <1>4. op = Control("Begin") => op.kind # "Abort" /\ \A id \in Ids : \A c : EffCell(op, id, c) = c
    BY ControlCell DEF Control
  <1>5. /\ r.op.kind # "Commit" /\ (r.op.kind = "Abort" => r.txn \notin Winners(d))
        /\ r.txn \notin Winners(d) \/ \A id \in Ids : \A c : EffCell(r.op, id, c) = c
    BY <1>1, <1>3, <1>4
  <1>6. \A id \in Ids : Cell(f.dat, id) = Cell(d.dat, id)
    BY <1>1
  <1>7. AppendsOnly(d, r, f)
    BY <1>2, <1>3, <1>5, <1>6 DEF AppendsOnly
  <1> QED
    BY <1>1, <1>7, RecoversAppend

(* The rollback of a transaction that has written nothing leaves the file  *)
(* of a paged table.                                                       *)
LEMMA RollbackKeeps ==
    ASSUME IInv, UndoInv, NEW s \in Sessions, RollsBack(s),
           ~paged \/ (dirty = {} /\ "interference" \notin damage)
    PROVE  \A id \in Ids : Cell(db'.dat, id) = Cell(db.dat, id)
  <1>1. CASE ~paged
    BY <1>1 DEF RollsBack
  <1>2. CASE paged /\ dirty = {} /\ "interference" \notin damage
    <2>1. db'.dat = Rewound(db.mem, sess[s].undo) /\ up
      BY <1>2 DEF RollsBack
    <2>2. db.dat = db.mem /\ DOMAIN sess[s].pending = {}
      BY <1>2, <2>1 DEF IInv, FileOf, PendingIn
    <2>3. TableOK(db.mem) /\ UndoOK(sess[s].undo)
      BY SessionTypes DEF IInv, TypeInv, DbType
    <2>4. ASSUME NEW id \in Ids
          PROVE  Cell(Rewound(db.mem, sess[s].undo), id) = Cell(db.mem, id)
      <3>1. CASE id \in IdsOf(sess[s].undo)
        <4>1. UndoLands(sess[s].undo, id, Cell(db.mem, id), Cell(db.mem, id))
          BY <1>2, <2>2, <3>1 DEF UndoInv, AllSettled, Settled
        <4> QED
          BY <2>3, <4>1, RewoundCell
      <3>2. CASE id \notin IdsOf(sess[s].undo)
        BY <2>3, <3>2, RewoundCell
      <3> QED
        BY <3>1, <3>2
    <2> QED
      BY <2>1, <2>2, <2>4
  <1> QED
    BY <1>1, <1>2

LEMMA CommitAppends ==
    ASSUME IInv, NEW txn, NEW op, Logs(txn, op), op.kind = "Commit"
    PROVE  AppendsCommit
  <1>1. PICK w, r : w = db.wal /\ r = [lsn |-> db.lsn + 1, txn |-> txn, op |-> op]
    OBVIOUS
  <1>2. w \in Seq(Records) /\ db'.wal = Append(w, r) /\ r.op = op
    BY <1>1 DEF IInv, TypeInv, DbType, WalOK, Logs
  <1>3. Len(w) \in Nat /\ Len(Append(w, r)) = Len(w) + 1 /\ Append(w, r)[Len(w) + 1] = r
    BY <1>2
  <1>4. Last(Append(w, r)) = r
    BY <1>3 DEF Last
  <1> QED
    BY <1>1, <1>2, <1>3, <1>4 DEF AppendsCommit

LEMMA StepRecovers ==
    ASSUME IInv, UndoInv, TypeInv', StepKind
    PROVE  \/ UNCHANGED <<db.dat, db.wal, db.ckpt>>
           \/ AppendsCommit
           \/ db'.wal = <<>>
           \/ "txnReuse" \in damage'
           \/ paged /\ (dirty \cup dirty' # {} \/ "interference" \in damage)
           \/ RecoversTo(db, db')
  <1> DEFINE Goal == \/ UNCHANGED <<db.dat, db.wal, db.ckpt>>
                     \/ AppendsCommit
                     \/ db'.wal = <<>>
                     \/ "txnReuse" \in damage'
                     \/ paged /\ (dirty \cup dirty' # {} \/ "interference" \in damage)
                     \/ RecoversTo(db, db')
  <1> SUFFICES Goal
    OBVIOUS
  <1>1. CASE Quiet \/ (\E s \in Sessions : Leaves(s) \/ \E id \in Ids : Notes(s, id))
    BY <1>1 DEF Quiet, Leaves, Notes
  <1>2. CASE SavesAll \/ ShutsDown \/ \E s \in Sessions : \E e \in Effects : Saves(s, e)
    BY <1>2 DEF SavesAll, ShutsDown, Saves
  <1>3. ASSUME NEW s \in Sessions, Commits(s) PROVE Goal
    <2>1. Logs(sess[s].txn, Control("Commit")) /\ Control("Commit").kind = "Commit"
      BY <1>3 DEF Commits, Control
    <2> QED
      BY <2>1, CommitAppends
  <1>4. ASSUME NEW s \in Sessions, Begins(s) PROVE Goal
    <2>1. Logs(db.nextTxn, Control("Begin")) /\ db'.dat = db.dat /\ Control("Begin").kind # "Commit"
      BY <1>4 DEF Begins, Control
    <2> QED
      BY <2>1, LogsKeeps
  <1>5. ASSUME NEW s \in Sessions, NEW e \in Effects, Appends(s, e) PROVE Goal
    <2>1. /\ Logs(sess[s].txn, e) /\ sess[s].txn # 0 /\ e.kind \in DataKinds /\ damage \subseteq damage'
          /\ db'.dat = (IF paged THEN db'.mem ELSE db.dat)
          /\ paged => s \in dirty'
      BY <1>5 DEF Appends, WritesRow, ChangesRow
    <2>2. CASE paged
      BY <2>1, <2>2
    <2>3. CASE ~paged /\ "txnReuse" \notin damage'
      <3>1. sess[s].txn \notin Winners(db)
        BY <2>1, <2>3, OpenUndecided
      <3>2. db'.dat = db.dat /\ e.kind # "Commit"
        BY <2>1, <2>3 DEF DataKinds
      <3> QED
        BY <2>1, <3>1, <3>2, LogsKeeps
    <2> QED
      BY <2>2, <2>3 DEF IInv, TypeInv
  <1>5a. ASSUME NEW s \in Sessions, NEW e \in Effects, Strays(s, e) PROVE Goal
    BY <1>5a DEF Strays
  <1>6. ASSUME NEW s \in Sessions, RollsBack(s) PROVE Goal
    <2>1. /\ Logs(sess[s].txn, Control("Abort")) /\ sess[s].txn # 0 /\ damage \subseteq damage'
          /\ Control("Abort").kind # "Commit"
      BY <1>6 DEF RollsBack, Control
    <2> SUFFICES ASSUME "txnReuse" \notin damage', ~paged \/ (dirty = {} /\ "interference" \notin damage)
                 PROVE  RecoversTo(db, db')
      OBVIOUS
    <2>2. \A id \in Ids : Cell(db'.dat, id) = Cell(db.dat, id)
      BY <1>6, RollbackKeeps
    <2>3. sess[s].txn \notin Winners(db)
      BY <2>1, OpenUndecided
    <2> QED
      BY <2>1, <2>2, <2>3, LogsKeeps
  <1>7. CASE Dies \/ Opens
    <2>1. /\ db'.wal = db.wal /\ db'.ckpt = db.ckpt
          /\ db'.dat = db.dat \/ db'.dat = Recovered(db)
      BY <1>7 DEF Dies, Opens
    <2>2. PICK d, f : d = db /\ f = db'
      OBVIOUS
    <2>3. WalOK(d.wal) /\ TableOK(d.dat) /\ TableOK(f.dat) /\ f.wal = d.wal /\ f.ckpt = d.ckpt
      BY <2>1, <2>2 DEF IInv, TypeInv, DbType
    <2>4. \A id \in Ids : Cell(f.dat, id) = Cell(d.dat, id) \/ Cell(f.dat, id) = Cell(Recovered(d), id)
      BY <2>1, <2>2
    <2>5. KeepsLog(d, f)
      BY <2>3, <2>4 DEF KeepsLog
    <2> QED
      BY <2>2, <2>5, RecoversSame
  <1> HIDE DEF Goal
  <1> QED
    BY <1>1, <1>2, <1>3, <1>4, <1>5, <1>5a, <1>6, <1>7 DEF StepKind

(* What recovery would produce changes only when a transaction commits or  *)
(* a checkpoint runs: no write, rollback, failed statement or restart      *)
(* changes it, with the exceptions that the property names.                *)
THEOREM CommitsChangeRecovery == Spec => OnlyCommitChangesRecovery
  <1> DEFINE A == \/ UNCHANGED <<db.dat, db.wal, db.ckpt>>
                  \/ AppendsCommit
                  \/ db'.wal = <<>>
                  \/ "txnReuse" \in damage'
                  \/ paged /\ (dirty \cup dirty' # {} \/ "interference" \in damage)
                  \/ Values(Recovered(db')) = Values(Recovered(db))
  <1>1. ASSUME IInv, UndoInv, [Next]_vars
        PROVE  A
    <2>1. TypeInv' /\ StepKind
      BY <1>1, StepIs DEF IInv
    <2>2. PICK d, f : d = db /\ f = db'
      OBVIOUS
    <2>3. WalOK(d.wal) /\ TableOK(d.dat) /\ WalOK(f.wal) /\ TableOK(f.dat)
      BY <1>1, <2>1, <2>2 DEF IInv, TypeInv, DbType
    <2>4. TableOK(Recovered(d)) /\ TableOK(Recovered(f))
      BY <2>3, RecoveredRuns
    <2>5. RecoversTo(d, f) => Values(Recovered(f)) = Values(Recovered(d))
      BY <2>4, SameValues DEF RecoversTo
    <2>6. RecoversTo(db, db') => Values(Recovered(db')) = Values(Recovered(db))
      BY <2>2, <2>5
    <2> QED
      BY <1>1, <2>1, <2>6, StepRecovers
  <1>2. IInv /\ UndoInv /\ [Next]_vars => [A]_vars
    BY <1>1
  <1> HIDE DEF A
  <1>3. Spec => [][A]_vars
    BY <1>2, Invariant, UndoInvariant, PTL DEF Spec
  <1> QED
    BY <1>3 DEF OnlyCommitChangesRecovery, A

=============================================================================
