--------------------------- MODULE Catalog_proofs ---------------------------
(***************************************************************************)
(* meta.bin and the index manager agree with the catalog, rows belong to   *)
(* the table they are in, and a killed database opens again, for any       *)
(* tables and sessions, any batches of statements and any number of kills. *)
(*                                                                         *)
(* The first two follow from IInv, which has nothing of rows and log.  For *)
(* the others TypeInv types rows and records, BelongInv says of memory,    *)
(* files, log and the rows in hand that they belong to the schema there    *)
(* will be after a restart, and ReplayInv that until a checkpoint has run  *)
(* every other record comes after an insert, which makes the table.        *)
(***************************************************************************)
EXTENDS Catalog, WellFoundedInduction, TLAPS

(* Steps of persist, between the first entry read and the file written.    *)
Saving == {"snapshot", "open", "write"}

(* Two maps have the same entry of t, or none.                             *)
SameAt(f, g, t) == (t \in DOMAIN f <=> t \in DOMAIN g) /\ (t \in DOMAIN f => f[t] = g[t])

AllSchemas(f) == \A t \in DOMAIN f : "idx" \in DOMAIN f[t]

(* A batch that has changed a table and ends without an error either has a *)
(* DDL statement as its last one, or has more than one statement.          *)
BatchOK(b) ==
    /\ DOMAIN b = DOMAIN NewBatch
    /\ b.pc \notin Saving => b.read = {} /\ b.old = {}
    /\ b.pc = "idle" => b.touched = {}
    /\ b.pc = "writeRow" /\ ~b.many => b.touched = {}
    /\ b.pc = "more" /\ ~b.last /\ ~b.many => b.touched = {}
    /\ b.pc \in {"open", "write"} => b.read = Tables
    /\ DOMAIN b.snap \subseteq b.read /\ AllSchemas(b.snap)

SessInv ==
    /\ sess = [s \in Sessions |-> sess[s]]
    /\ \A s \in Sessions : BatchOK(sess[s])
    /\ ~up => \A s \in Sessions : sess[s].pc = "idle"
    /\ AllSchemas(catalog) /\ AllSchemas(meta)

(* What persist has read is what the catalog has, but for the tables that  *)
(* changed after they were read.                                           *)
SnapOK(b) == b.pc \in Saving => \A t \in b.read \ b.old : SameAt(b.snap, catalog, t)

SnapInv == \A s \in Sessions : SnapOK(sess[s])

(* The DDL lock: one session at a time works on a table.                   *)
LockInv ==
    \A s, u \in Sessions :
        /\ sess[s].pc \in DdlSteps /\ sess[u].pc \in DdlSteps
        /\ sess[s].table = sess[u].table
        => s = u

(* What a DDL statement has done by the time it comes to a step.           *)
DdlOK(b) ==
    LET t == b.table
    IN  /\ b.pc \in {"ensure", "create", "add"} => t \in DOMAIN catalog
        /\ b.pc \in {"dropMem", "dropFile", "dropIdx"} => t \notin DOMAIN catalog
        /\ "indexesLeft" \notin damage =>
              /\ b.pc = "ensure" => NamesOf(t) = {} /\ catalog[t].idx = {}
              /\ b.pc = "create" => NamesOf(t) = catalog[t].idx
              /\ b.pc = "add" => NamesOf(t) = catalog[t].idx \cup {b.index}

DdlInv == \A s \in Sessions : DdlOK(sess[s])

IInv == SessInv /\ SnapInv /\ LockInv /\ DdlInv /\ MetaCurrent /\ IndexesMatch

-----------------------------------------------------------------------------
(* MetaCurrent compares the restrictions of meta.bin and the catalog to a  *)
(* table, which is to compare their entries.                               *)
LEMMA SameRestriction ==
    ASSUME NEW f, NEW g, NEW t
    PROVE  Restrict(f, DOMAIN f \cap {t}) = Restrict(g, DOMAIN g \cap {t}) <=> SameAt(f, g, t)
  <1> DEFINE F == Restrict(f, DOMAIN f \cap {t})
             G == Restrict(g, DOMAIN g \cap {t})
  <1>1. DOMAIN F = DOMAIN f \cap {t} /\ DOMAIN G = DOMAIN g \cap {t}
    BY DEF Restrict
  <1>2. (t \in DOMAIN f => F[t] = f[t]) /\ (t \in DOMAIN g => G[t] = g[t])
    BY DEF Restrict
  <1>3. ASSUME F = G
        PROVE  SameAt(f, g, t)
    <2>1. t \in DOMAIN f <=> t \in DOMAIN g
      BY <1>1, <1>3
    <2>2. t \in DOMAIN f => f[t] = g[t]
      BY <1>2, <1>3, <2>1
    <2> QED
      BY <2>1, <2>2 DEF SameAt
  <1>4. ASSUME SameAt(f, g, t)
        PROVE  F = G
    <2>1. DOMAIN f \cap {t} = DOMAIN g \cap {t}
      BY <1>4 DEF SameAt
    <2>2. \A x \in DOMAIN f \cap {t} : f[x] = g[x]
      BY <1>4 DEF SameAt
    <2> QED
      BY <2>1, <2>2 DEF Restrict
  <1> QED
    BY <1>3, <1>4

(* MetaCurrent, by entries.                                                *)
MetaSame ==
    up /\ ~Truncated => \A t \in Tables \ (stale \cup TouchedBy(Sessions)) : SameAt(meta, catalog, t)

LEMMA MetaByEntry == MetaCurrent <=> MetaSame
  BY SameRestriction DEF MetaCurrent, MetaSame

LEMMA MetaByEntryNext == MetaCurrent' <=> MetaSame'
  BY MetaByEntry, PTL

(* The batches a session may go on with.                                   *)
LEMMA BatchFields ==
    DOMAIN NewBatch = {"pc", "table", "gen", "index", "id", "row", "kind", "many", "last", "read",
                       "snap", "touched", "old"}
  BY DEF NewBatch

LEMMA NewBatchOK ==
    /\ BatchOK(NewBatch) /\ NewBatch.pc = "idle" /\ NewBatch.touched = {}
  BY DEF BatchOK, NewBatch, Saving, AllSchemas

LEMMA DoneOK ==
    ASSUME NEW s \in Sessions, NEW changed \in BOOLEAN,
           changed \/ sess[s].many \/ sess[s].touched = {}
    PROVE  /\ BatchOK(Done(s, changed))
           /\ Done(s, changed).pc = "more" /\ Done(s, changed).touched = sess[s].touched
  <1> DEFINE b == Done(s, changed)
  <1>1. /\ DOMAIN b = DOMAIN NewBatch
        /\ b.pc = "more" /\ b.touched = sess[s].touched /\ b.read = {} /\ b.snap = <<>> /\ b.old = {}
        /\ b.last = changed /\ b.many = sess[s].many
    BY DEF Done, NewBatch
  <1> HIDE DEF b
  <1>2. b.last \/ b.many \/ b.touched = {}
    BY <1>1
  <1> QED
    BY <1>1, <1>2 DEF BatchOK, Saving, AllSchemas, b

LEMMA StatementOK ==
    ASSUME NEW s \in Sessions, BatchOK(sess[s]), sess[s].pc \in {"idle", "more"},
           NEW b, DOMAIN b = DOMAIN NewBatch,
           b.pc \in {"writeRow", "create", "ensure", "dropMem"},
           b.touched = sess[s].touched, b.read = sess[s].read, b.old = sess[s].old,
           b.snap = sess[s].snap, sess[s].pc = "more" => b.many
    PROVE  BatchOK(b)
  <1>1. b.read = {} /\ b.old = {} /\ DOMAIN b.snap \subseteq b.read /\ AllSchemas(b.snap)
    BY DEF BatchOK, Saving
  <1>2. sess[s].pc = "idle" => b.touched = {}
    BY DEF BatchOK
  <1> QED
    BY <1>1, <1>2 DEF BatchOK, Saving

-----------------------------------------------------------------------------
(* The names of a table's indexes and the catalog's agree.                 *)
NamesAgree(t) == NamesOf(t) = IF t \in DOMAIN catalog THEN catalog[t].idx ELSE {}

LEMMA NamesSame ==
    ASSUME UNCHANGED <<catalog, indexes>>
    PROVE  /\ \A t : NamesOf(t)' = NamesOf(t)
           /\ \A t : NamesAgree(t) <=> NamesOf(t)' = IF t \in DOMAIN catalog' THEN catalog'[t].idx ELSE {}
  BY DEF NamesOf, NamesAgree

(* One session takes a step that changes neither the catalog nor the       *)
(* indexes nor meta.bin.                                                   *)
LEMMA LocalStep ==
    ASSUME IInv, up, UNCHANGED <<catalog, indexes, meta, up>>,
           NEW s \in Sessions, NEW me, sess' = [sess EXCEPT ![s] = me], BatchOK(me),
           "indexesLeft" \notin damage' => "indexesLeft" \notin damage,
           stale \subseteq stale', sess[s].touched \subseteq stale' \cup me.touched,
           sess[s].pc # "write", me.pc # "write",
           SnapOK(me),
           "indexesLeft" \notin damage' => DdlOK(me),
           me.pc \in {"ensure", "create", "add"} => me.table \in DOMAIN catalog,
           me.pc \in {"dropMem", "dropFile", "dropIdx"} => me.table \notin DOMAIN catalog,
           me.pc \in DdlSteps =>
               IF sess[s].pc \in DdlSteps THEN sess[s].table = me.table ELSE ~Locked(me.table),
           "indexesLeft" \notin damage' /\ sess[s].pc \in DdlSteps /\ me.pc \notin DdlSteps =>
               NamesAgree(sess[s].table)
    PROVE  IInv'
  <1>1. /\ DOMAIN sess = Sessions /\ sess'[s] = me
        /\ \A u \in Sessions : u # s => sess'[u] = sess[u]
        /\ sess' = [u \in Sessions |-> sess'[u]]
    BY DEF IInv, SessInv
  <1>2. SessInv'
    <2>1. \A u \in Sessions : BatchOK(sess[u])
      BY DEF IInv, SessInv
    <2>2. \A u \in Sessions : BatchOK(sess'[u])
      BY <1>1, <2>1
    <2>3. \A u \in Sessions : BatchOK(sess[u])'
      BY <2>2 DEF BatchOK, AllSchemas, NewBatch, NoRow, Saving
    <2> QED
      BY <1>1, <2>3 DEF IInv, SessInv, AllSchemas
  <1>3. SnapInv'
    BY <1>1 DEF IInv, SnapInv, SnapOK
  <1>4. LockInv'
    <2> SUFFICES ASSUME NEW u \in Sessions, NEW v \in Sessions, u # v,
                        sess'[u].pc \in DdlSteps, sess'[v].pc \in DdlSteps,
                        sess'[u].table = sess'[v].table
                 PROVE  FALSE
      BY DEF LockInv, DdlSteps
    <2>1. CASE u # s /\ v # s
      BY <1>1, <2>1 DEF IInv, LockInv
    <2>2. CASE u = s
      BY <1>1, <2>2 DEF IInv, LockInv, Locked
    <2>3. CASE v = s
      BY <1>1, <2>3 DEF IInv, LockInv, Locked
    <2> QED
      BY <2>1, <2>2, <2>3
  <1>5. DdlInv'
    <2> SUFFICES ASSUME NEW u \in Sessions
                 PROVE  DdlOK(sess[u])'
      BY DEF DdlInv
    <2>1. CASE u = s
      BY <1>1, <2>1, NamesSame DEF DdlOK
    <2>2. CASE u # s
      BY <1>1, <2>2, NamesSame DEF IInv, DdlInv, DdlOK
    <2> QED
      BY <2>1, <2>2
  <1>6. MetaCurrent'
    <2>1. MetaSame
      BY MetaByEntry DEF IInv
    <2>2. Truncated' <=> Truncated
      BY <1>1 DEF Truncated
    <2>3. stale \cup TouchedBy(Sessions) \subseteq stale' \cup TouchedBy(Sessions)'
      <3>1. ASSUME NEW t, NEW u \in Sessions, t \in sess[u].touched
            PROVE  t \in stale' \cup TouchedBy(Sessions)'
        <4>1. t \in stale' \/ t \in sess'[u].touched
          BY <1>1, <3>1
        <4> QED
          BY <4>1 DEF TouchedBy
      <3> QED
        BY <3>1 DEF TouchedBy
    <2>4. MetaSame'
      BY <2>1, <2>2, <2>3 DEF MetaSame
    <2> QED
      BY <2>4, MetaByEntryNext
  <1>7. IndexesMatch'
    <2> SUFFICES ASSUME "indexesLeft" \notin damage', NEW t \in Tables, ~Locked(t)'
                 PROVE  NamesOf(t)' = IF t \in DOMAIN catalog' THEN catalog'[t].idx ELSE {}
      BY DEF IndexesMatch
    <2>1. CASE ~Locked(t)
      <3>1. NamesAgree(t)
        BY <2>1 DEF IInv, IndexesMatch, NamesAgree
      <3> QED
        BY <3>1, NamesSame
    <2>2. CASE Locked(t)
      <3>1. PICK u \in Sessions : sess[u].pc \in DdlSteps /\ sess[u].table = t
        BY <2>2 DEF Locked
      <3>2. \A v \in Sessions : ~(sess'[v].pc \in DdlSteps /\ sess'[v].table = t)
        BY DEF Locked, DdlSteps
      <3>3. u = s
        BY <1>1, <3>1, <3>2
      <3>4. me.pc \notin DdlSteps
        <4>1. me.pc \in DdlSteps => me.table # t
          BY <1>1, <3>2
        <4> QED
          BY <3>1, <3>3, <4>1
      <3>5. NamesAgree(t)
        BY <3>1, <3>3, <3>4
      <3> QED
        BY <3>5, NamesSame
    <2> QED
      BY <2>1, <2>2
  <1> QED
    BY <1>2, <1>3, <1>4, <1>5, <1>6, <1>7 DEF IInv

(* A statement fails, or persist before it has opened meta.bin.            *)
LEMMA FailsKeeps ==
    ASSUME IInv, up, UNCHANGED <<catalog, indexes, meta, up>>,
           NEW s \in Sessions, Fails(s), sess[s].pc # "write",
           "indexesLeft" \notin damage' => "indexesLeft" \notin damage,
           "indexesLeft" \notin damage' /\ sess[s].pc \in DdlSteps => NamesAgree(sess[s].table)
    PROVE  IInv'
  <1>1. PICK me : me = NewBatch
    OBVIOUS
  <1>2. BatchOK(me) /\ me.pc = "idle" /\ me.touched = {}
    BY <1>1, NewBatchOK
  <1>3. /\ sess' = [sess EXCEPT ![s] = me]
        /\ stale \subseteq stale' /\ sess[s].touched \subseteq stale' \cup me.touched
    BY <1>1 DEF Fails
  <1>4. SnapOK(me) /\ DdlOK(me)
    BY <1>2 DEF SnapOK, Saving, DdlOK
  <1>5. me.pc \notin DdlSteps /\ me.pc # "write"
    BY <1>2 DEF DdlSteps
  <1>6. me.pc \notin {"ensure", "create", "add"} /\ me.pc \notin {"dropMem", "dropFile", "dropIdx"}
    BY <1>2
  <1> QED
    BY <1>2, <1>3, <1>4, <1>5, <1>6, LocalStep

(* A statement returns Ok and the batch goes on.                           *)
LEMMA DoneKeeps ==
    ASSUME IInv, up, UNCHANGED <<catalog, indexes, meta, up, stale>>,
           NEW s \in Sessions, NEW changed \in BOOLEAN, sess' = [sess EXCEPT ![s] = Done(s, changed)],
           changed \/ sess[s].many \/ sess[s].touched = {}, sess[s].pc # "write",
           "indexesLeft" \notin damage' => "indexesLeft" \notin damage,
           "indexesLeft" \notin damage' /\ sess[s].pc \in DdlSteps => NamesAgree(sess[s].table)
    PROVE  IInv'
  <1>1. PICK me : me = Done(s, changed)
    OBVIOUS
  <1>2. BatchOK(me) /\ me.pc = "more" /\ me.touched = sess[s].touched
    BY <1>1, DoneOK
  <1>3. SnapOK(me) /\ DdlOK(me)
    BY <1>2 DEF SnapOK, Saving, DdlOK
  <1>4. me.pc \notin DdlSteps /\ me.pc # "write"
    BY <1>2 DEF DdlSteps
  <1>5. me.pc \notin {"ensure", "create", "add"} /\ me.pc \notin {"dropMem", "dropFile", "dropIdx"}
    BY <1>2
  <1>6. /\ sess' = [sess EXCEPT ![s] = me]
        /\ stale \subseteq stale' /\ sess[s].touched \subseteq stale' \cup me.touched
    BY <1>1, <1>2
  <1> QED
    BY <1>2, <1>3, <1>4, <1>5, <1>6, LocalStep

(* A statement begins that changes nothing yet: DML and CREATE INDEX.      *)
LEMMA StartKeeps ==
    ASSUME IInv, NEW s \in Sessions, Ready(s), NEW t \in Tables, NEW pc \in {"writeRow", "create"},
           NEW me, sess' = [sess EXCEPT ![s] = me],
           BatchOK(me), me.pc = pc, me.table = t, me.touched = sess[s].touched,
           pc = "create" => ~Locked(t) /\ t \in DOMAIN catalog,
           UNCHANGED <<catalog, indexes, meta, up, stale, damage>>
    PROVE  IInv'
  <1>1. up /\ sess[s].pc \in {"idle", "more"}
    BY DEF Ready
  <1>2. SnapOK(me) /\ sess[s].pc # "write" /\ me.pc # "write" /\ sess[s].pc \notin DdlSteps
    BY <1>1 DEF SnapOK, Saving, DdlSteps
  <1>3. "indexesLeft" \notin damage /\ pc = "create" => NamesOf(t) = catalog[t].idx
    BY <1>1 DEF IInv, IndexesMatch
  <1>4. DdlOK(me)
    BY <1>3 DEF DdlOK
  <1>5. /\ me.pc \in {"ensure", "create", "add"} => me.table \in DOMAIN catalog
        /\ me.pc \notin {"dropMem", "dropFile", "dropIdx"}
        /\ me.pc \in DdlSteps => ~Locked(me.table)
    BY DEF DdlSteps
  <1> QED
    BY <1>1, <1>2, <1>4, <1>5, LocalStep

LEMMA CreateIndexKeeps ==
    ASSUME IInv, NEW s \in Sessions, NEW t \in Tables, CreateIndex(s, t)
    PROVE  IInv'
  <1>1. Ready(s) /\ ~Locked(t) /\ UNCHANGED <<catalog, indexes, meta, up, damage>>
    BY DEF CreateIndex
  <1>2. up /\ sess[s].pc \in {"idle", "more"} /\ BatchOK(sess[s])
    BY <1>1 DEF Ready, IInv, SessInv
  <1>3. CASE Fails(s)
    <2>1. sess[s].pc # "write" /\ sess[s].pc \notin DdlSteps
      BY <1>2 DEF DdlSteps
    <2> QED
      BY <1>1, <1>2, <1>3, <2>1, FailsKeeps
  <1>4. CASE /\ t \in DOMAIN catalog
             /\ sess' = [sess EXCEPT ![s] = [Statement(s, "create", t) EXCEPT !.index = "idx"]]
             /\ UNCHANGED stale
    <2>1. PICK me : me = [Statement(s, "create", t) EXCEPT !.index = "idx"]
      OBVIOUS
    <2>2. /\ DOMAIN me = DOMAIN NewBatch
          /\ me.pc = "create" /\ me.table = t /\ me.touched = sess[s].touched
          /\ me.read = sess[s].read /\ me.old = sess[s].old /\ me.snap = sess[s].snap
      BY <1>2, <2>1, BatchFields DEF Statement, BatchOK
    <2>3. me.many = (sess[s].pc = "more")
      BY <1>2, <2>1, BatchFields DEF Statement, BatchOK
    <2>4. BatchOK(me)
      BY <1>2, <2>2, <2>3, StatementOK
    <2> QED
      BY <1>1, <1>4, <2>1, <2>2, <2>4, StartKeeps
  <1> QED
    BY <1>3, <1>4 DEF CreateIndex

LEMMA EnsureTableKeeps ==
    ASSUME IInv, NEW s \in Sessions, EnsureTable(s)
    PROVE  IInv'
  <1>1. /\ up /\ sess[s].pc = "ensure" /\ UNCHANGED <<catalog, indexes, meta, up, stale, damage>>
    BY DEF EnsureTable
  <1>2. DOMAIN sess = Sessions /\ BatchOK(sess[s]) /\ DdlOK(sess[s])
    BY DEF IInv, SessInv, DdlInv
  <1>3. sess[s].table \in DOMAIN catalog
    BY <1>1, <1>2 DEF DdlOK
  <1>4. "indexesLeft" \notin damage => NamesOf(sess[s].table) = {} /\ catalog[sess[s].table].idx = {}
    BY <1>1, <1>2 DEF DdlOK
  <1>5. CASE sess[s].index = ""
    <2>1. sess' = [sess EXCEPT ![s] = Done(s, TRUE)]
      BY <1>5 DEF EnsureTable
    <2>2. "indexesLeft" \notin damage => NamesAgree(sess[s].table)
      BY <1>3, <1>4 DEF NamesAgree
    <2> QED
      BY <1>1, <2>1, <2>2, DoneKeeps
  <1>6. CASE sess[s].index # ""
    <2>1. PICK me : me = [sess[s] EXCEPT !.pc = "create"]
      OBVIOUS
    <2>2. sess' = [sess EXCEPT ![s] = me]
      BY <1>6, <2>1 DEF EnsureTable
    <2>3. /\ DOMAIN me = DOMAIN NewBatch
          /\ me.pc = "create" /\ me.table = sess[s].table /\ me.touched = sess[s].touched
          /\ me.read = sess[s].read /\ me.old = sess[s].old /\ me.snap = sess[s].snap
      BY <1>2, <2>1, BatchFields DEF BatchOK
    <2>4. BatchOK(me)
      BY <1>1, <1>2, <2>3 DEF BatchOK, Saving
    <2>5. SnapOK(me) /\ DdlOK(me)
      BY <1>3, <1>4, <2>3 DEF SnapOK, Saving, DdlOK
    <2>6. /\ sess[s].pc # "write" /\ me.pc # "write"
          /\ sess[s].pc \in DdlSteps /\ me.pc \in DdlSteps
          /\ me.pc \notin {"dropMem", "dropFile", "dropIdx"}
      BY <1>1, <2>3 DEF DdlSteps
    <2> QED
      BY <1>1, <1>3, <2>2, <2>3, <2>4, <2>5, <2>6, LocalStep
  <1> QED
    BY <1>5, <1>6

LEMMA DropFromMemoryKeeps ==
    ASSUME IInv, NEW s \in Sessions, DropFromMemory(s)
    PROVE  IInv'
  <1>1. /\ up /\ sess[s].pc = "dropMem" /\ UNCHANGED <<catalog, indexes, meta, up, stale, damage>>
        /\ sess' = [sess EXCEPT ![s].pc = "dropFile"]
    BY DEF DropFromMemory
  <1>2. DOMAIN sess = Sessions /\ BatchOK(sess[s]) /\ DdlOK(sess[s])
    BY DEF IInv, SessInv, DdlInv
  <1>3. PICK me : me = [sess[s] EXCEPT !.pc = "dropFile"]
    OBVIOUS
  <1>4. sess' = [sess EXCEPT ![s] = me]
    BY <1>1, <1>3
  <1>5. /\ DOMAIN me = DOMAIN NewBatch
        /\ me.pc = "dropFile" /\ me.table = sess[s].table /\ me.touched = sess[s].touched
        /\ me.read = sess[s].read /\ me.old = sess[s].old /\ me.snap = sess[s].snap
    BY <1>2, <1>3, BatchFields DEF BatchOK
  <1>6. BatchOK(me)
    BY <1>1, <1>2, <1>5 DEF BatchOK, Saving
  <1>7. SnapOK(me) /\ DdlOK(me) /\ me.table \notin DOMAIN catalog
    BY <1>1, <1>2, <1>5 DEF SnapOK, Saving, DdlOK
  <1>8. /\ sess[s].pc # "write" /\ me.pc # "write"
        /\ sess[s].pc \in DdlSteps /\ me.pc \in DdlSteps
        /\ me.pc \notin {"ensure", "create", "add"}
    BY <1>1, <1>5 DEF DdlSteps
  <1> QED
    BY <1>1, <1>4, <1>5, <1>6, <1>7, <1>8, LocalStep

LEMMA DropFileKeeps ==
    ASSUME IInv, NEW s \in Sessions, DropFile(s)
    PROVE  IInv'
  <1>1. /\ up /\ sess[s].pc = "dropFile" /\ UNCHANGED <<catalog, indexes, meta, up>>
    BY DEF DropFile
  <1>2. DOMAIN sess = Sessions /\ BatchOK(sess[s]) /\ DdlOK(sess[s])
    BY DEF IInv, SessInv, DdlInv
  <1>3. CASE sess' = [sess EXCEPT ![s].pc = "dropIdx"] /\ UNCHANGED <<stale, damage>>
    <2>1. PICK me : me = [sess[s] EXCEPT !.pc = "dropIdx"]
      OBVIOUS
    <2>2. sess' = [sess EXCEPT ![s] = me]
      BY <1>3, <2>1
    <2>3. /\ DOMAIN me = DOMAIN NewBatch
          /\ me.pc = "dropIdx" /\ me.table = sess[s].table /\ me.touched = sess[s].touched
          /\ me.read = sess[s].read /\ me.old = sess[s].old /\ me.snap = sess[s].snap
      BY <1>2, <2>1, BatchFields DEF BatchOK
    <2>4. BatchOK(me)
      BY <1>1, <1>2, <2>3 DEF BatchOK, Saving
    <2>5. SnapOK(me) /\ DdlOK(me) /\ me.table \notin DOMAIN catalog
      BY <1>1, <1>2, <2>3 DEF SnapOK, Saving, DdlOK
    <2>6. /\ sess[s].pc # "write" /\ me.pc # "write"
          /\ sess[s].pc \in DdlSteps /\ me.pc \in DdlSteps
          /\ me.pc \notin {"ensure", "create", "add"}
      BY <1>1, <2>3 DEF DdlSteps
    <2> QED
      BY <1>1, <1>3, <2>2, <2>3, <2>4, <2>5, <2>6, LocalStep
  <1>4. CASE Fails(s) /\ damage' = damage \cup {"fileLeft", "indexesLeft"}
    BY <1>1, <1>4, FailsKeeps
  <1> QED
    BY <1>3, <1>4 DEF DropFile

LEMMA EndBatchKeeps ==
    ASSUME IInv, NEW s \in Sessions, EndBatch(s)
    PROVE  IInv'
  <1>1. up /\ sess[s].pc = "more" /\ UNCHANGED <<catalog, indexes, meta, up, damage>>
    BY DEF EndBatch
  <1>2. DOMAIN sess = Sessions /\ BatchOK(sess[s])
    BY DEF IInv, SessInv
  <1>3. sess[s].pc \notin DdlSteps /\ sess[s].pc # "write"
    BY <1>1 DEF DdlSteps
  <1>4. CASE sess[s].last
    <2>1. sess' = [sess EXCEPT ![s].pc = "snapshot"] /\ stale' = stale
      BY <1>4 DEF EndBatch
    <2>2. PICK me : me = [sess[s] EXCEPT !.pc = "snapshot"]
      OBVIOUS
    <2>3. sess' = [sess EXCEPT ![s] = me]
      BY <2>1, <2>2
    <2>4. /\ DOMAIN me = DOMAIN NewBatch /\ me.pc = "snapshot" /\ me.touched = sess[s].touched
          /\ me.read = sess[s].read /\ me.old = sess[s].old /\ me.snap = sess[s].snap
      BY <1>2, <2>2, BatchFields DEF BatchOK
    <2>5. me.read = {}
      BY <1>1, <1>2, <2>4 DEF BatchOK, Saving
    <2>6. BatchOK(me)
      BY <1>1, <1>2, <2>4 DEF BatchOK, Saving
    <2>7. SnapOK(me) /\ DdlOK(me)
      BY <2>4, <2>5 DEF SnapOK, DdlOK
    <2>8. /\ me.pc \notin DdlSteps /\ me.pc # "write"
          /\ me.pc \notin {"ensure", "create", "add"}
          /\ me.pc \notin {"dropMem", "dropFile", "dropIdx"}
      BY <2>4 DEF DdlSteps
    <2> QED
      BY <1>1, <1>3, <2>1, <2>3, <2>4, <2>6, <2>7, <2>8, LocalStep
  <1>5. CASE ~sess[s].last
    <2>1. /\ sess' = [sess EXCEPT ![s] = NewBatch]
          /\ stale' = stale \cup (IF sess[s].many THEN sess[s].touched ELSE {})
      BY <1>5 DEF EndBatch
    <2>2. stale \subseteq stale' /\ sess[s].touched \subseteq stale'
      BY <1>1, <1>2, <1>5, <2>1 DEF BatchOK
    <2>3. PICK me : me = NewBatch
      OBVIOUS
    <2>4. BatchOK(me) /\ me.pc = "idle"
      BY <2>3, NewBatchOK
    <2>5. SnapOK(me) /\ DdlOK(me)
      BY <2>4 DEF SnapOK, Saving, DdlOK
    <2>6. /\ me.pc \notin DdlSteps /\ me.pc # "write"
          /\ me.pc \notin {"ensure", "create", "add"}
          /\ me.pc \notin {"dropMem", "dropFile", "dropIdx"}
      BY <2>4 DEF DdlSteps
    <2>7. sess' = [sess EXCEPT ![s] = me]
      BY <2>1, <2>3
    <2> QED
      BY <1>1, <1>3, <2>2, <2>4, <2>5, <2>6, <2>7, LocalStep
  <1> QED
    BY <1>4, <1>5

(* persist reads one more entry of the catalog.                            *)
LEMMA SnapshotTableKeeps ==
    ASSUME IInv, NEW s \in Sessions, NEW t \in Tables, SnapshotTable(s, t)
    PROVE  IInv'
  <1>1. /\ up /\ sess[s].pc = "snapshot" /\ t \notin sess[s].read
        /\ UNCHANGED <<catalog, indexes, meta, up, stale, damage>>
    BY DEF SnapshotTable
  <1>2. DOMAIN sess = Sessions /\ BatchOK(sess[s]) /\ SnapOK(sess[s]) /\ AllSchemas(catalog)
    BY DEF IInv, SessInv, SnapInv
  <1>3. PICK read : read = sess[s].read \cup {t}
    OBVIOUS
  <1>4. PICK snap : snap = IF t \in DOMAIN catalog THEN Put(sess[s].snap, t, catalog[t]) ELSE sess[s].snap
    OBVIOUS
  <1>5. PICK me : me = [sess[s] EXCEPT !.read = read, !.snap = snap,
                                       !.pc = IF read = Tables THEN "open" ELSE "snapshot"]
    OBVIOUS
  <1>6. sess' = [sess EXCEPT ![s] = me]
    BY <1>1, <1>2, <1>3, <1>4, <1>5, BatchFields DEF SnapshotTable, BatchOK
  <1>7. /\ DOMAIN me = DOMAIN NewBatch /\ me.touched = sess[s].touched /\ me.old = sess[s].old
        /\ me.read = read /\ me.snap = snap
        /\ me.pc = IF read = Tables THEN "open" ELSE "snapshot"
    BY <1>2, <1>5, BatchFields DEF BatchOK
  <1>8. DOMAIN sess[s].snap \subseteq sess[s].read /\ AllSchemas(sess[s].snap)
    BY <1>2 DEF BatchOK
  <1>9. /\ DOMAIN snap \subseteq read /\ AllSchemas(snap)
        /\ SameAt(snap, catalog, t)
        /\ \A x \in sess[s].read : SameAt(sess[s].snap, catalog, x) => SameAt(snap, catalog, x)
    <2>1. CASE t \in DOMAIN catalog
      <3>1. /\ DOMAIN snap = DOMAIN sess[s].snap \cup {t} /\ snap[t] = catalog[t]
            /\ \A x \in DOMAIN sess[s].snap : x # t => snap[x] = sess[s].snap[x]
        BY <1>4, <2>1 DEF Put
      <3> QED
        BY <1>1, <1>2, <1>3, <1>8, <2>1, <3>1 DEF AllSchemas, SameAt
    <2>2. CASE t \notin DOMAIN catalog
      BY <1>1, <1>3, <1>4, <1>8, <2>2 DEF SameAt
    <2> QED
      BY <2>1, <2>2
  <1>10. BatchOK(me)
    BY <1>7, <1>9 DEF BatchOK, Saving
  <1>11. SnapOK(me)
    <2>1. \A x \in sess[s].read \ sess[s].old : SameAt(sess[s].snap, catalog, x)
      BY <1>1, <1>2 DEF SnapOK, Saving
    <2>2. \A x \in read \ sess[s].old : SameAt(snap, catalog, x)
      BY <1>3, <1>9, <2>1
    <2> QED
      BY <1>7, <2>2 DEF SnapOK
  <1>12. /\ me.pc \notin DdlSteps /\ me.pc # "write" /\ sess[s].pc \notin DdlSteps /\ sess[s].pc # "write"
         /\ me.pc \notin {"ensure", "create", "add"}
         /\ me.pc \notin {"dropMem", "dropFile", "dropIdx"}
    BY <1>1, <1>7 DEF DdlSteps
  <1>13. DdlOK(me)
    BY <1>12 DEF DdlOK
  <1> QED
    BY <1>1, <1>6, <1>7, <1>10, <1>11, <1>12, <1>13, LocalStep

-----------------------------------------------------------------------------
(* DML: the schema is looked up, and the rows are written.                 *)

LEMMA StartInsertKeeps ==
    ASSUME IInv, NEW s \in Sessions, NEW t \in Tables, StartInsert(s, t)
    PROVE  IInv'
  <1>1. Ready(s) /\ UNCHANGED <<catalog, indexes, meta, up, stale, damage>>
    BY DEF StartInsert
  <1>2. sess[s].pc \in {"idle", "more"} /\ BatchOK(sess[s])
    BY <1>1 DEF Ready, IInv, SessInv
  <1>3. PICK me : me = [Statement(s, "writeRow", t) EXCEPT !.kind = "Insert", !.gen = catalog[t].gen]
    OBVIOUS
  <1>4. sess' = [sess EXCEPT ![s] = me]
    BY <1>3 DEF StartInsert
  <1>5. /\ DOMAIN me = DOMAIN NewBatch
        /\ me.pc = "writeRow" /\ me.table = t /\ me.touched = sess[s].touched
        /\ me.read = sess[s].read /\ me.old = sess[s].old /\ me.snap = sess[s].snap
    BY <1>2, <1>3, BatchFields DEF Statement, BatchOK
  <1>6. me.many = (sess[s].pc = "more")
    BY <1>2, <1>3, BatchFields DEF Statement, BatchOK
  <1>7. BatchOK(me)
    BY <1>2, <1>5, <1>6, StatementOK
  <1> QED
    BY <1>1, <1>4, <1>5, <1>7, StartKeeps

LEMMA StartScanKeeps ==
    ASSUME IInv, NEW s \in Sessions, NEW t \in Tables, NEW kind, NEW id, StartScan(s, t, kind, id)
    PROVE  IInv'
  <1>1. Ready(s) /\ UNCHANGED <<catalog, indexes, meta, up, stale, damage>>
    BY DEF StartScan
  <1>2. sess[s].pc \in {"idle", "more"} /\ BatchOK(sess[s])
    BY <1>1 DEF Ready, IInv, SessInv
  <1>3. PICK me : me = [Statement(s, "writeRow", t) EXCEPT !.kind = kind, !.gen = catalog[t].gen,
                                                            !.id = id, !.row = Rows(t)[id]]
    OBVIOUS
  <1>4. sess' = [sess EXCEPT ![s] = me]
    BY <1>3 DEF StartScan
  <1>5. /\ DOMAIN me = DOMAIN NewBatch
        /\ me.pc = "writeRow" /\ me.table = t /\ me.touched = sess[s].touched
        /\ me.read = sess[s].read /\ me.old = sess[s].old /\ me.snap = sess[s].snap
    BY <1>2, <1>3, BatchFields DEF Statement, BatchOK
  <1>6. me.many = (sess[s].pc = "more")
    BY <1>2, <1>3, BatchFields DEF Statement, BatchOK
  <1>7. BatchOK(me)
    BY <1>2, <1>5, <1>6, StatementOK
  <1> QED
    BY <1>1, <1>4, <1>5, <1>7, StartKeeps

LEMMA MissingKeeps ==
    ASSUME IInv, NEW s \in Sessions, NEW t \in Tables, Missing(s, t)
    PROVE  IInv'
  <1>1. /\ up /\ sess[s].pc = "more" /\ Fails(s) /\ UNCHANGED <<catalog, indexes, meta, up, damage>>
    BY DEF Missing, Ready
  <1>2. sess[s].pc # "write" /\ sess[s].pc \notin DdlSteps
    BY <1>1 DEF DdlSteps
  <1> QED
    BY <1>1, <1>2, FailsKeeps

LEMMA DmlKeeps ==
    ASSUME IInv, NEW s \in Sessions, InsertRow(s) \/ UpdateRow(s) \/ DeleteRow(s)
    PROVE  IInv'
  <1>1. up /\ sess[s].pc = "writeRow" /\ UNCHANGED <<catalog, indexes, meta, up>>
    BY DEF InsertRow, UpdateRow, DeleteRow
  <1>2. sess[s].pc # "write" /\ sess[s].pc \notin DdlSteps
    BY <1>1 DEF DdlSteps
  <1>3. /\ damage' = damage \/ damage' = damage \ {"logged"}
        /\ Fails(s) \/ (sess' = [sess EXCEPT ![s] = Done(s, FALSE)] /\ stale' = stale)
    <2>1. CASE InsertRow(s)
      BY <2>1 DEF InsertRow, Write
    <2>2. CASE UpdateRow(s)
      BY <2>2 DEF UpdateRow, Write
    <2>3. CASE DeleteRow(s)
      BY <2>3 DEF DeleteRow, Write
    <2> QED
      BY <2>1, <2>2, <2>3
  <1>4. "indexesLeft" \notin damage' => "indexesLeft" \notin damage
    BY <1>3
  <1>5. CASE Fails(s)
    BY <1>1, <1>2, <1>4, <1>5, FailsKeeps
  <1>6. CASE sess' = [sess EXCEPT ![s] = Done(s, FALSE)] /\ stale' = stale
    <2>1. BatchOK(sess[s])
      BY DEF IInv, SessInv
    <2>2. sess[s].many \/ sess[s].touched = {}
      BY <1>1, <2>1 DEF BatchOK
    <2> QED
      BY <1>1, <1>2, <1>4, <1>6, <2>2, DoneKeeps
  <1> QED
    BY <1>3, <1>5, <1>6

-----------------------------------------------------------------------------
(* The holder of a table's DDL lock changes the indexes of that table.     *)

LEMMA IndexStep ==
    ASSUME IInv, up, UNCHANGED <<catalog, meta, up, stale, damage>>,
           NEW s \in Sessions, NEW t, t = sess[s].table, sess[s].pc \in DdlSteps,
           NEW me, sess' = [sess EXCEPT ![s] = me], BatchOK(me), me.touched = sess[s].touched,
           \A x : x # t => NamesOf(x)' = NamesOf(x),
           \/ /\ me.pc = "add" /\ me.table = t /\ t \in DOMAIN catalog
              /\ "indexesLeft" \notin damage => NamesOf(t)' = catalog[t].idx \cup {me.index}
           \/ me.pc = "more" /\ t \notin DOMAIN catalog /\ NamesOf(t)' = {}
    PROVE  IInv'
  <1>1. /\ DOMAIN sess = Sessions /\ sess'[s] = me
        /\ \A u \in Sessions : u # s => sess'[u] = sess[u]
        /\ sess' = [u \in Sessions |-> sess'[u]]
    BY DEF IInv, SessInv
  <1>2. sess[s].pc # "write" /\ me.pc # "write" /\ me.pc \notin Saving /\ me.pc # "idle"
        /\ (me.pc \in DdlSteps => me.pc = "add" /\ me.table = t)
    BY DEF DdlSteps, Saving
  <1>3. \A u \in Sessions : u # s /\ sess[u].pc \in DdlSteps => sess[u].table # t
    BY DEF IInv, LockInv
  <1>4. SessInv'
    <2>1. \A u \in Sessions : BatchOK(sess[u])
      BY DEF IInv, SessInv
    <2>2. \A u \in Sessions : BatchOK(sess'[u])
      BY <1>1, <2>1
    <2>3. \A u \in Sessions : BatchOK(sess[u])'
      BY <2>2 DEF BatchOK, AllSchemas, NewBatch, NoRow, Saving
    <2> QED
      BY <1>1, <2>3 DEF IInv, SessInv, AllSchemas
  <1>5. SnapInv'
    BY <1>1, <1>2 DEF IInv, SnapInv, SnapOK, Saving
  <1>6. LockInv'
    <2> SUFFICES ASSUME NEW u \in Sessions, NEW v \in Sessions, u # v,
                        sess'[u].pc \in DdlSteps, sess'[v].pc \in DdlSteps,
                        sess'[u].table = sess'[v].table
                 PROVE  FALSE
      BY DEF LockInv, DdlSteps
    <2>1. CASE u # s /\ v # s
      BY <1>1, <2>1 DEF IInv, LockInv
    <2>2. CASE u = s
      BY <1>1, <1>2, <1>3, <2>2
    <2>3. CASE v = s
      BY <1>1, <1>2, <1>3, <2>3
    <2> QED
      BY <2>1, <2>2, <2>3
  <1>7. DdlInv'
    <2> SUFFICES ASSUME NEW u \in Sessions
                 PROVE  DdlOK(sess[u])'
      BY DEF DdlInv
    <2>1. CASE u = s
      BY <1>1, <2>1 DEF DdlOK
    <2>2. CASE u # s /\ sess[u].pc \in DdlSteps
      <3>1. DdlOK(sess[u]) /\ sess[u].table # t /\ sess'[u] = sess[u]
        BY <1>1, <1>3, <2>2 DEF IInv, DdlInv
      <3>2. NamesOf(sess[u].table)' = NamesOf(sess[u].table)
        <4>1. PICK x : x = sess[u].table
          OBVIOUS
        <4>2. NamesOf(x)' = NamesOf(x)
          BY <3>1, <4>1
        <4> QED
          BY <3>1, <4>1, <4>2 DEF NamesOf
      <3> QED
        BY <3>1, <3>2 DEF DdlOK
    <2>3. CASE u # s /\ sess[u].pc \notin DdlSteps
      BY <1>1, <2>3 DEF DdlOK, DdlSteps
    <2> QED
      BY <2>1, <2>2, <2>3
  <1>8. MetaCurrent'
    <2>1. MetaSame
      BY MetaByEntry DEF IInv
    <2>2. Truncated' <=> Truncated
      BY <1>1, <1>2 DEF Truncated
    <2>3. TouchedBy(Sessions) \subseteq TouchedBy(Sessions)'
      BY <1>1 DEF TouchedBy
    <2>4. MetaSame'
      BY <2>1, <2>2, <2>3 DEF MetaSame
    <2> QED
      BY <2>4, MetaByEntryNext
  <1>9. IndexesMatch'
    <2> SUFFICES ASSUME "indexesLeft" \notin damage', NEW x \in Tables, ~Locked(x)'
                 PROVE  NamesOf(x)' = IF x \in DOMAIN catalog THEN catalog[x].idx ELSE {}
      BY DEF IndexesMatch
    <2>1. \A v \in Sessions : ~(sess'[v].pc \in DdlSteps /\ sess'[v].table = x)
      BY DEF Locked, DdlSteps
    <2>2. CASE x = t
      <3>1. me.pc # "add"
        BY <1>1, <2>1, <2>2 DEF DdlSteps
      <3> QED
        BY <2>2, <3>1
    <2>3. CASE x # t
      <3>1. ~Locked(x)
        BY <1>1, <2>1, <2>3 DEF Locked
      <3> QED
        BY <2>3, <3>1 DEF IInv, IndexesMatch
    <2> QED
      BY <2>2, <2>3
  <1> QED
    BY <1>4, <1>5, <1>6, <1>7, <1>8, <1>9 DEF IInv

LEMMA CreateIndexTreeKeeps ==
    ASSUME IInv, NEW s \in Sessions, CreateIndexTree(s)
    PROVE  IInv'
  <1>1. /\ up /\ sess[s].pc = "create" /\ UNCHANGED <<catalog, meta, up, damage>>
    BY DEF CreateIndexTree
  <1>2. DOMAIN sess = Sessions /\ BatchOK(sess[s]) /\ DdlOK(sess[s])
    BY DEF IInv, SessInv, DdlInv
  <1>3. PICK t : t = sess[s].table
    OBVIOUS
  <1>4. t \in DOMAIN catalog /\ ("indexesLeft" \notin damage => NamesOf(t) = catalog[t].idx)
    BY <1>1, <1>2, <1>3 DEF DdlOK
  <1>5. CASE sess[s].index \in NamesOf(t)
    <2>1. Fails(s) /\ indexes' = indexes
      BY <1>3, <1>5 DEF CreateIndexTree
    <2>2. "indexesLeft" \notin damage => NamesAgree(sess[s].table)
      BY <1>3, <1>4 DEF NamesAgree
    <2> QED
      BY <1>1, <2>1, <2>2, FailsKeeps
  <1>6. CASE sess[s].index \notin NamesOf(t)
    <2>1. /\ indexes' = Put(indexes, t, NamesOf(t) \cup {sess[s].index})
          /\ sess' = [sess EXCEPT ![s].pc = "add"] /\ stale' = stale
      BY <1>3, <1>6 DEF CreateIndexTree
    <2>2. PICK me : me = [sess[s] EXCEPT !.pc = "add"]
      OBVIOUS
    <2>3. sess' = [sess EXCEPT ![s] = me]
      BY <2>1, <2>2
    <2>4. /\ DOMAIN me = DOMAIN NewBatch
          /\ me.pc = "add" /\ me.table = t /\ me.touched = sess[s].touched
          /\ me.read = sess[s].read /\ me.old = sess[s].old /\ me.snap = sess[s].snap
          /\ me.index = sess[s].index
      BY <1>2, <1>3, <2>2, BatchFields DEF BatchOK
    <2>5. BatchOK(me)
      BY <1>1, <1>2, <2>4 DEF BatchOK, Saving
    <2>6. \A x : x # t => NamesOf(x)' = NamesOf(x)
      BY <2>1 DEF Put, NamesOf
    <2>7. NamesOf(t)' = NamesOf(t) \cup {me.index}
      BY <2>1, <2>4 DEF Put, NamesOf
    <2>8. sess[s].pc \in DdlSteps
      BY <1>1 DEF DdlSteps
    <2>9. /\ me.pc = "add" /\ me.table = t /\ t \in DOMAIN catalog /\ me.touched = sess[s].touched
          /\ "indexesLeft" \notin damage => NamesOf(t)' = catalog[t].idx \cup {me.index}
      BY <1>4, <2>4, <2>7
    <2>10. UNCHANGED <<catalog, meta, up, stale, damage>> /\ up
      BY <1>1, <2>1
    <2> QED
      BY <1>3, <2>3, <2>5, <2>6, <2>8, <2>9, <2>10, IndexStep
  <1> QED
    BY <1>5, <1>6

LEMMA DropIndexesKeeps ==
    ASSUME IInv, NEW s \in Sessions, DropIndexes(s)
    PROVE  IInv'
  <1>1. /\ up /\ sess[s].pc = "dropIdx" /\ UNCHANGED <<catalog, meta, up, stale, damage>>
        /\ indexes' = Without(indexes, sess[s].table)
        /\ sess' = [sess EXCEPT ![s] = Done(s, TRUE)]
    BY DEF DropIndexes
  <1>2. PICK t : t = sess[s].table
    OBVIOUS
  <1>3. t \notin DOMAIN catalog
    BY <1>1, <1>2 DEF IInv, DdlInv, DdlOK
  <1>4. PICK me : me = Done(s, TRUE)
    OBVIOUS
  <1>5. BatchOK(me) /\ me.pc = "more" /\ me.touched = sess[s].touched
    BY <1>4, DoneOK
  <1>6. NamesOf(t)' = {} /\ \A x : x # t => NamesOf(x)' = NamesOf(x)
    BY <1>1, <1>2 DEF NamesOf, Without, Restrict
  <1>7. sess[s].pc \in DdlSteps /\ sess' = [sess EXCEPT ![s] = me]
    BY <1>1, <1>4 DEF DdlSteps
  <1> QED
    BY <1>1, <1>2, <1>3, <1>5, <1>6, <1>7, IndexStep

-----------------------------------------------------------------------------
(* A statement changes the catalog entry of a table: those that have read  *)
(* it for persist have an old one, and the batch still has to persist it.  *)

GoesOnWith(s, t, me) ==
    sess' = [u \in Sessions |->
                IF u = s THEN me
                ELSE IF t \in sess[u].read THEN [sess[u] EXCEPT !.old = @ \cup {t}]
                ELSE sess[u]]

ChangesOnly(t) == AllSchemas(catalog') /\ \A x : x # t => SameAt(catalog', catalog, x)

AloneOn(s, t) == \A u \in Sessions : u # s /\ sess[u].pc \in DdlSteps => sess[u].table # t

LEMMA TouchStep ==
    ASSUME IInv, up, UNCHANGED <<indexes, meta, up, stale>>,
           NEW s \in Sessions, NEW t, NEW me, GoesOnWith(s, t, me),
           BatchOK(me), me.pc \notin Saving, sess[s].pc \notin Saving,
           me.touched = sess[s].touched \cup {t},
           ChangesOnly(t), AloneOn(s, t),
           sess[s].pc \in DdlSteps => sess[s].table = t,
           "indexesLeft" \in damage' <=> "indexesLeft" \in damage,
           \/ me.pc \in DdlSteps /\ me.table = t /\ DdlOK(me)'
           \/ /\ me.pc = "more"
              /\ "indexesLeft" \notin damage' =>
                    NamesOf(t) = IF t \in DOMAIN catalog' THEN catalog'[t].idx ELSE {}
    PROVE  IInv'
  <1>1. /\ DOMAIN sess = Sessions /\ sess'[s] = me
        /\ \A u \in Sessions : u # s => sess'[u] = IF t \in sess[u].read
                                                   THEN [sess[u] EXCEPT !.old = @ \cup {t}]
                                                   ELSE sess[u]
        /\ sess' = [u \in Sessions |-> sess'[u]]
    BY DEF IInv, SessInv, GoesOnWith
  <1>2. \A u \in Sessions : BatchOK(sess[u])
    BY DEF IInv, SessInv
  <1>3. ASSUME NEW u \in Sessions, u # s
        PROVE  /\ sess'[u].pc = sess[u].pc /\ sess'[u].table = sess[u].table
               /\ sess'[u].index = sess[u].index /\ sess'[u].touched = sess[u].touched
               /\ sess'[u].read = sess[u].read /\ sess'[u].snap = sess[u].snap
               /\ DOMAIN sess'[u] = DOMAIN NewBatch
               /\ t \in sess[u].read => sess'[u].old = sess[u].old \cup {t} /\ sess[u].pc \in Saving
               /\ t \notin sess[u].read => sess'[u] = sess[u]
    <2>1. DOMAIN sess[u] = DOMAIN NewBatch /\ (sess[u].pc \notin Saving => sess[u].read = {})
      BY <1>2 DEF BatchOK
    <2>2. CASE t \in sess[u].read
      <3>1. sess'[u] = [sess[u] EXCEPT !.old = @ \cup {t}]
        BY <1>1, <1>3, <2>2
      <3> QED
        BY <2>1, <2>2, <3>1, BatchFields
    <2>3. CASE t \notin sess[u].read
      BY <1>1, <1>3, <2>1, <2>3
    <2> QED
      BY <2>2, <2>3
  <1>4. SessInv'
    <2>1. ASSUME NEW u \in Sessions
          PROVE  BatchOK(sess'[u])
      <3>1. CASE u = s \/ t \notin sess[u].read
        BY <1>1, <1>2, <1>3, <3>1
      <3>2. CASE u # s /\ t \in sess[u].read
        <4>1. sess[u].pc \in Saving /\ BatchOK(sess[u])
          BY <1>2, <1>3, <3>2
        <4> QED
          BY <1>3, <3>2, <4>1 DEF BatchOK, Saving
      <3> QED
        BY <3>1, <3>2
    <2>2. \A u \in Sessions : BatchOK(sess[u])'
      BY <2>1 DEF BatchOK, AllSchemas, NewBatch, NoRow, Saving
    <2> QED
      BY <1>1, <2>2 DEF IInv, SessInv, AllSchemas, ChangesOnly
  <1>5. SnapInv'
    <2> SUFFICES ASSUME NEW u \in Sessions, sess'[u].pc \in Saving,
                        NEW x \in sess'[u].read \ sess'[u].old
                 PROVE  SameAt(sess'[u].snap, catalog', x)
      BY DEF SnapInv, SnapOK, SameAt, Saving
    <2>1. u # s
      BY <1>1
    <2>2. x \in sess[u].read \ sess[u].old /\ x # t /\ sess[u].pc \in Saving
      BY <1>3, <2>1
    <2>3. SameAt(sess[u].snap, catalog, x)
      BY <2>2 DEF IInv, SnapInv, SnapOK
    <2>4. SameAt(catalog', catalog, x)
      BY <2>2 DEF ChangesOnly
    <2> QED
      BY <1>3, <2>1, <2>3, <2>4 DEF SameAt
  <1>6. LockInv'
    <2> SUFFICES ASSUME NEW u \in Sessions, NEW v \in Sessions, u # v,
                        sess'[u].pc \in DdlSteps, sess'[v].pc \in DdlSteps,
                        sess'[u].table = sess'[v].table
                 PROVE  FALSE
      BY DEF LockInv, DdlSteps
    <2>1. CASE u # s /\ v # s
      BY <1>3, <2>1 DEF IInv, LockInv
    <2>2. me.pc \in DdlSteps => me.table = t
      BY DEF DdlSteps
    <2>3. ASSUME NEW w \in Sessions, w # s, sess'[w].pc \in DdlSteps
          PROVE  sess'[w].table # t
      BY <1>3, <2>3 DEF AloneOn
    <2>4. CASE u = s
      BY <1>1, <2>2, <2>3, <2>4
    <2>5. CASE v = s
      BY <1>1, <2>2, <2>3, <2>5
    <2> QED
      BY <2>1, <2>4, <2>5
  <1>7. \A x : NamesOf(x)' = NamesOf(x)
    BY DEF NamesOf
  <1>8. DdlInv'
    <2> SUFFICES ASSUME NEW u \in Sessions
                 PROVE  DdlOK(sess[u])'
      BY DEF DdlInv
    <2>1. CASE u = s /\ me.pc \in DdlSteps
      <3>1. DdlOK(me)' /\ sess'[u] = me
        BY <1>1, <2>1 DEF DdlSteps
      <3> QED
        BY <3>1 DEF DdlOK, NamesOf
    <2>2. CASE u = s /\ me.pc \notin DdlSteps
      BY <1>1, <2>2 DEF DdlOK, DdlSteps
    <2>3. CASE u # s /\ sess[u].pc \in DdlSteps
      <3>1. DdlOK(sess[u]) /\ SameAt(catalog', catalog, sess[u].table)
        BY <2>3 DEF IInv, DdlInv, ChangesOnly, AloneOn
      <3>2. /\ sess'[u].pc = sess[u].pc /\ sess'[u].table = sess[u].table
            /\ sess'[u].index = sess[u].index
        BY <1>3, <2>3
      <3>3. NamesOf(sess[u].table)' = NamesOf(sess[u].table)
        BY <3>2 DEF NamesOf
      <3> QED
        BY <3>1, <3>2, <3>3 DEF DdlOK, SameAt
    <2>4. CASE u # s /\ sess[u].pc \notin DdlSteps
      BY <1>3, <2>4 DEF DdlOK, DdlSteps
    <2> QED
      BY <2>1, <2>2, <2>3, <2>4
  <1>9. MetaCurrent'
    <2>1. MetaSame
      BY MetaByEntry DEF IInv
    <2>2. Truncated' <=> Truncated
      BY <1>1, <1>3 DEF Truncated, Saving
    <2>3. \A u \in Sessions : sess[u].touched \subseteq sess'[u].touched
      BY <1>1, <1>3
    <2>4. TouchedBy(Sessions) \cup {t} \subseteq TouchedBy(Sessions)'
      BY <1>1, <2>3 DEF TouchedBy
    <2>5. MetaSame'
      BY <2>1, <2>2, <2>4 DEF MetaSame, SameAt, ChangesOnly
    <2> QED
      BY <2>5, MetaByEntryNext
  <1>10. IndexesMatch'
    <2> SUFFICES ASSUME "indexesLeft" \notin damage', NEW x \in Tables, ~Locked(x)'
                 PROVE  NamesOf(x)' = IF x \in DOMAIN catalog' THEN catalog'[x].idx ELSE {}
      BY DEF IndexesMatch
    <2>1. \A v \in Sessions : ~(sess'[v].pc \in DdlSteps /\ sess'[v].table = x)
      BY DEF Locked, DdlSteps
    <2>2. CASE x = t
      <3>1. me.pc \notin DdlSteps \/ me.table # t
        BY <1>1, <2>1, <2>2
      <3> QED
        BY <1>7, <2>2, <3>1
    <2>3. CASE x # t
      <3>1. ~Locked(x)
        BY <1>3, <2>1, <2>3 DEF Locked
      <3>2. NamesOf(x) = IF x \in DOMAIN catalog THEN catalog[x].idx ELSE {}
        BY <3>1 DEF IInv, IndexesMatch
      <3>3. SameAt(catalog', catalog, x)
        BY <2>3 DEF ChangesOnly
      <3> QED
        BY <1>7, <3>2, <3>3 DEF SameAt
    <2> QED
      BY <2>2, <2>3
  <1> QED
    BY <1>4, <1>5, <1>6, <1>8, <1>9, <1>10 DEF IInv

(* A statement that finds the DDL lock of its table free.                  *)
LEMMA LockTaken ==
    ASSUME IInv, NEW s \in Sessions, NEW t, Ready(s), ~Locked(t)
    PROVE  /\ up /\ sess[s].pc \notin Saving /\ sess[s].pc # "write" /\ sess[s].pc \notin DdlSteps
           /\ sess[s].pc \in {"idle", "more"} /\ BatchOK(sess[s])
           /\ AloneOn(s, t)
  BY DEF IInv, SessInv, Ready, Locked, Saving, DdlSteps, AloneOn

LEMMA CreateTableKeeps ==
    ASSUME IInv, NEW s \in Sessions, NEW t \in Tables, NEW index, CreateTable(s, t, index)
    PROVE  IInv'
  <1>1. Ready(s) /\ ~Locked(t) /\ UNCHANGED <<indexes, meta, up, damage>>
    BY DEF CreateTable
  <1>2. /\ up /\ sess[s].pc \notin Saving /\ sess[s].pc # "write" /\ sess[s].pc \notin DdlSteps
        /\ sess[s].pc \in {"idle", "more"} /\ BatchOK(sess[s])
        /\ AloneOn(s, t)
    BY <1>1, LockTaken
  <1>3. CASE t \in DOMAIN catalog
    <2>1. Fails(s) /\ catalog' = catalog
      BY <1>3 DEF CreateTable
    <2> QED
      BY <1>1, <1>2, <2>1, FailsKeeps
  <1>4. CASE t \notin DOMAIN catalog
    <2>1. PICK schema : schema = [gen |-> stmts + 1, idx |-> {}]
      OBVIOUS
    <2>2. PICK b : b = [Statement(s, "ensure", t) EXCEPT !.index = index]
      OBVIOUS
    <2>3. catalog' = Put(catalog, t, schema) /\ Touch(s, t, b) /\ stale' = stale
      BY <1>4, <2>1, <2>2 DEF CreateTable
    <2>4. PICK me : me = [b EXCEPT !.touched = @ \cup {t}]
      OBVIOUS
    <2>5. /\ DOMAIN me = DOMAIN NewBatch
          /\ me.pc = "ensure" /\ me.table = t /\ me.touched = sess[s].touched \cup {t}
          /\ me.read = sess[s].read /\ me.old = sess[s].old /\ me.snap = sess[s].snap
      BY <1>2, <2>2, <2>4, BatchFields DEF Statement, BatchOK
    <2>6. BatchOK(me) /\ me.pc \notin Saving /\ me.pc \in DdlSteps
      BY <1>2, <2>5 DEF BatchOK, Saving, DdlSteps
    <2>7. /\ DOMAIN catalog' = DOMAIN catalog \cup {t} /\ catalog'[t] = schema
          /\ \A x \in DOMAIN catalog : catalog'[x] = catalog[x]
      BY <1>4, <2>3 DEF Put
    <2>8. "idx" \in DOMAIN schema /\ schema.idx = {}
      BY <2>1
    <2>9. ChangesOnly(t)
      BY <2>7, <2>8 DEF IInv, SessInv, AllSchemas, SameAt, ChangesOnly
    <2>10. "indexesLeft" \notin damage => NamesOf(t)' = {}
      BY <1>1, <1>2, <1>4 DEF IInv, IndexesMatch, NamesOf
    <2>11. DdlOK(me)'
      BY <1>1, <2>5, <2>7, <2>8, <2>10 DEF DdlOK, NamesOf
    <2>12. GoesOnWith(s, t, me)
      BY <2>3, <2>4 DEF Touch, GoesOnWith
    <2>13. UNCHANGED <<indexes, meta, up, stale>> /\ ("indexesLeft" \in damage' <=> "indexesLeft" \in damage)
      BY <1>1, <2>3
    <2> QED
      BY <1>2, <2>5, <2>6, <2>9, <2>11, <2>12, <2>13, TouchStep
  <1> QED
    BY <1>3, <1>4

LEMMA DropTableKeeps ==
    ASSUME IInv, NEW s \in Sessions, NEW t \in Tables, DropTable(s, t)
    PROVE  IInv'
  <1>1. Ready(s) /\ ~Locked(t) /\ UNCHANGED <<indexes, meta, up>>
    BY DEF DropTable
  <1>2. /\ up /\ sess[s].pc \notin Saving /\ sess[s].pc # "write" /\ sess[s].pc \notin DdlSteps
        /\ sess[s].pc \in {"idle", "more"} /\ BatchOK(sess[s])
        /\ AloneOn(s, t)
    BY <1>1, LockTaken
  <1>3. CASE t \notin DOMAIN catalog
    <2>1. Fails(s) /\ catalog' = catalog /\ damage' = damage
      BY <1>3 DEF DropTable
    <2> QED
      BY <1>1, <1>2, <2>1, FailsKeeps
  <1>4. CASE t \in DOMAIN catalog
    <2>1. PICK b : b = Statement(s, "dropMem", t)
      OBVIOUS
    <2>2. /\ catalog' = Without(catalog, t) /\ Touch(s, t, b) /\ stale' = stale
          /\ damage' = damage \cup (IF InFlight(t) THEN {"overtaken"} ELSE {})
                              \cup (IF Logged(t) THEN {"logged"} ELSE {})
      BY <1>4, <2>1 DEF DropTable
    <2>3. PICK me : me = [b EXCEPT !.touched = @ \cup {t}]
      OBVIOUS
    <2>4. /\ DOMAIN me = DOMAIN NewBatch
          /\ me.pc = "dropMem" /\ me.table = t /\ me.touched = sess[s].touched \cup {t}
          /\ me.read = sess[s].read /\ me.old = sess[s].old /\ me.snap = sess[s].snap
      BY <1>2, <2>1, <2>3, BatchFields DEF Statement, BatchOK
    <2>5. BatchOK(me) /\ me.pc \notin Saving /\ me.pc \in DdlSteps
      BY <1>2, <2>4 DEF BatchOK, Saving, DdlSteps
    <2>6. /\ DOMAIN catalog' = DOMAIN catalog \ {t}
          /\ \A x \in DOMAIN catalog \ {t} : catalog'[x] = catalog[x]
      BY <2>2 DEF Without, Restrict
    <2>7. ChangesOnly(t)
      BY <2>6 DEF IInv, SessInv, AllSchemas, SameAt, ChangesOnly
    <2>8. DdlOK(me)'
      BY <2>4, <2>6 DEF DdlOK
    <2>9. GoesOnWith(s, t, me)
      BY <2>2, <2>3 DEF Touch, GoesOnWith
    <2>10. UNCHANGED <<indexes, meta, up, stale>> /\ ("indexesLeft" \in damage' <=> "indexesLeft" \in damage)
      BY <1>1, <2>2
    <2> QED
      BY <1>2, <2>4, <2>5, <2>7, <2>8, <2>9, <2>10, TouchStep
  <1> QED
    BY <1>3, <1>4

LEMMA AddIndexKeeps ==
    ASSUME IInv, NEW s \in Sessions, AddIndex(s)
    PROVE  IInv'
  <1>1. up /\ sess[s].pc = "add" /\ UNCHANGED <<indexes, meta, up, damage>>
    BY DEF AddIndex
  <1>2. DOMAIN sess = Sessions /\ BatchOK(sess[s]) /\ DdlOK(sess[s]) /\ AllSchemas(catalog)
    BY DEF IInv, SessInv, DdlInv
  <1>3. PICK t : t = sess[s].table
    OBVIOUS
  <1>4. /\ t \in DOMAIN catalog
        /\ "indexesLeft" \notin damage => NamesOf(t) = catalog[t].idx \cup {sess[s].index}
    BY <1>1, <1>2, <1>3 DEF DdlOK
  <1>5. sess[s].pc \in DdlSteps /\ sess[s].pc \notin Saving /\ sess[s].pc # "write"
    BY <1>1 DEF DdlSteps, Saving
  <1>6. CASE sess[s].index \in catalog[t].idx
    <2>1. Fails(s) /\ catalog' = catalog
      BY <1>3, <1>6 DEF AddIndex
    <2>2. "indexesLeft" \notin damage => NamesAgree(sess[s].table)
      BY <1>3, <1>4, <1>6 DEF NamesAgree
    <2> QED
      BY <1>1, <1>5, <2>1, <2>2, FailsKeeps
  <1>7. CASE sess[s].index \notin catalog[t].idx
    <2>1. PICK b : b = Done(s, TRUE)
      OBVIOUS
    <2>2. /\ catalog' = [catalog EXCEPT ![t].idx = @ \cup {sess[s].index}]
          /\ Touch(s, t, b) /\ stale' = stale
      BY <1>3, <1>7, <2>1 DEF AddIndex
    <2>3. PICK me : me = [b EXCEPT !.touched = @ \cup {t}]
      OBVIOUS
    <2>4. /\ DOMAIN me = DOMAIN NewBatch
          /\ me.pc = "more" /\ me.touched = sess[s].touched \cup {t}
          /\ me.read = {} /\ me.old = {}
      BY <2>1, <2>3 DEF Done, NewBatch
    <2>5. me.snap = NewBatch.snap
      BY <2>1, <2>3 DEF Done, NewBatch
    <2>6. me.last
      BY <2>1, <2>3 DEF Done, NewBatch
    <2>7. DOMAIN me.snap \subseteq me.read /\ AllSchemas(me.snap)
      <3>1. DOMAIN NewBatch.snap = {}
        BY DEF NewBatch
      <3> QED
        BY <2>5, <3>1 DEF AllSchemas
    <2>8. BatchOK(me) /\ me.pc \notin Saving
      BY <2>4, <2>6, <2>7 DEF BatchOK, Saving
    <2>9. /\ DOMAIN catalog' = DOMAIN catalog /\ catalog'[t] = [catalog[t] EXCEPT !.idx = @ \cup {sess[s].index}]
          /\ \A x \in DOMAIN catalog : x # t => catalog'[x] = catalog[x]
      BY <1>4, <2>2
    <2>10. DOMAIN catalog'[t] = DOMAIN catalog[t] /\ catalog'[t].idx = catalog[t].idx \cup {sess[s].index}
      BY <1>2, <1>4, <2>9 DEF AllSchemas
    <2>11. ChangesOnly(t)
      BY <1>2, <2>9, <2>10 DEF AllSchemas, SameAt, ChangesOnly
    <2>12. "indexesLeft" \notin damage' =>
               NamesOf(t) = IF t \in DOMAIN catalog' THEN catalog'[t].idx ELSE {}
      BY <1>1, <1>4, <2>9, <2>10
    <2>13. AloneOn(s, t)
      BY <1>3, <1>5 DEF IInv, LockInv, AloneOn
    <2>14. GoesOnWith(s, t, me)
      BY <2>2, <2>3 DEF Touch, GoesOnWith
    <2>15. UNCHANGED <<indexes, meta, up, stale>> /\ ("indexesLeft" \in damage' <=> "indexesLeft" \in damage)
      BY <1>1, <2>2
    <2> QED
      BY <1>1, <1>3, <1>5, <2>4, <2>8, <2>11, <2>12, <2>13, <2>14, <2>15, TouchStep
  <1> QED
    BY <1>6, <1>7

-----------------------------------------------------------------------------
(* persist opens and writes meta.bin.                                      *)

LEMMA MetaStep ==
    ASSUME IInv, up, UNCHANGED <<catalog, indexes, up, damage>>,
           NEW s \in Sessions, NEW me, sess' = [sess EXCEPT ![s] = me], BatchOK(me), SnapOK(me),
           sess[s].pc \notin DdlSteps, me.pc \notin DdlSteps,
           AllSchemas(meta'), MetaSame'
    PROVE  IInv'
  <1>1. /\ DOMAIN sess = Sessions /\ sess'[s] = me
        /\ \A u \in Sessions : u # s => sess'[u] = sess[u]
        /\ sess' = [u \in Sessions |-> sess'[u]]
    BY DEF IInv, SessInv
  <1>2. SessInv'
    <2>1. \A u \in Sessions : BatchOK(sess[u])
      BY DEF IInv, SessInv
    <2>2. \A u \in Sessions : BatchOK(sess'[u])
      BY <1>1, <2>1
    <2>3. \A u \in Sessions : BatchOK(sess[u])'
      BY <2>2 DEF BatchOK, AllSchemas, NewBatch, NoRow, Saving
    <2> QED
      BY <1>1, <2>3 DEF IInv, SessInv, AllSchemas
  <1>3. SnapInv'
    BY <1>1 DEF IInv, SnapInv, SnapOK
  <1>4. LockInv'
    BY <1>1 DEF IInv, LockInv, DdlSteps
  <1>5. DdlInv'
    <2> SUFFICES ASSUME NEW u \in Sessions
                 PROVE  DdlOK(sess[u])'
      BY DEF DdlInv
    <2>1. CASE u = s
      BY <1>1, <2>1 DEF DdlOK, DdlSteps
    <2>2. CASE u # s
      BY <1>1, <2>2, NamesSame DEF IInv, DdlInv, DdlOK
    <2> QED
      BY <2>1, <2>2
  <1>6. MetaCurrent'
    BY MetaByEntryNext
  <1>7. IndexesMatch'
    <2> SUFFICES ASSUME "indexesLeft" \notin damage', NEW t \in Tables, ~Locked(t)'
                 PROVE  NamesOf(t)' = IF t \in DOMAIN catalog' THEN catalog'[t].idx ELSE {}
      BY DEF IndexesMatch
    <2>1. ~Locked(t)
      BY <1>1 DEF Locked, DdlSteps
    <2>2. NamesAgree(t)
      BY <2>1 DEF IInv, IndexesMatch, NamesAgree
    <2> QED
      BY <2>2, NamesSame
  <1> QED
    BY <1>2, <1>3, <1>4, <1>5, <1>6, <1>7 DEF IInv

LEMMA OpenMetaKeeps ==
    ASSUME IInv, NEW s \in Sessions, OpenMeta(s)
    PROVE  IInv'
  <1>1. up /\ sess[s].pc = "open" /\ UNCHANGED <<catalog, indexes, up, damage>>
    BY DEF OpenMeta
  <1>2. DOMAIN sess = Sessions /\ BatchOK(sess[s]) /\ SnapOK(sess[s])
    BY DEF IInv, SessInv, SnapInv
  <1>3. sess[s].pc \notin DdlSteps /\ sess[s].pc # "write"
    BY <1>1 DEF DdlSteps
  <1>4. CASE Fails(s) /\ meta' = meta
    BY <1>1, <1>3, <1>4, FailsKeeps
  <1>5. CASE meta' = <<>> /\ sess' = [sess EXCEPT ![s].pc = "write"] /\ stale' = stale
    <2>1. PICK me : me = [sess[s] EXCEPT !.pc = "write"]
      OBVIOUS
    <2>2. sess' = [sess EXCEPT ![s] = me]
      BY <1>5, <2>1
    <2>3. /\ DOMAIN me = DOMAIN NewBatch /\ me.pc = "write" /\ me.touched = sess[s].touched
          /\ me.read = sess[s].read /\ me.old = sess[s].old /\ me.snap = sess[s].snap
      BY <1>2, <2>1, BatchFields DEF BatchOK
    <2>4. BatchOK(me) /\ SnapOK(me)
      BY <1>1, <1>2, <2>3 DEF BatchOK, SnapOK, Saving
    <2>5. me.pc \notin DdlSteps
      BY <2>3 DEF DdlSteps
    <2>6. AllSchemas(meta')
      BY <1>5 DEF AllSchemas
    <2>7. MetaSame'
      <3>1. sess'[s].pc = "write"
        BY <1>2, <2>2, <2>3
      <3> QED
        BY <3>1 DEF MetaSame, Truncated
    <2> QED
      BY <1>1, <1>3, <2>2, <2>4, <2>5, <2>6, <2>7, MetaStep
  <1> QED
    BY <1>4, <1>5 DEF OpenMeta

(* What is written was read entry by entry while others changed the        *)
(* catalog: an entry that is old is stale, or its batch will persist it.   *)
LEMMA WriteMetaKeeps ==
    ASSUME IInv, NEW s \in Sessions, WriteMeta(s) \/ WriteMetaFails(s)
    PROVE  IInv'
  <1>1. /\ up /\ sess[s].pc = "write" /\ UNCHANGED <<catalog, indexes, up, damage>>
        /\ sess' = [sess EXCEPT ![s] = NewBatch]
    BY DEF WriteMeta, WriteMetaFails
  <1>2. DOMAIN sess = Sessions /\ BatchOK(sess[s]) /\ SnapOK(sess[s]) /\ AllSchemas(meta)
    BY DEF IInv, SessInv, SnapInv
  <1>3. PICK me : me = NewBatch
    OBVIOUS
  <1>4. BatchOK(me) /\ me.pc = "idle" /\ me.touched = {}
    BY <1>3, NewBatchOK
  <1>5. SnapOK(me) /\ me.pc \notin DdlSteps /\ sess[s].pc \notin DdlSteps
    BY <1>1, <1>4 DEF SnapOK, Saving, DdlSteps
  <1>6. sess' = [sess EXCEPT ![s] = me]
    BY <1>1, <1>3
  <1>7. AllSchemas(meta') /\ MetaSame'
    <2>1. CASE WriteMeta(s)
      <3>1. meta' = sess[s].snap /\ stale' = sess[s].old \ TouchedBy(Sessions \ {s})
        BY <2>1 DEF WriteMeta
      <3>2. AllSchemas(meta')
        BY <1>2, <3>1 DEF BatchOK
      <3>3. \A u \in Sessions \ {s} : sess'[u] = sess[u]
        BY <1>2, <1>6
      <3>4. TouchedBy(Sessions \ {s}) \subseteq TouchedBy(Sessions)'
        <4>1. ASSUME NEW x, NEW u \in Sessions \ {s}, x \in sess[u].touched
              PROVE  x \in TouchedBy(Sessions)'
          <5>1. x \in sess'[u].touched
            BY <3>3, <4>1
          <5> QED
            BY <5>1 DEF TouchedBy
        <4> QED
          BY <4>1 DEF TouchedBy
      <3>5. \A x \in Tables \ sess[s].old : SameAt(sess[s].snap, catalog, x)
        BY <1>1, <1>2 DEF BatchOK, SnapOK, Saving
      <3>6. \A x \in Tables \ (stale' \cup TouchedBy(Sessions)') : SameAt(meta', catalog', x)
        BY <1>1, <3>1, <3>4, <3>5
      <3>7. MetaSame'
        BY <3>6 DEF MetaSame, SameAt
      <3> QED
        BY <3>2, <3>7
    <2>2. CASE WriteMetaFails(s)
      BY <1>2, <2>2 DEF WriteMetaFails, MetaSame
    <2> QED
      BY <2>1, <2>2
  <1> QED
    BY <1>1, <1>4, <1>5, <1>6, <1>7, MetaStep

-----------------------------------------------------------------------------
(* Checkpoints of a backup, kills and restarts.                            *)

LEMMA Unseen ==
    ASSUME IInv, UNCHANGED <<catalog, indexes, meta, up, sess, stale>>,
           "indexesLeft" \in damage' <=> "indexesLeft" \in damage
    PROVE  IInv'
  <1>1. SessInv' /\ SnapInv'
    BY DEF IInv, SessInv, SnapInv, SnapOK, BatchOK, AllSchemas, NewBatch, NoRow, Saving, SameAt
  <1>2. LockInv'
    BY DEF IInv, LockInv, DdlSteps
  <1>3. DdlInv'
    BY NamesSame DEF IInv, DdlInv, DdlOK
  <1>4. MetaCurrent'
    BY DEF IInv, MetaCurrent, Truncated, TouchedBy, Restrict
  <1>5. IndexesMatch'
    BY DEF IInv, IndexesMatch, Locked, DdlSteps, NamesOf
  <1> QED
    BY <1>1, <1>2, <1>3, <1>4, <1>5 DEF IInv

LEMMA KillKeeps ==
    ASSUME IInv, Kill
    PROVE  IInv'
  <1>1. ~up' /\ catalog' = <<>> /\ meta' = meta /\ sess' = [s \in Sessions |-> NewBatch]
    BY DEF Kill
  <1>2. \A s \in Sessions : BatchOK(sess'[s]) /\ sess'[s].pc = "idle"
    BY <1>1, NewBatchOK
  <1>3. SessInv'
    <2>1. \A s \in Sessions : BatchOK(sess[s])'
      BY <1>2 DEF BatchOK, AllSchemas, NewBatch, NoRow, Saving
    <2>2. AllSchemas(catalog') /\ AllSchemas(meta')
      BY <1>1 DEF AllSchemas, IInv, SessInv
    <2> QED
      BY <1>1, <1>2, <2>1, <2>2 DEF SessInv, AllSchemas
  <1>4. SnapInv' /\ LockInv' /\ DdlInv'
    BY <1>2 DEF SnapInv, SnapOK, LockInv, DdlInv, DdlOK, Saving, DdlSteps
  <1>5. MetaCurrent' /\ IndexesMatch'
    BY <1>1 DEF MetaCurrent, IndexesMatch
  <1> QED
    BY <1>3, <1>4, <1>5 DEF IInv

(* Database::open rebuilds the catalog and the indexes from meta.bin.      *)
LEMMA OpenKeeps ==
    ASSUME IInv, Open
    PROVE  IInv'
  <1>1. /\ ~up /\ catalog' = meta
        /\ indexes' = [t \in {t \in DOMAIN meta : meta[t].idx # {}} |-> meta[t].idx]
        /\ UNCHANGED <<meta, sess>>
    BY DEF Open
  <1>2. \A s \in Sessions : BatchOK(sess[s]) /\ sess[s].pc = "idle"
    BY <1>1 DEF IInv, SessInv
  <1>3. SessInv'
    <2>1. \A s \in Sessions : BatchOK(sess[s])'
      BY <1>1, <1>2 DEF BatchOK, AllSchemas, NewBatch, NoRow, Saving
    <2> QED
      BY <1>1, <1>2, <2>1 DEF IInv, SessInv, AllSchemas
  <1>4. SnapInv' /\ LockInv' /\ DdlInv'
    BY <1>1, <1>2 DEF SnapInv, SnapOK, LockInv, DdlInv, DdlOK, Saving, DdlSteps
  <1>5. MetaCurrent'
    BY <1>1 DEF MetaCurrent, Restrict
  <1>6. IndexesMatch'
    <2>1. \A t : NamesOf(t)' = IF t \in DOMAIN meta THEN meta[t].idx ELSE {}
      BY <1>1 DEF NamesOf
    <2> QED
      BY <1>1, <2>1 DEF IndexesMatch
  <1> QED
    BY <1>3, <1>4, <1>5, <1>6 DEF IInv

LEMMA InitHolds ==
    Init => IInv
  <1> SUFFICES ASSUME Init
               PROVE  IInv
    OBVIOUS
  <1>1. /\ catalog = <<>> /\ indexes = <<>> /\ meta = <<>> /\ up
        /\ sess = [s \in Sessions |-> NewBatch]
    BY DEF Init
  <1>2. \A s \in Sessions : BatchOK(sess[s]) /\ sess[s].pc = "idle"
    BY <1>1, NewBatchOK
  <1>3. SessInv
    BY <1>1, <1>2 DEF SessInv, AllSchemas
  <1>4. SnapInv /\ LockInv /\ DdlInv
    BY <1>2 DEF SnapInv, SnapOK, LockInv, DdlInv, DdlOK, Saving, DdlSteps
  <1>5. MetaCurrent
    BY <1>1 DEF MetaCurrent
  <1>6. IndexesMatch
    BY <1>1 DEF IndexesMatch, NamesOf
  <1> QED
    BY <1>3, <1>4, <1>5, <1>6 DEF IInv

LEMMA StepKeeps ==
    IInv /\ [Next]_vars => IInv'
  <1> SUFFICES ASSUME IInv, [Next]_vars
               PROVE  IInv'
    OBVIOUS
  <1>1. ASSUME NEW s \in Sessions, DdlStep(s)
        PROVE  IInv'
    BY <1>1, CreateTableKeeps, CreateIndexKeeps, DropTableKeeps, EnsureTableKeeps,
       CreateIndexTreeKeeps, AddIndexKeeps, DropFromMemoryKeeps, DropFileKeeps, DropIndexesKeeps
       DEF DdlStep
  <1>2. ASSUME NEW s \in Sessions, PersistStep(s)
        PROVE  IInv'
    BY <1>2, EndBatchKeeps, SnapshotTableKeeps, OpenMetaKeeps, WriteMetaKeeps DEF PersistStep
  <1>3. ASSUME NEW s \in Sessions, DmlStep(s)
        PROVE  IInv'
    BY <1>3, StartInsertKeeps, MissingKeeps, StartScanKeeps, DmlKeeps DEF DmlStep
  <1>4. CASE BackupCheckpoint
    BY <1>4, Unseen DEF BackupCheckpoint
  <1>5. CASE Kill
    BY <1>5, KillKeeps
  <1>6. CASE Open
    BY <1>6, OpenKeeps
  <1>7. CASE UNCHANGED vars
    BY <1>7, Unseen DEF vars
  <1> QED
    BY <1>1, <1>2, <1>3, <1>4, <1>5, <1>6, <1>7 DEF Next

LEMMA Invariant ==
    Spec => []IInv
  BY InitHolds, StepKeeps, PTL DEF Spec

-----------------------------------------------------------------------------
(* Induction over the positions of a sequence, as a fact about sets.       *)
LEMMA IndexInduction ==
    ASSUME NEW n \in Nat, NEW P, 0 \in P, \A i \in 0..(n - 1) : i \in P => i + 1 \in P
    PROVE  \A i \in 0..n : i \in P
  <1> DEFINE out == {i \in 0..n : i \notin P}
  <1> SUFFICES ASSUME out # {}
               PROVE  FALSE
    OBVIOUS
  <1>1. out \subseteq Nat
    OBVIOUS
  <1>2. PICK m \in out : \A y \in out : ~(<<y, m>> \in OpToRel(<, Nat))
    BY <1>1, NatLessThanWellFounded, WFMin
  <1>3. \A y \in out : ~(y < m)
    BY <1>1, <1>2 DEF OpToRel
  <1>4. m - 1 \in 0..(n - 1) /\ m - 1 \notin out
    BY <1>3
  <1> QED
    BY <1>4

LEMMA MaxIs ==
    ASSUME NEW n \in Nat, NEW S \in SUBSET (1..n), n \in S
    PROVE  Max(S) = n
  <1>1. \A y \in S : n >= y
    OBVIOUS
  <1>2. \A x \in S : (\A y \in S : x >= y) => x = n
    OBVIOUS
  <1> QED
    BY <1>1, <1>2 DEF Max

(* A fold is the last of the states that it goes through.                  *)
ReplayAll(b, seq) == FoldLeft(Replay, b, seq)

Replays(st, n, seq, b, t) ==
    st[0] = b /\ (\A i \in 1..n : st[i] = Replay(st[i - 1], seq[i])) /\ st[n] = t

LEMMA ReplayStates ==
    ASSUME NEW n \in Nat, NEW seq, DOMAIN seq = 1..n, NEW b, NEW t, ReplayAll(b, seq) = t
    PROVE  \E st : Replays(st, n, seq, b, t)
  <1> DEFINE Eq(f, m) == f = [x \in SUBSET (1..m) |->
                                IF x = {} THEN b ELSE Replay(f[x \ {Max(x)}], seq[Max(x)])]
             good == {m \in 0..n : \E f : Eq(f, m)}
  <1>1. 0 \in good
    <2> DEFINE f == [x \in SUBSET (1..0) |-> b]
    <2>1. \A x \in SUBSET (1..0) : x = {}
      OBVIOUS
    <2>2. Eq(f, 0)
      BY <2>1
    <2> QED
      BY <2>2
  <1>2. ASSUME NEW m \in 0..(n - 1), m \in good
        PROVE  m + 1 \in good
    <2>1. PICK f : Eq(f, m)
      BY <1>2
    <2> DEFINE g == [x \in SUBSET (1..(m + 1)) |->
                        IF m + 1 \in x THEN Replay(f[x \ {m + 1}], seq[m + 1]) ELSE f[x]]
               h == [x \in SUBSET (1..(m + 1)) |->
                        IF x = {} THEN b ELSE Replay(g[x \ {Max(x)}], seq[Max(x)])]
    <2>2. ASSUME NEW x \in SUBSET (1..(m + 1))
          PROVE  g[x] = h[x]
      <3>1. CASE m + 1 \in x
        <4>1. Max(x) = m + 1
          BY <3>1, MaxIs
        <4>2. x \ {m + 1} \in SUBSET (1..(m + 1)) /\ m + 1 \notin x \ {m + 1} /\ x # {}
          BY <3>1
        <4>3. g[x \ {m + 1}] = f[x \ {m + 1}]
          BY <4>2
        <4> QED
          BY <3>1, <4>1, <4>2, <4>3
      <3>2. CASE m + 1 \notin x
        <4>1. x \in SUBSET (1..m)
          BY <3>2
        <4>2. g[x] = IF x = {} THEN b ELSE Replay(f[x \ {Max(x)}], seq[Max(x)])
          BY <2>1, <3>2, <4>1
        <4>3. x \ {Max(x)} \in SUBSET (1..(m + 1)) /\ m + 1 \notin x \ {Max(x)}
          BY <3>2
        <4>4. g[x \ {Max(x)}] = f[x \ {Max(x)}]
          BY <4>3
        <4> QED
          BY <4>2, <4>4
      <3> QED
        BY <3>1, <3>2
    <2>3. Eq(g, m + 1)
      <3>1. g = h
        BY <2>2
      <3> QED
        BY <3>1
    <2> HIDE DEF g
    <2>4. PICK ff : ff = g
      OBVIOUS
    <2>5. Eq(ff, m + 1)
      BY <2>3, <2>4
    <2>6. m + 1 \in 0..n
      OBVIOUS
    <2> QED
      BY <2>5, <2>6
  <1>3. n \in good
    <2> HIDE DEF good
    <2>1. \A i \in 0..n : i \in good
      BY <1>1, <1>2, IndexInduction
    <2> QED
      BY <2>1
  <1> DEFINE it == CHOOSE f : Eq(f, n)
  <1>4. Eq(it, n)
    BY <1>3
  <1>5. ReplayAll(b, seq) = it[1..n]
    BY DEF ReplayAll, FoldLeft, MapThenFoldSet
  <1> HIDE DEF it
  <1> DEFINE st == [i \in 0..n |-> it[1..i]]
  <1>6. st[0] = b
    BY <1>4
  <1>7. ASSUME NEW i \in 1..n
        PROVE  st[i] = Replay(st[i - 1], seq[i])
    <2>1. 1..i \in SUBSET (1..n) /\ i \in 1..i /\ (1..i) \ {i} = 1..(i - 1)
      OBVIOUS
    <2> HIDE DEF st
    <2>3. Max(1..i) = i
      BY <2>1, MaxIs
    <2> USE DEF st
    <2>2. it[1..i] = Replay(it[1..(i - 1)], seq[i])
      BY <1>4, <2>1, <2>3
    <2> QED
      BY <2>2
  <1>8. ReplayAll(b, seq) = st[n]
    BY <1>5
  <1> HIDE DEF st
  <1> QED
    BY <1>6, <1>7, <1>8 DEF Replays

-----------------------------------------------------------------------------
(* Types.                                                                  *)

DataKinds == {"Insert", "Update", "Delete"}
RowType == [gen : 1..MaxStmts, ver : Nat \ {0}]

SchemasOK(f) == DOMAIN f \subseteq Tables /\ \A t \in DOMAIN f : f[t] \in Schemas

TableOK(T) ==
    /\ DOMAIN T = {"rows", "next"} /\ T.next \in Nat \ {0}
    /\ \A id \in DOMAIN T.rows : id \in 1..(T.next - 1) /\ T.rows[id] \in RowType

TablesOK(f) == DOMAIN f \subseteq Tables /\ \A t \in DOMAIN f : TableOK(f[t])

NamesOK(f) == DOMAIN f \subseteq Tables /\ \A t \in DOMAIN f : f[t] \in SUBSET IndexNames

Records == [lsn : Nat, table : Tables, kind : DataKinds, id : Nat \ {0}, row : RowType \cup {NoRow}]

RecordOK(r) == r \in Records /\ (r.kind # "Delete" => r.row \in RowType)

(* The log's LSNs are the positions of its records.                        *)
LogOK(l) ==
    /\ DOMAIN l = {"wal", "ckpt", "lsn"} /\ l.ckpt \in Nat
    /\ l.wal \in Seq(Records) /\ l.lsn = Len(l.wal)
    /\ \A i \in 1..Len(l.wal) : l.wal[i].lsn = i /\ RecordOK(l.wal[i])

(* What a statement has in hand for its next step.                         *)
BatchType(b) ==
    /\ b.pc \in DdlSteps \cup {"writeRow"} => b.table \in Tables
    /\ b.pc = "ensure" => b.index \in IndexNames \cup {""}
    /\ b.pc \in {"create", "add"} => b.index \in IndexNames
    /\ b.pc = "writeRow" =>
          /\ b.gen \in 1..MaxStmts /\ b.kind \in DataKinds
          /\ b.kind # "Insert" => b.id \in Nat \ {0} /\ b.row \in RowType
    /\ SchemasOK(b.snap)
    /\ b.touched \subseteq Tables /\ b.read \subseteq Tables /\ b.old \subseteq Tables

Damages == {"overtaken", "logged", "replayed", "unsaved", "fileLeft", "indexesLeft"}

TypeInv ==
    /\ SchemasOK(catalog) /\ SchemasOK(meta) /\ NamesOK(indexes)
    /\ TablesOK(tables) /\ TablesOK(files) /\ LogOK(log)
    /\ \A s \in Sessions : BatchType(sess[s])
    /\ stale \subseteq Tables /\ damage \subseteq Damages /\ stmts \in Nat

(* A meta.bin that is cut off follows a save that failed or was killed.    *)
TornInv == torn \in BOOLEAN /\ (torn => stale = Tables \/ (~up /\ "unsaved" \in damage))

LEMMA TypeInvOK == TypeInv /\ TornInv => TypeOK
  <1> SUFFICES ASSUME TypeInv, TornInv
               PROVE  TypeOK
    OBVIOUS
  <1>1. \A f \in {catalog, meta} : DOMAIN f \subseteq Tables /\ Range(f) \subseteq Schemas
    BY DEF TypeInv, SchemasOK, Range
  <1>2. \A f \in {tables, files} : \A t \in DOMAIN f : \A id \in DOMAIN f[t].rows :
           id < f[t].next /\ f[t].rows[id] \in [gen : 1..MaxStmts, ver : Nat \ {0}]
    BY DEF TypeInv, TablesOK, TableOK, RowType
  <1>3. DOMAIN indexes \subseteq Tables /\ Range(indexes) \subseteq SUBSET IndexNames
    BY DEF TypeInv, NamesOK, Range
  <1>4. \A i \in DOMAIN log.wal : log.wal[i].table \in Tables /\ log.wal[i].lsn \in Nat \ {0}
    BY DEF TypeInv, LogOK, RecordOK, Records
  <1>5. \A s \in Sessions : sess[s].touched \cup sess[s].read \cup sess[s].old \subseteq Tables
    BY DEF TypeInv, BatchType
  <1> QED
    BY <1>1, <1>2, <1>3, <1>4, <1>5 DEF TypeOK, TypeInv, TornInv, Damages

(* The steps of a session on its batch.                                    *)
LEMMA NewBatchType == BatchType(NewBatch)
  BY DEF BatchType, NewBatch, DdlSteps, SchemasOK

LEMMA DoneType ==
    ASSUME NEW s \in Sessions, NEW changed, BatchType(sess[s])
    PROVE  BatchType(Done(s, changed)) /\ Done(s, changed).pc = "more"
  <1>1. PICK b : b = Done(s, changed)
    OBVIOUS
  <1>2. b.pc = "more" /\ b.touched = sess[s].touched /\ b.read = {} /\ b.snap = <<>> /\ b.old = {}
    BY <1>1 DEF Done, NewBatch
  <1>3. SchemasOK(b.snap)
    BY <1>2 DEF SchemasOK
  <1>4. b.touched \subseteq Tables
    BY <1>2 DEF BatchType
  <1>5. BatchType(b)
    BY <1>2, <1>3, <1>4 DEF BatchType, DdlSteps
  <1> QED
    BY <1>1, <1>2, <1>5

(* sess' differs from sess in s only.                                      *)
Only(s, me) == sess' = [sess EXCEPT ![s] = me]

LEMMA OnlyOne ==
    ASSUME IInv, NEW s \in Sessions, NEW me, Only(s, me)
    PROVE  sess'[s] = me /\ \A u \in Sessions : u # s => sess'[u] = sess[u]
  BY DEF Only, IInv, SessInv

LEMMA SessTypes ==
    ASSUME IInv, TypeInv, NEW s \in Sessions, NEW me, Only(s, me), BatchType(me)
    PROVE  \A u \in Sessions : BatchType(sess'[u])
  BY OnlyOne DEF TypeInv

LEMMA FailsTypes ==
    ASSUME IInv, TypeInv, NEW s \in Sessions, Fails(s)
    PROVE  (\A u \in Sessions : BatchType(sess'[u])) /\ stale' \subseteq Tables
  <1>1. Only(s, NewBatch) /\ stale' = stale \cup sess[s].touched
    BY DEF Fails, Only
  <1>2. stale' \subseteq Tables
    BY <1>1 DEF TypeInv, BatchType
  <1> QED
    BY <1>1, <1>2, SessTypes, NewBatchType

LEMMA DoneTypes ==
    ASSUME IInv, TypeInv, NEW s \in Sessions, NEW changed, Only(s, Done(s, changed))
    PROVE  \A u \in Sessions : BatchType(sess'[u])
  <1>1. BatchType(Done(s, changed))
    BY DoneType DEF TypeInv
  <1> QED
    BY <1>1, SessTypes

LEMMA TypeStep ==
    ASSUME SchemasOK(catalog'), SchemasOK(meta'), NamesOK(indexes'), TablesOK(tables'),
           TablesOK(files'), LogOK(log'), \A s \in Sessions : BatchType(sess'[s]),
           stale' \subseteq Tables, damage' \subseteq Damages, stmts' \in Nat
    PROVE  TypeInv'
  <1>1. SchemasOK(catalog)' /\ SchemasOK(meta)'
    BY DEF SchemasOK, Schemas, IndexNames, PKey
  <1>2. NamesOK(indexes)'
    BY DEF NamesOK, IndexNames, PKey
  <1>3. TablesOK(tables)' /\ TablesOK(files)'
    BY DEF TablesOK, TableOK, RowType
  <1>4. LogOK(log)'
    BY DEF LogOK, RecordOK, Records, RowType, DataKinds, NoRow
  <1>5. (\A s \in Sessions : BatchType(sess[s]))'
    BY DEF BatchType, SchemasOK, Schemas, DdlSteps, DataKinds, RowType, IndexNames, PKey
  <1> QED
    BY <1>1, <1>2, <1>3, <1>4, <1>5 DEF TypeInv, Damages

(* Maps with an entry more, or one less.                                   *)
LEMMA PutSchemas ==
    ASSUME NEW f, SchemasOK(f), NEW t \in Tables, NEW v \in Schemas
    PROVE  SchemasOK(Put(f, t, v))
  BY DEF SchemasOK, Put

LEMMA PutNames ==
    ASSUME NEW f, NamesOK(f), NEW t \in Tables, NEW v \in SUBSET IndexNames
    PROVE  NamesOK(Put(f, t, v))
  BY DEF NamesOK, Put

LEMMA PutTables ==
    ASSUME NEW f, TablesOK(f), NEW t \in Tables, NEW v, TableOK(v)
    PROVE  TablesOK(Put(f, t, v))
  BY DEF TablesOK, Put

LEMMA WithoutOK ==
    ASSUME NEW f, NEW t
    PROVE  /\ SchemasOK(f) => SchemasOK(Without(f, t))
           /\ NamesOK(f) => NamesOK(Without(f, t))
           /\ TablesOK(f) => TablesOK(Without(f, t))
  BY DEF SchemasOK, NamesOK, TablesOK, Without, Restrict

LEMMA EmptyTableOK == TableOK(EmptyTable)
  BY DEF TableOK, EmptyTable

LEMMA PutRow ==
    ASSUME NEW T, TableOK(T), NEW id \in Nat \ {0}, NEW row \in RowType, NEW n \in Nat,
           id < n, n >= T.next
    PROVE  TableOK([rows |-> Put(T.rows, id, row), next |-> n])
  BY DEF TableOK, Put

(* A session that changes a catalog entry, and those that have read it.    *)
LEMMA TouchTypes ==
    ASSUME IInv, TypeInv, NEW s \in Sessions, NEW t \in Tables, NEW me, Touch(s, t, me),
           DOMAIN me = DOMAIN NewBatch, BatchType(me)
    PROVE  \A u \in Sessions : BatchType(sess'[u])
  <1> SUFFICES ASSUME NEW u \in Sessions
               PROVE  BatchType(sess'[u])
    OBVIOUS
  <1>1. CASE u = s
    <2>1. PICK b : b = sess'[s]
      OBVIOUS
    <2>2. b = [me EXCEPT !.touched = @ \cup {t}]
      BY <2>1 DEF Touch
    <2>3. /\ b.pc = me.pc /\ b.table = me.table /\ b.index = me.index /\ b.gen = me.gen
          /\ b.kind = me.kind /\ b.id = me.id /\ b.row = me.row /\ b.snap = me.snap
          /\ b.read = me.read /\ b.old = me.old
      BY <2>2
    <2>4. b.touched = me.touched \cup {t}
      BY <2>2, BatchFields
    <2>5. BatchType(b)
      BY <2>3, <2>4 DEF BatchType
    <2> QED
      BY <1>1, <2>1, <2>5
  <1>2. CASE u # s /\ t \in sess[u].read
    <2>1. PICK b : b = sess'[u]
      OBVIOUS
    <2>2. PICK old : old = sess[u]
      OBVIOUS
    <2>3. b = [old EXCEPT !.old = @ \cup {t}] /\ BatchType(old) /\ DOMAIN old = DOMAIN NewBatch
      BY <1>2, <2>1, <2>2 DEF Touch, TypeInv, IInv, SessInv, BatchOK
    <2>4. /\ b.pc = old.pc /\ b.table = old.table /\ b.index = old.index /\ b.gen = old.gen
          /\ b.kind = old.kind /\ b.id = old.id /\ b.row = old.row /\ b.snap = old.snap
          /\ b.read = old.read /\ b.touched = old.touched
      BY <2>3
    <2>5. b.old = old.old \cup {t}
      BY <2>3, BatchFields
    <2>6. BatchType(b)
      BY <2>3, <2>4, <2>5 DEF BatchType
    <2> QED
      BY <2>1, <2>6
  <1>3. CASE u # s /\ t \notin sess[u].read
    BY <1>3 DEF Touch, TypeInv
  <1> QED
    BY <1>1, <1>2, <1>3

(* A statement begins: what is new of its batch.                           *)
LEMMA StatementType ==
    ASSUME IInv, TypeInv, NEW s \in Sessions, Ready(s), NEW b, NEW t \in Tables, b.table = t,
           b.pc \in {"writeRow", "create", "ensure", "dropMem"},
           b.touched = sess[s].touched, b.read = sess[s].read, b.old = sess[s].old,
           b.snap = sess[s].snap,
           b.pc = "ensure" => b.index \in IndexNames \cup {""},
           b.pc = "create" => b.index \in IndexNames,
           b.pc = "writeRow" => /\ b.gen \in 1..MaxStmts /\ b.kind \in DataKinds
                                /\ b.kind # "Insert" => b.id \in Nat \ {0} /\ b.row \in RowType
    PROVE  BatchType(b)
  <1>1. BatchType(sess[s])
    BY DEF TypeInv
  <1> QED
    BY <1>1 DEF BatchType

LEMMA OneMore ==
    ASSUME TypeInv, stmts < MaxStmts, stmts' = stmts + 1
    PROVE  stmts' \in Nat /\ stmts' \in 1..MaxStmts
  BY CatalogAssumption DEF TypeInv

LEMMA CreateTableTypes ==
    ASSUME IInv, TypeInv, NEW s \in Sessions, NEW t \in Tables, NEW index \in {"", PKey},
           CreateTable(s, t, index)
    PROVE  TypeInv'
  <1>1. /\ Ready(s) /\ stmts < MaxStmts /\ stmts' = stmts + 1
        /\ UNCHANGED <<indexes, tables, files, meta, log, up, damage, restarts>>
    BY DEF CreateTable
  <1>2. stmts' \in Nat /\ stmts' \in 1..MaxStmts
    BY <1>1, OneMore
  <1>3. SchemasOK(catalog') /\ stale' \subseteq Tables /\ \A u \in Sessions : BatchType(sess'[u])
    <2>1. CASE t \in DOMAIN catalog
      <3>1. Fails(s) /\ catalog' = catalog
        BY <2>1 DEF CreateTable
      <3> QED
        BY <3>1, FailsTypes DEF TypeInv
    <2>2. CASE t \notin DOMAIN catalog
      <3>1. PICK me : me = [Statement(s, "ensure", t) EXCEPT !.index = index]
        OBVIOUS
      <3>2. /\ catalog' = Put(catalog, t, [gen |-> stmts + 1, idx |-> {}])
            /\ Touch(s, t, me) /\ stale' = stale
        BY <2>2, <3>1 DEF CreateTable
      <3>3. DOMAIN sess[s] = DOMAIN NewBatch
        BY DEF IInv, SessInv, BatchOK
      <3>4. /\ DOMAIN me = DOMAIN NewBatch /\ me.pc = "ensure" /\ me.table = t /\ me.index = index
            /\ me.touched = sess[s].touched /\ me.read = sess[s].read /\ me.old = sess[s].old
            /\ me.snap = sess[s].snap
        BY <3>1, <3>3, BatchFields DEF Statement
      <3>5. BatchType(me)
        BY <1>1, <3>4, StatementType DEF IndexNames
      <3>6. [gen |-> stmts + 1, idx |-> {}] \in Schemas
        BY <1>1, <1>2 DEF Schemas
      <3>7. SchemasOK(catalog')
        BY <3>2, <3>6, PutSchemas DEF TypeInv
      <3>8. \A u \in Sessions : BatchType(sess'[u])
        BY <3>2, <3>4, <3>5, TouchTypes
      <3> QED
        BY <3>2, <3>7, <3>8 DEF TypeInv
    <2> QED
      BY <2>1, <2>2
  <1> QED
    BY <1>1, <1>2, <1>3, TypeStep DEF TypeInv

LEMMA EnsureTableTypes ==
    ASSUME IInv, TypeInv, NEW s \in Sessions, EnsureTable(s)
    PROVE  TypeInv'
  <1>1. /\ sess[s].pc = "ensure" /\ tables' = OrInsert(tables, sess[s].table, EmptyTable)
        /\ UNCHANGED <<catalog, indexes, files, meta, log, up, stale, damage, bounds>>
    BY DEF EnsureTable
  <1>2. BatchType(sess[s]) /\ DOMAIN sess[s] = DOMAIN NewBatch
    BY DEF TypeInv, IInv, SessInv, BatchOK
  <1>3. TablesOK(tables')
    BY <1>1, <1>2, PutTables, EmptyTableOK DEF OrInsert, TypeInv, BatchType, DdlSteps
  <1>4. \A u \in Sessions : BatchType(sess'[u])
    <2>1. CASE sess[s].index = ""
      BY <2>1, DoneTypes DEF EnsureTable, Only
    <2>2. CASE sess[s].index # ""
      <3>1. PICK me : me = [sess[s] EXCEPT !.pc = "create"]
        OBVIOUS
      <3>2. Only(s, me)
        BY <2>2, <3>1 DEF EnsureTable, Only
      <3>3. /\ me.pc = "create" /\ me.table = sess[s].table /\ me.index = sess[s].index
            /\ me.snap = sess[s].snap /\ me.touched = sess[s].touched /\ me.read = sess[s].read
            /\ me.old = sess[s].old
        BY <1>2, <3>1, BatchFields
      <3>4. BatchType(me)
        BY <1>1, <1>2, <2>2, <3>3 DEF BatchType, DdlSteps
      <3> QED
        BY <3>2, <3>4, SessTypes
    <2> QED
      BY <2>1, <2>2
  <1> QED
    BY <1>1, <1>3, <1>4, TypeStep DEF TypeInv, bounds

LEMMA CreateIndexTreeTypes ==
    ASSUME IInv, TypeInv, NEW s \in Sessions, CreateIndexTree(s)
    PROVE  TypeInv'
  <1>1. /\ sess[s].pc = "create"
        /\ UNCHANGED <<catalog, tables, files, meta, log, up, damage, bounds>>
    BY DEF CreateIndexTree
  <1>2. BatchType(sess[s]) /\ DOMAIN sess[s] = DOMAIN NewBatch
    BY DEF TypeInv, IInv, SessInv, BatchOK
  <1>3. NamesOK(indexes') /\ stale' \subseteq Tables /\ \A u \in Sessions : BatchType(sess'[u])
    <2>1. CASE sess[s].index \in NamesOf(sess[s].table)
      <3>1. Fails(s) /\ indexes' = indexes
        BY <2>1 DEF CreateIndexTree
      <3> QED
        BY <3>1, FailsTypes DEF TypeInv
    <2>2. CASE sess[s].index \notin NamesOf(sess[s].table)
      <3>1. PICK me : me = [sess[s] EXCEPT !.pc = "add"]
        OBVIOUS
      <3>2. /\ Only(s, me) /\ stale' = stale
            /\ indexes' = Put(indexes, sess[s].table, NamesOf(sess[s].table) \cup {sess[s].index})
        BY <2>2, <3>1 DEF CreateIndexTree, Only
      <3>3. /\ me.pc = "add" /\ me.table = sess[s].table /\ me.index = sess[s].index
            /\ me.snap = sess[s].snap /\ me.touched = sess[s].touched /\ me.read = sess[s].read
            /\ me.old = sess[s].old
        BY <1>2, <3>1, BatchFields
      <3>4. sess[s].table \in Tables /\ sess[s].index \in IndexNames
        BY <1>1, <1>2 DEF BatchType, DdlSteps
      <3>5. BatchType(me)
        BY <1>1, <1>2, <3>3, <3>4 DEF BatchType
      <3>6. NamesOf(sess[s].table) \cup {sess[s].index} \in SUBSET IndexNames
        BY <3>4 DEF NamesOf, TypeInv, NamesOK
      <3>7. NamesOK(indexes')
        BY <3>2, <3>4, <3>6, PutNames DEF TypeInv
      <3> QED
        BY <3>2, <3>5, <3>7, SessTypes DEF TypeInv
    <2> QED
      BY <2>1, <2>2
  <1> QED
    BY <1>1, <1>3, TypeStep DEF TypeInv, bounds

LEMMA AddIndexTypes ==
    ASSUME IInv, TypeInv, NEW s \in Sessions, AddIndex(s)
    PROVE  TypeInv'
  <1> DEFINE t == sess[s].table
  <1>1. /\ sess[s].pc = "add"
        /\ UNCHANGED <<indexes, tables, files, meta, log, up, damage, bounds>>
    BY DEF AddIndex
  <1>2. BatchType(sess[s]) /\ t \in DOMAIN catalog
    BY <1>1 DEF TypeInv, IInv, DdlInv, DdlOK
  <1>3. SchemasOK(catalog') /\ stale' \subseteq Tables /\ \A u \in Sessions : BatchType(sess'[u])
    <2>1. CASE sess[s].index \in catalog[t].idx
      <3>1. Fails(s) /\ catalog' = catalog
        BY <2>1 DEF AddIndex
      <3> QED
        BY <3>1, FailsTypes DEF TypeInv
    <2>2. CASE sess[s].index \notin catalog[t].idx
      <3>1. PICK me : me = Done(s, TRUE)
        OBVIOUS
      <3>2. /\ Touch(s, t, me) /\ stale' = stale
            /\ catalog' = [catalog EXCEPT ![t].idx = @ \cup {sess[s].index}]
        BY <2>2, <3>1 DEF AddIndex
      <3>3. t \in Tables /\ sess[s].index \in IndexNames
        BY <1>1, <1>2 DEF BatchType, DdlSteps
      <3>4. catalog[t] \in Schemas
        BY <1>2 DEF TypeInv, SchemasOK
      <3>5. [catalog[t] EXCEPT !.idx = @ \cup {sess[s].index}] \in Schemas
        BY <3>3, <3>4 DEF Schemas
      <3>6. SchemasOK(catalog')
        BY <3>2, <3>5 DEF TypeInv, SchemasOK
      <3>7. BatchType(me) /\ DOMAIN me = DOMAIN NewBatch
        BY <1>2, <3>1, DoneType DEF Done
      <3>8. \A u \in Sessions : BatchType(sess'[u])
        BY <3>2, <3>3, <3>7, TouchTypes
      <3> QED
        BY <3>2, <3>6, <3>8 DEF TypeInv
    <2> QED
      BY <2>1, <2>2
  <1> QED
    BY <1>1, <1>3, TypeStep DEF TypeInv, bounds

LEMMA CreateIndexTypes ==
    ASSUME IInv, TypeInv, NEW s \in Sessions, NEW t \in Tables, CreateIndex(s, t)
    PROVE  TypeInv'
  <1>1. /\ Ready(s) /\ stmts' = stmts + 1
        /\ UNCHANGED <<catalog, indexes, tables, files, meta, log, up, damage, restarts>>
    BY DEF CreateIndex
  <1>2. stale' \subseteq Tables /\ \A u \in Sessions : BatchType(sess'[u])
    <2>1. CASE Fails(s)
      BY <2>1, FailsTypes
    <2>2. CASE ~Fails(s)
      <3>1. PICK me : me = [Statement(s, "create", t) EXCEPT !.index = "idx"]
        OBVIOUS
      <3>2. Only(s, me) /\ stale' = stale
        BY <2>2, <3>1 DEF CreateIndex, Only
      <3>3. DOMAIN sess[s] = DOMAIN NewBatch
        BY DEF IInv, SessInv, BatchOK
      <3>4. /\ me.pc = "create" /\ me.table = t /\ me.index = "idx"
            /\ me.touched = sess[s].touched /\ me.read = sess[s].read /\ me.old = sess[s].old
            /\ me.snap = sess[s].snap
        BY <3>1, <3>3, BatchFields DEF Statement
      <3>5. BatchType(me)
        BY <1>1, <3>4, StatementType DEF IndexNames
      <3> QED
        BY <3>2, <3>5, SessTypes DEF TypeInv
    <2> QED
      BY <2>1, <2>2
  <1> QED
    BY <1>1, <1>2, TypeStep DEF TypeInv

LEMMA DropTableTypes ==
    ASSUME IInv, TypeInv, NEW s \in Sessions, NEW t \in Tables, DropTable(s, t)
    PROVE  TypeInv'
  <1>1. /\ Ready(s) /\ stmts' = stmts + 1
        /\ UNCHANGED <<indexes, tables, files, meta, log, up, restarts>>
    BY DEF DropTable
  <1>2. CASE t \notin DOMAIN catalog
    <2>1. Fails(s) /\ catalog' = catalog /\ damage' = damage
      BY <1>2 DEF DropTable
    <2>2. stale' \subseteq Tables /\ \A u \in Sessions : BatchType(sess'[u])
      BY <2>1, FailsTypes
    <2> QED
      BY <1>1, <2>1, <2>2, TypeStep DEF TypeInv
  <1>3. CASE t \in DOMAIN catalog
    <2>1. PICK me : me = Statement(s, "dropMem", t)
      OBVIOUS
    <2>2. /\ catalog' = Without(catalog, t) /\ Touch(s, t, me) /\ stale' = stale
          /\ damage' \subseteq damage \cup {"overtaken", "logged"}
      BY <1>3, <2>1 DEF DropTable
    <2>3. DOMAIN sess[s] = DOMAIN NewBatch
      BY DEF IInv, SessInv, BatchOK
    <2>4. /\ DOMAIN me = DOMAIN NewBatch /\ me.pc = "dropMem" /\ me.table = t
          /\ me.touched = sess[s].touched /\ me.read = sess[s].read /\ me.old = sess[s].old
          /\ me.snap = sess[s].snap
      BY <2>1, <2>3, BatchFields DEF Statement
    <2>5. BatchType(me)
      BY <1>1, <2>4, StatementType
    <2>6. SchemasOK(catalog')
      BY <2>2, WithoutOK DEF TypeInv
    <2>7. \A u \in Sessions : BatchType(sess'[u])
      BY <2>2, <2>4, <2>5, TouchTypes
    <2>8. damage' \subseteq Damages
      BY <2>2 DEF TypeInv, Damages
    <2> QED
      BY <1>1, <2>2, <2>6, <2>7, <2>8, TypeStep DEF TypeInv
  <1> QED
    BY <1>2, <1>3

(* A DDL statement goes on to the next of its steps.                       *)
LEMMA NextDrop ==
    ASSUME IInv, TypeInv, NEW s \in Sessions, sess[s].pc \in {"dropMem", "dropFile"},
           NEW pc \in {"dropFile", "dropIdx"}, sess' = [sess EXCEPT ![s].pc = pc]
    PROVE  \A u \in Sessions : BatchType(sess'[u])
  <1>1. PICK me : me = [sess[s] EXCEPT !.pc = pc]
    OBVIOUS
  <1>2. Only(s, me) /\ BatchType(sess[s]) /\ DOMAIN sess[s] = DOMAIN NewBatch
    BY <1>1 DEF Only, TypeInv, IInv, SessInv, BatchOK
  <1>3. /\ me.pc = pc /\ me.table = sess[s].table /\ me.snap = sess[s].snap
        /\ me.touched = sess[s].touched /\ me.read = sess[s].read /\ me.old = sess[s].old
    BY <1>1, <1>2, BatchFields
  <1>4. BatchType(me)
    BY <1>2, <1>3 DEF BatchType, DdlSteps
  <1> QED
    BY <1>2, <1>4, SessTypes

LEMMA DropStepsTypes ==
    ASSUME IInv, TypeInv, NEW s \in Sessions, DropFromMemory(s) \/ DropFile(s) \/ DropIndexes(s)
    PROVE  TypeInv'
  <1>1. CASE DropFromMemory(s)
    <2>1. /\ sess[s].pc = "dropMem" /\ tables' = Without(tables, sess[s].table)
          /\ sess' = [sess EXCEPT ![s].pc = "dropFile"]
          /\ UNCHANGED <<catalog, indexes, files, meta, log, up, stale, damage, bounds>>
      BY <1>1 DEF DropFromMemory
    <2>2. TablesOK(tables') /\ \A u \in Sessions : BatchType(sess'[u])
      BY <2>1, WithoutOK, NextDrop DEF TypeInv
    <2> QED
      BY <2>1, <2>2, TypeStep DEF TypeInv, bounds
  <1>2. CASE DropFile(s)
    <2>1. sess[s].pc = "dropFile" /\ UNCHANGED <<catalog, indexes, tables, meta, log, up, bounds>>
      BY <1>2 DEF DropFile
    <2>2. /\ TablesOK(files') /\ stale' \subseteq Tables /\ damage' \subseteq Damages
          /\ \A u \in Sessions : BatchType(sess'[u])
      <3>1. CASE /\ files' = Without(files, sess[s].table)
                 /\ sess' = [sess EXCEPT ![s].pc = "dropIdx"]
                 /\ UNCHANGED <<stale, damage>>
        BY <2>1, <3>1, WithoutOK, NextDrop DEF TypeInv
      <3>2. CASE Fails(s) /\ damage' = damage \cup {"fileLeft", "indexesLeft"} /\ files' = files
        BY <3>2, FailsTypes DEF TypeInv, Damages
      <3> QED
        BY <1>2, <3>1, <3>2 DEF DropFile
    <2> QED
      BY <2>1, <2>2, TypeStep DEF TypeInv, bounds
  <1>3. CASE DropIndexes(s)
    <2>1. /\ indexes' = Without(indexes, sess[s].table) /\ Only(s, Done(s, TRUE))
          /\ UNCHANGED <<catalog, tables, files, meta, log, up, stale, damage, bounds>>
      BY <1>3 DEF DropIndexes, Only
    <2>2. NamesOK(indexes') /\ \A u \in Sessions : BatchType(sess'[u])
      BY <2>1, WithoutOK, DoneTypes DEF TypeInv
    <2> QED
      BY <2>1, <2>2, TypeStep DEF TypeInv, bounds
  <1> QED
    BY <1>1, <1>2, <1>3

LEMMA PersistTypes ==
    ASSUME IInv, TypeInv, NEW s \in Sessions, PersistStep(s)
    PROVE  TypeInv'
  <1>1. BatchType(sess[s]) /\ DOMAIN sess[s] = DOMAIN NewBatch
    BY DEF TypeInv, IInv, SessInv, BatchOK
  <1>2. CASE EndBatch(s)
    <2>1. UNCHANGED <<catalog, indexes, tables, files, meta, log, up, damage, bounds>>
      BY <1>2 DEF EndBatch
    <2>2. stale' \subseteq Tables /\ \A u \in Sessions : BatchType(sess'[u])
      <3>1. CASE sess[s].last
        <4>1. PICK me : me = [sess[s] EXCEPT !.pc = "snapshot"]
          OBVIOUS
        <4>2. Only(s, me) /\ stale' = stale
          BY <1>2, <3>1, <4>1 DEF EndBatch, Only
        <4>3. /\ me.pc = "snapshot" /\ me.snap = sess[s].snap /\ me.touched = sess[s].touched
              /\ me.read = sess[s].read /\ me.old = sess[s].old
          BY <1>1, <4>1, BatchFields
        <4>4. BatchType(me)
          BY <1>1, <4>3 DEF BatchType, DdlSteps
        <4> QED
          BY <4>2, <4>4, SessTypes DEF TypeInv
      <3>2. CASE ~sess[s].last
        <4>1. Only(s, NewBatch) /\ stale' \subseteq stale \cup sess[s].touched
          BY <1>2, <3>2 DEF EndBatch, Only
        <4>2. stale' \subseteq Tables
          BY <1>1, <4>1 DEF TypeInv, BatchType
        <4> QED
          BY <4>1, <4>2, SessTypes, NewBatchType
      <3> QED
        BY <3>1, <3>2
    <2> QED
      BY <2>1, <2>2, TypeStep DEF TypeInv, bounds
  <1>3. ASSUME NEW t \in Tables, SnapshotTable(s, t)
        PROVE  TypeInv'
    <2> DEFINE read == sess[s].read \cup {t}
               snap == IF t \in DOMAIN catalog THEN Put(sess[s].snap, t, catalog[t]) ELSE sess[s].snap
               pc == IF read = Tables THEN "open" ELSE sess[s].pc
    <2>1. /\ UNCHANGED <<catalog, indexes, tables, files, meta, log, up, stale, damage, bounds>>
          /\ sess[s].pc = "snapshot"
      BY <1>3 DEF SnapshotTable
    <2>2. PICK me : me = [sess[s] EXCEPT !.read = read, !.snap = snap, !.pc = pc]
      OBVIOUS
    <2>3. Only(s, me)
      BY <1>3, <2>2 DEF SnapshotTable, Only
    <2>4. /\ me.pc \in {"snapshot", "open"} /\ me.snap = snap /\ me.touched = sess[s].touched
          /\ me.read = read /\ me.old = sess[s].old
      BY <1>1, <2>1, <2>2, BatchFields
    <2>5. SchemasOK(snap)
      <3>1. SchemasOK(sess[s].snap)
        BY <1>1 DEF BatchType
      <3>2. t \in DOMAIN catalog => catalog[t] \in Schemas
        BY DEF TypeInv, SchemasOK
      <3> QED
        BY <3>1, <3>2, PutSchemas
    <2> HIDE DEF snap, read, pc
    <2>6. read \subseteq Tables
      BY <1>1 DEF read, BatchType
    <2>7. BatchType(me)
      BY <1>1, <2>4, <2>5, <2>6 DEF BatchType, DdlSteps
    <2>8. \A u \in Sessions : BatchType(sess'[u])
      BY <2>3, <2>7, SessTypes
    <2> QED
      BY <2>1, <2>8, TypeStep DEF TypeInv, bounds
  <1>4. CASE OpenMeta(s)
    <2>1. /\ UNCHANGED <<catalog, indexes, tables, files, log, up, damage, bounds>>
          /\ sess[s].pc = "open"
      BY <1>4 DEF OpenMeta
    <2>2. SchemasOK(meta') /\ stale' \subseteq Tables /\ \A u \in Sessions : BatchType(sess'[u])
      <3>1. CASE Fails(s) /\ meta' = meta
        BY <3>1, FailsTypes DEF TypeInv
      <3>2. CASE meta' = <<>> /\ sess' = [sess EXCEPT ![s].pc = "write"] /\ stale' = stale
        <4>1. PICK me : me = [sess[s] EXCEPT !.pc = "write"]
          OBVIOUS
        <4>2. Only(s, me)
          BY <3>2, <4>1 DEF Only
        <4>3. /\ me.pc = "write" /\ me.snap = sess[s].snap /\ me.touched = sess[s].touched
              /\ me.read = sess[s].read /\ me.old = sess[s].old
          BY <1>1, <4>1, BatchFields
        <4>4. BatchType(me)
          BY <1>1, <4>3 DEF BatchType, DdlSteps
        <4>5. SchemasOK(meta')
          BY <3>2 DEF SchemasOK
        <4> QED
          BY <3>2, <4>2, <4>4, <4>5, SessTypes DEF TypeInv
      <3> QED
        BY <1>4, <3>1, <3>2 DEF OpenMeta
    <2> QED
      BY <2>1, <2>2, TypeStep DEF TypeInv, bounds
  <1>5. CASE WriteMeta(s) \/ WriteMetaFails(s)
    <2>1. /\ UNCHANGED <<catalog, indexes, tables, files, log, up, damage, bounds>>
          /\ Only(s, NewBatch) /\ meta' \in {sess[s].snap, meta}
          /\ stale' \subseteq Tables
      BY <1>1, <1>5 DEF WriteMeta, WriteMetaFails, Only, BatchType
    <2>2. SchemasOK(meta') /\ \A u \in Sessions : BatchType(sess'[u])
      BY <1>1, <2>1, SessTypes, NewBatchType DEF TypeInv, BatchType
    <2> QED
      BY <2>1, <2>2, TypeStep DEF TypeInv, bounds
  <1> QED
    BY <1>2, <1>3, <1>4, <1>5 DEF PersistStep

(* A statement looks its table up.                                         *)
LEMMA LookupTypes ==
    ASSUME IInv, TypeInv, NEW s \in Sessions, NEW t \in Tables,
           StartInsert(s, t) \/ Missing(s, t)
           \/ \E id \in DOMAIN Rows(t), kind \in {"Update", "Delete"} : StartScan(s, t, kind, id)
    PROVE  TypeInv'
  <1>1. UNCHANGED <<catalog, indexes, tables, files, meta, log, up, damage>> /\ stmts' \in {stmts, stmts + 1}
    BY DEF StartInsert, Missing, StartScan, bounds
  <1>2. DOMAIN sess[s] = DOMAIN NewBatch
    BY DEF IInv, SessInv, BatchOK
  <1>3. t \in DOMAIN catalog => catalog[t].gen \in 1..MaxStmts
    BY DEF TypeInv, SchemasOK, Schemas
  <1>4. stale' \subseteq Tables /\ \A u \in Sessions : BatchType(sess'[u])
    <2>1. CASE Missing(s, t)
      BY <2>1, FailsTypes DEF Missing
    <2>2. CASE StartInsert(s, t)
      <3>1. PICK me : me = [Statement(s, "writeRow", t) EXCEPT !.kind = "Insert", !.gen = catalog[t].gen]
        OBVIOUS
      <3>2. Only(s, me) /\ stale' = stale /\ Ready(s) /\ t \in DOMAIN catalog
        BY <2>2, <3>1 DEF StartInsert, Only
      <3>3. /\ me.pc = "writeRow" /\ me.table = t /\ me.kind = "Insert" /\ me.gen = catalog[t].gen
            /\ me.touched = sess[s].touched /\ me.read = sess[s].read /\ me.old = sess[s].old
            /\ me.snap = sess[s].snap
        BY <1>2, <3>1, BatchFields DEF Statement
      <3>4. BatchType(me)
        BY <1>3, <3>2, <3>3, StatementType DEF DataKinds
      <3> QED
        BY <3>2, <3>4, SessTypes DEF TypeInv
    <2>3. ASSUME NEW id \in DOMAIN Rows(t), NEW kind \in {"Update", "Delete"}, StartScan(s, t, kind, id)
          PROVE  stale' \subseteq Tables /\ \A u \in Sessions : BatchType(sess'[u])
      <3>1. PICK me : me = [Statement(s, "writeRow", t) EXCEPT !.kind = kind, !.gen = catalog[t].gen,
                                                               !.id = id, !.row = Rows(t)[id]]
        OBVIOUS
      <3>2. Only(s, me) /\ stale' = stale /\ Ready(s) /\ t \in DOMAIN catalog
        BY <2>3, <3>1 DEF StartScan, Only
      <3>3. /\ me.pc = "writeRow" /\ me.table = t /\ me.kind = kind /\ me.gen = catalog[t].gen
            /\ me.id = id /\ me.row = Rows(t)[id]
            /\ me.touched = sess[s].touched /\ me.read = sess[s].read /\ me.old = sess[s].old
            /\ me.snap = sess[s].snap
        BY <1>2, <3>1, BatchFields DEF Statement
      <3>4. id \in Nat \ {0} /\ Rows(t)[id] \in RowType
        BY DEF Rows, TypeInv, TablesOK, TableOK
      <3>5. BatchType(me)
        BY <1>3, <3>2, <3>3, <3>4, StatementType DEF DataKinds
      <3> QED
        BY <3>2, <3>5, SessTypes DEF TypeInv
    <2> QED
      BY <2>1, <2>2, <2>3
  <1>5. stmts' \in Nat
    BY <1>1 DEF TypeInv
  <1> QED
    BY <1>1, <1>4, <1>5, TypeStep DEF TypeInv

(* The record and maybe_checkpoint.                                        *)
LEMMA LogAppend ==
    ASSUME TypeInv, NEW r, RecordOK(r), r.lsn = log.lsn + 1
    PROVE  LET l == [log EXCEPT !.lsn = @ + 1, !.wal = Append(@, r)]
           IN  /\ LogOK(l) /\ l.lsn = log.lsn + 1 /\ l.ckpt = log.ckpt /\ l.wal = Append(log.wal, r)
  <1>1. PICK l : l = [log EXCEPT !.lsn = @ + 1, !.wal = Append(@, r)]
    OBVIOUS
  <1>2. LogOK(log)
    BY DEF TypeInv
  <1>3. /\ DOMAIN l = {"wal", "ckpt", "lsn"} /\ l.lsn = log.lsn + 1 /\ l.ckpt = log.ckpt
        /\ l.wal = Append(log.wal, r)
    BY <1>1, <1>2 DEF LogOK
  <1>4. /\ l.wal \in Seq(Records) /\ Len(l.wal) = Len(log.wal) + 1
        /\ \A i \in 1..Len(log.wal) : l.wal[i] = log.wal[i]
        /\ l.wal[Len(log.wal) + 1] = r
    BY <1>2, <1>3 DEF LogOK, RecordOK
  <1>5. LogOK(l)
    BY <1>2, <1>3, <1>4 DEF LogOK
  <1> QED
    BY <1>1, <1>3, <1>5

LEMMA CheckpointTypes ==
    ASSUME TypeInv, NEW memory, TablesOK(memory), NEW l, LogOK(l), Checkpoint(memory, l)
    PROVE  TablesOK(files') /\ LogOK(log')
  <1>1. TablesOK(files')
    BY DEF Checkpoint, TypeInv, TablesOK
  <1>2. log' = [wal |-> <<>>, ckpt |-> l.lsn, lsn |-> 0] /\ l.lsn \in Nat
    BY DEF Checkpoint, LogOK
  <1>3. LogOK(log')
    BY <1>2 DEF LogOK
  <1> QED
    BY <1>1, <1>3

LEMMA WriteTypes ==
    ASSUME IInv, TypeInv, NEW s \in Sessions, NEW memory, TablesOK(memory), NEW r, RecordOK(r),
           r.lsn = log.lsn + 1, Write(s, memory, r)
    PROVE  /\ TablesOK(tables') /\ TablesOK(files') /\ LogOK(log') /\ stale' = stale
           /\ damage' \subseteq Damages /\ \A u \in Sessions : BatchType(sess'[u])
  <1>1. PICK l : l = [log EXCEPT !.lsn = @ + 1, !.wal = Append(@, r)]
    OBVIOUS
  <1>2. LogOK(l)
    BY <1>1, LogAppend
  <1>3. tables' = memory /\ Only(s, Done(s, FALSE)) /\ stale' = stale
    BY DEF Write, Only
  <1>4. /\ TablesOK(files') /\ LogOK(log') /\ damage' \subseteq Damages
    <2>1. CASE Checkpoint(memory, l) /\ damage' = damage \ {"logged"}
      BY <1>2, <2>1, CheckpointTypes DEF TypeInv
    <2>2. CASE log' = l /\ UNCHANGED <<files, damage>>
      BY <1>2, <2>2 DEF TypeInv
    <2> QED
      BY <1>1, <2>1, <2>2 DEF Write
  <1> QED
    BY <1>3, <1>4, DoneTypes

LEMMA InsertRowTypes ==
    ASSUME IInv, TypeInv, NEW s \in Sessions, InsertRow(s)
    PROVE  TypeInv'
  <1> DEFINE t == sess[s].table
             old == IF t \in DOMAIN tables THEN tables[t] ELSE EmptyTable
             row == [gen |-> sess[s].gen, ver |-> 1]
             memory == Put(tables, t, [rows |-> Put(old.rows, old.next, row), next |-> old.next + 1])
             r == Record(t, "Insert", old.next, row)
  <1>1. /\ sess[s].pc = "writeRow" /\ Write(s, memory, r)
        /\ UNCHANGED <<catalog, indexes, meta, up, bounds>>
    BY DEF InsertRow
  <1>2. t \in Tables /\ sess[s].gen \in 1..MaxStmts
    BY <1>1 DEF TypeInv, BatchType
  <1>3. TableOK(old)
    BY EmptyTableOK DEF TypeInv, TablesOK
  <1>4. row \in RowType
    BY <1>2 DEF RowType
  <1> HIDE DEF old, row, t
  <1>5. old.next \in Nat \ {0}
    BY <1>3 DEF TableOK
  <1>6. TablesOK(memory)
    <2>1. TableOK([rows |-> Put(old.rows, old.next, row), next |-> old.next + 1])
      BY <1>3, <1>4, <1>5, PutRow
    <2> QED
      BY <1>2, <2>1, PutTables DEF TypeInv
  <1>7. RecordOK(r) /\ r.lsn = log.lsn + 1
    <2>1. log.lsn + 1 \in Nat
      BY DEF TypeInv, LogOK
    <2> QED
      BY <1>2, <1>4, <1>5, <2>1 DEF RecordOK, Records, Record, DataKinds
  <1> HIDE DEF memory, r
  <1>8. /\ TablesOK(tables') /\ TablesOK(files') /\ LogOK(log') /\ stale' = stale
        /\ damage' \subseteq Damages /\ \A u \in Sessions : BatchType(sess'[u])
    BY <1>1, <1>6, <1>7, WriteTypes
  <1> QED
    BY <1>1, <1>8, TypeStep DEF TypeInv, bounds

LEMMA UpdateRowTypes ==
    ASSUME IInv, TypeInv, NEW s \in Sessions, UpdateRow(s)
    PROVE  TypeInv'
  <1> DEFINE t == sess[s].table
             id == sess[s].id
             row == [gen |-> sess[s].gen, ver |-> sess[s].row.ver + 1]
             memory == [tables EXCEPT ![t].rows = Put(@, id, row)]
             r == Record(t, "Update", id, row)
  <1>1. /\ sess[s].pc = "writeRow" /\ sess[s].kind = "Update"
        /\ UNCHANGED <<catalog, indexes, meta, up, bounds>>
    BY DEF UpdateRow
  <1>2. /\ t \in Tables /\ sess[s].gen \in 1..MaxStmts /\ id \in Nat \ {0}
        /\ sess[s].row \in RowType
    BY <1>1 DEF TypeInv, BatchType
  <1>3. row \in RowType
    BY <1>2 DEF RowType
  <1>4. CASE Fails(s) /\ UNCHANGED <<tables, files, log, damage>>
    BY <1>1, <1>4, FailsTypes, TypeStep DEF TypeInv, bounds
  <1>5. CASE Only(s, Done(s, FALSE)) /\ UNCHANGED <<tables, files, log, stale, damage>>
    BY <1>1, <1>5, DoneTypes, TypeStep DEF TypeInv, bounds
  <1>6. CASE id \in DOMAIN Rows(t) /\ Write(s, memory, r)
    <2>1. t \in DOMAIN tables /\ id \in DOMAIN tables[t].rows
      BY <1>6 DEF Rows
    <2>2. TableOK(tables[t])
      BY <2>1 DEF TypeInv, TablesOK
    <2>3. TableOK([tables[t] EXCEPT !.rows = Put(@, id, row)])
      <3> HIDE DEF row
      <3>1. DOMAIN tables[t] = {"rows", "next"}
        BY <2>2 DEF TableOK
      <3> QED
        BY <1>3, <2>1, <2>2, <3>1 DEF TableOK, Put
    <2>4. TablesOK(memory)
      <3> HIDE DEF row
      <3>1. memory = [tables EXCEPT ![t] = [tables[t] EXCEPT !.rows = Put(@, id, row)]]
        OBVIOUS
      <3> QED
        BY <2>1, <2>3, <3>1 DEF TypeInv, TablesOK
    <2>5. RecordOK(r) /\ r.lsn = log.lsn + 1
      <3>1. log.lsn + 1 \in Nat
        BY DEF TypeInv, LogOK
      <3> HIDE DEF row
      <3> QED
        BY <1>2, <1>3, <3>1 DEF RecordOK, Records, Record, DataKinds
    <2> HIDE DEF memory, r
    <2>6. /\ TablesOK(tables') /\ TablesOK(files') /\ LogOK(log') /\ stale' = stale
          /\ damage' \subseteq Damages /\ \A u \in Sessions : BatchType(sess'[u])
      BY <1>6, <2>4, <2>5, WriteTypes
    <2> QED
      BY <1>1, <2>6, TypeStep DEF TypeInv, bounds
  <1> QED
    BY <1>4, <1>5, <1>6 DEF UpdateRow, Only

LEMMA DeleteRowTypes ==
    ASSUME IInv, TypeInv, NEW s \in Sessions, DeleteRow(s)
    PROVE  TypeInv'
  <1> DEFINE t == sess[s].table
             id == sess[s].id
             memory == [tables EXCEPT ![t].rows = Without(@, id)]
             r == Record(t, "Delete", id, NoRow)
  <1>1. /\ sess[s].pc = "writeRow" /\ sess[s].kind = "Delete"
        /\ UNCHANGED <<catalog, indexes, meta, up, bounds>>
    BY DEF DeleteRow
  <1>2. t \in Tables /\ id \in Nat \ {0}
    BY <1>1 DEF TypeInv, BatchType
  <1>3. CASE Fails(s) /\ UNCHANGED <<tables, files, log, damage>>
    BY <1>1, <1>3, FailsTypes, TypeStep DEF TypeInv, bounds
  <1>4. CASE Only(s, Done(s, FALSE)) /\ UNCHANGED <<tables, files, log, stale, damage>>
    BY <1>1, <1>4, DoneTypes, TypeStep DEF TypeInv, bounds
  <1>5. CASE id \in DOMAIN Rows(t) /\ Write(s, memory, r)
    <2>1. t \in DOMAIN tables
      BY <1>5 DEF Rows
    <2>2. TableOK(tables[t])
      BY <2>1 DEF TypeInv, TablesOK
    <2>3. TableOK([tables[t] EXCEPT !.rows = Without(@, id)])
      <3>1. DOMAIN tables[t] = {"rows", "next"}
        BY <2>2 DEF TableOK
      <3> QED
        BY <2>2, <3>1 DEF TableOK, Without, Restrict
    <2>4. TablesOK(memory)
      <3>1. memory = [tables EXCEPT ![t] = [tables[t] EXCEPT !.rows = Without(@, id)]]
        OBVIOUS
      <3> QED
        BY <2>1, <2>3, <3>1 DEF TypeInv, TablesOK
    <2>5. RecordOK(r) /\ r.lsn = log.lsn + 1
      <3>1. log.lsn + 1 \in Nat
        BY DEF TypeInv, LogOK
      <3> QED
        BY <1>2, <3>1 DEF RecordOK, Records, Record, DataKinds
    <2> HIDE DEF memory, r
    <2>6. /\ TablesOK(tables') /\ TablesOK(files') /\ LogOK(log') /\ stale' = stale
          /\ damage' \subseteq Damages /\ \A u \in Sessions : BatchType(sess'[u])
      BY <1>5, <2>4, <2>5, WriteTypes
    <2> QED
      BY <1>1, <2>6, TypeStep DEF TypeInv, bounds
  <1> QED
    BY <1>3, <1>4, <1>5 DEF DeleteRow, Only

-----------------------------------------------------------------------------
(* Replay.                                                                 *)

StateOK(T) == DOMAIN T = {"tables", "failed"} /\ T.failed \in BOOLEAN /\ TablesOK(T.tables)

(* A row that a record leaves is one that was there, with its gen, or the  *)
(* record's.                                                               *)
RowFrom(T, r, t, id, row) ==
    \/ t \in DOMAIN T.tables /\ id \in DOMAIN T.tables[t].rows /\ row.gen = T.tables[t].rows[id].gen
    \/ /\ t = r.table /\ r.kind # "Delete" /\ row.gen = r.row.gen
       /\ r.kind = "Update" => t \in DOMAIN T.tables /\ id \in DOMAIN T.tables[t].rows

LEMMA ApplyOK ==
    ASSUME NEW T, StateOK(T), NEW r, RecordOK(r)
    PROVE  /\ StateOK(Apply(T, r))
           /\ DOMAIN Apply(T, r).tables =
                 DOMAIN T.tables \cup (IF r.kind = "Insert" /\ ~T.failed THEN {r.table} ELSE {})
           /\ Apply(T, r).failed <=>
                 T.failed \/ (r.kind # "Insert" /\ r.table \notin DOMAIN T.tables)
           /\ \A t \in DOMAIN Apply(T, r).tables : \A id \in DOMAIN Apply(T, r).tables[t].rows :
                 RowFrom(T, r, t, id, Apply(T, r).tables[t].rows[id])
  <1>1. PICK U : U = Apply(T, r)
    OBVIOUS
  <1>2. r.kind \in DataKinds /\ r.table \in Tables /\ r.id \in Nat \ {0}
    BY DEF RecordOK, Records
  <1>3. CASE T.failed
    <2>1. U = T
      BY <1>1, <1>3 DEF Apply, StateOK
    <2> QED
      BY <1>1, <1>3, <2>1 DEF RowFrom, StateOK
  <1>4. CASE ~T.failed /\ r.kind # "Insert" /\ r.table \notin DOMAIN T.tables
    <2>1. U = [T EXCEPT !.failed = TRUE]
      BY <1>1, <1>2, <1>4 DEF Apply, StateOK, DataKinds
    <2>2. U.tables = T.tables /\ U.failed = TRUE /\ DOMAIN U = DOMAIN T
      BY <2>1 DEF StateOK
    <2> QED
      BY <1>1, <1>4, <2>2 DEF RowFrom, StateOK
  <1>5. CASE ~T.failed /\ r.kind = "Insert"
    <2>1. U = [T EXCEPT !.tables = ApplyInsert(@, r)]
      BY <1>1, <1>5 DEF Apply, StateOK
    <2>2. U.tables = ApplyInsert(T.tables, r) /\ U.failed = FALSE /\ DOMAIN U = DOMAIN T
      BY <1>5, <2>1 DEF StateOK
    <2> DEFINE old == IF r.table \in DOMAIN T.tables THEN T.tables[r.table] ELSE EmptyTable
               n == IF r.id >= old.next THEN r.id + 1 ELSE old.next
               new == [rows |-> Put(old.rows, r.id, r.row), next |-> n]
    <2>3. U.tables = Put(T.tables, r.table, new)
      BY <2>2 DEF ApplyInsert
    <2>4. TableOK(old) /\ r.row \in RowType
      BY <1>5, EmptyTableOK DEF StateOK, TablesOK, RecordOK
    <2>5. /\ DOMAIN new.rows = DOMAIN old.rows \cup {r.id}
          /\ \A id \in DOMAIN new.rows : new.rows[id] = IF id = r.id THEN r.row ELSE old.rows[id]
      BY DEF Put
    <2>6. r.table \notin DOMAIN T.tables => DOMAIN old.rows = {}
      BY DEF EmptyTable
    <2>7. r.table \in DOMAIN T.tables => old = T.tables[r.table]
      OBVIOUS
    <2> HIDE DEF old
    <2>8. TableOK(new)
      <3>1. old.next \in Nat \ {0}
        BY <2>4 DEF TableOK
      <3>2. n \in Nat /\ r.id < n /\ n >= old.next
        BY <1>2, <3>1
      <3> HIDE DEF n
      <3> QED
        BY <1>2, <2>4, <3>2, PutRow
    <2> HIDE DEF new
    <2>9. TablesOK(U.tables)
      BY <1>2, <2>3, <2>8, PutTables DEF StateOK
    <2>10. /\ DOMAIN U.tables = DOMAIN T.tables \cup {r.table}
           /\ \A t \in DOMAIN U.tables : U.tables[t] = IF t = r.table THEN new ELSE T.tables[t]
      BY <2>3 DEF Put
    <2>11. ASSUME NEW t \in DOMAIN U.tables, NEW id \in DOMAIN U.tables[t].rows
           PROVE  RowFrom(T, r, t, id, U.tables[t].rows[id])
      <3>1. CASE t # r.table
        BY <2>10, <2>11, <3>1 DEF RowFrom
      <3>2. CASE t = r.table /\ id = r.id
        BY <1>5, <2>5, <2>10, <2>11, <3>2 DEF RowFrom
      <3>3. CASE t = r.table /\ id # r.id
        <4>1. id \in DOMAIN old.rows /\ U.tables[t].rows[id] = old.rows[id]
          BY <2>5, <2>10, <2>11, <3>3
        <4> QED
          BY <2>6, <2>7, <3>3, <4>1 DEF RowFrom
      <3> QED
        BY <3>1, <3>2, <3>3
    <2> QED
      BY <1>1, <1>5, <2>2, <2>9, <2>10, <2>11 DEF StateOK
  <1>6. CASE ~T.failed /\ r.kind # "Insert" /\ r.table \in DOMAIN T.tables
    <2>1. /\ r.kind = "Update" => U = [T EXCEPT !.tables = ApplyUpdate(@, r)]
          /\ r.kind = "Delete" => U = [T EXCEPT !.tables = ApplyDelete(@, r)]
      BY <1>1, <1>6 DEF Apply, StateOK
    <2>2. /\ U.failed = FALSE /\ DOMAIN U = DOMAIN T
          /\ r.kind = "Update" => U.tables = ApplyUpdate(T.tables, r)
          /\ r.kind = "Delete" => U.tables = ApplyDelete(T.tables, r)
      BY <1>2, <1>6, <2>1 DEF StateOK, DataKinds
    <2> DEFINE old == T.tables[r.table]
    <2>3. TableOK(old)
      BY <1>6 DEF StateOK, TablesOK
    <2>4. \E new : /\ TableOK(new)
                   /\ DOMAIN U.tables = DOMAIN T.tables /\ U.tables[r.table] = new
                   /\ \A t \in DOMAIN T.tables : t # r.table => U.tables[t] = T.tables[t]
                   /\ \A id \in DOMAIN new.rows :
                         /\ id \in DOMAIN old.rows
                         /\ new.rows[id].gen = old.rows[id].gen
                            \/ (r.kind = "Update" /\ new.rows[id].gen = r.row.gen)
      <3>1. CASE r.kind = "Update" /\ r.id \notin DOMAIN old.rows
        <4>1. U.tables = T.tables
          BY <2>2, <3>1 DEF ApplyUpdate
        <4> QED
          BY <2>3, <4>1
      <3>2. CASE r.kind = "Update" /\ r.id \in DOMAIN old.rows
        <4> DEFINE row == [r.row EXCEPT !.ver = old.rows[r.id].ver + 1]
                   new == [old EXCEPT !.rows[r.id] = row]
        <4>1. r.row \in RowType /\ old.rows[r.id] \in RowType
          BY <2>3, <3>2 DEF RecordOK, TableOK
        <4>2. row \in RowType /\ row.gen = r.row.gen
          BY <4>1 DEF RowType
        <4>3. U.tables = [T.tables EXCEPT ![r.table] = new]
          BY <2>2, <3>2 DEF ApplyUpdate
        <4> HIDE DEF row
        <4>4. DOMAIN old = {"rows", "next"}
          BY <2>3 DEF TableOK
        <4>5. /\ new.next = old.next /\ DOMAIN new = {"rows", "next"}
              /\ new.rows = [old.rows EXCEPT ![r.id] = row]
          BY <4>4
        <4> HIDE DEF new, old
        <4>6. TableOK(new)
          BY <2>3, <4>2, <4>5 DEF TableOK
        <4>7. \A id \in DOMAIN new.rows :
                 /\ id \in DOMAIN old.rows
                 /\ new.rows[id].gen = old.rows[id].gen \/ new.rows[id].gen = r.row.gen
          BY <4>2, <4>5
        <4> QED
          BY <1>6, <3>2, <4>3, <4>6, <4>7
      <3>3. CASE r.kind = "Delete"
        <4> DEFINE new == [old EXCEPT !.rows = Without(@, r.id)]
        <4>1. U.tables = [T.tables EXCEPT ![r.table] = new]
          BY <2>2, <3>3 DEF ApplyDelete
        <4>2. DOMAIN old = {"rows", "next"}
          BY <2>3 DEF TableOK
        <4>3. /\ new.next = old.next /\ DOMAIN new = {"rows", "next"}
              /\ new.rows = [x \in DOMAIN old.rows \ {r.id} |-> old.rows[x]]
          BY <4>2 DEF Without, Restrict
        <4> HIDE DEF new, old
        <4>4. TableOK(new)
          BY <2>3, <4>3 DEF TableOK
        <4>5. \A id \in DOMAIN new.rows : id \in DOMAIN old.rows /\ new.rows[id].gen = old.rows[id].gen
          BY <4>3
        <4> QED
          BY <1>6, <4>1, <4>4, <4>5
      <3> QED
        BY <1>2, <1>6, <3>1, <3>2, <3>3 DEF DataKinds
    <2>5. PICK new : /\ TableOK(new)
                     /\ DOMAIN U.tables = DOMAIN T.tables /\ U.tables[r.table] = new
                     /\ \A t \in DOMAIN T.tables : t # r.table => U.tables[t] = T.tables[t]
                     /\ \A id \in DOMAIN new.rows :
                           /\ id \in DOMAIN old.rows
                           /\ new.rows[id].gen = old.rows[id].gen
                              \/ (r.kind = "Update" /\ new.rows[id].gen = r.row.gen)
      BY <2>4
    <2>6. /\ DOMAIN U.tables = DOMAIN T.tables /\ U.tables[r.table] = new
          /\ \A t \in DOMAIN T.tables : t # r.table => U.tables[t] = T.tables[t]
      BY <2>5
    <2>7. TablesOK(U.tables)
      BY <2>5, <2>6 DEF StateOK, TablesOK
    <2>8. ASSUME NEW t \in DOMAIN U.tables, NEW id \in DOMAIN U.tables[t].rows
          PROVE  RowFrom(T, r, t, id, U.tables[t].rows[id])
      <3>1. CASE t # r.table
        BY <2>6, <2>8, <3>1 DEF RowFrom
      <3>2. CASE t = r.table
        BY <1>6, <2>5, <2>6, <2>8, <3>2 DEF RowFrom
      <3> QED
        BY <3>1, <3>2
    <2> QED
      BY <1>1, <1>6, <2>2, <2>6, <2>7, <2>8 DEF StateOK
  <1> QED
    BY <1>3, <1>4, <1>5, <1>6 DEF StateOK

LEMMA ReplayOK ==
    ASSUME NEW T, StateOK(T), NEW r, RecordOK(r)
    PROVE  /\ StateOK(Replay(T, r))
           /\ DOMAIN T.tables \subseteq DOMAIN Replay(T, r).tables
           /\ DOMAIN Replay(T, r).tables \subseteq
                 DOMAIN T.tables \cup (IF r.kind = "Insert" THEN {r.table} ELSE {})
           /\ T.failed => Replay(T, r).failed
           /\ Replay(T, r).failed => T.failed \/ (r.kind # "Insert" /\ r.table \notin DOMAIN T.tables)
           /\ \A t \in DOMAIN Replay(T, r).tables : \A id \in DOMAIN Replay(T, r).tables[t].rows :
                 RowFrom(T, r, t, id, Replay(T, r).tables[t].rows[id])
  <1>1. CASE r.lsn > log.ckpt
    <2>1. Replay(T, r) = Apply(T, r)
      BY <1>1 DEF Replay
    <2> QED
      BY <2>1, ApplyOK
  <1>2. CASE ~(r.lsn > log.ckpt)
    <2>1. Replay(T, r) = T
      BY <1>2 DEF Replay
    <2> QED
      BY <2>1 DEF RowFrom
  <1> QED
    BY <1>1, <1>2

LEMMA LoadedOK ==
    ASSUME TypeInv
    PROVE  /\ TablesOK(Loaded) /\ DOMAIN Loaded = DOMAIN files \cup DOMAIN meta
           /\ \A t \in DOMAIN Loaded : Loaded[t] = IF t \in DOMAIN files THEN files[t] ELSE EmptyTable
  BY EmptyTableOK DEF Loaded, TypeInv, TablesOK, SchemasOK

(* The states that recovery goes through.                                  *)
Through(st) ==
    /\ st[0] = [tables |-> Loaded, failed |-> FALSE]
    /\ \A i \in 1..Len(log.wal) : st[i] = Replay(st[i - 1], log.wal[i])
    /\ \A i \in 0..Len(log.wal) : StateOK(st[i])
    /\ Recovered = st[Len(log.wal)]

LEMMA RecoveredStates ==
    ASSUME TypeInv
    PROVE  \E st : Through(st)
  <1> DEFINE n == Len(log.wal)
             b == [tables |-> Loaded, failed |-> FALSE]
  <1>1. n \in Nat /\ DOMAIN log.wal = 1..n /\ \A i \in 1..n : RecordOK(log.wal[i])
    BY DEF TypeInv, LogOK
  <1> HIDE DEF n
  <1>2. PICK st : /\ st[0] = b
                  /\ \A i \in 1..n : st[i] = Replay(st[i - 1], log.wal[i])
                  /\ ReplayAll(b, log.wal) = st[n]
    <2> HIDE DEF b
    <2>1. PICK m, seq, c, t : m = n /\ seq = log.wal /\ c = b /\ ReplayAll(b, log.wal) = t
      OBVIOUS
    <2>2. m \in Nat /\ DOMAIN seq = 1..m /\ ReplayAll(c, seq) = t
      BY <1>1, <2>1
    <2>3. \E st : Replays(st, m, seq, c, t)
      BY ONLY <2>2, ReplayStates
    <2> QED
      BY <2>1, <2>3 DEF Replays
  <1> DEFINE good == {i \in 0..n : StateOK(st[i])}
  <1>3. 0 \in good
    <2>1. StateOK(b)
      BY LoadedOK DEF StateOK
    <2> QED
      BY <1>1, <1>2, <2>1
  <1>4. ASSUME NEW i \in 0..(n - 1), i \in good
        PROVE  i + 1 \in good
    <2>1. i + 1 \in 1..n /\ (i + 1) - 1 = i
      BY <1>1
    <2>2. st[i + 1] = Replay(st[i], log.wal[i + 1]) /\ RecordOK(log.wal[i + 1])
      BY <1>1, <1>2, <2>1
    <2>3. StateOK(st[i + 1])
      BY <1>4, <2>2, ReplayOK
    <2> QED
      BY <1>1, <2>1, <2>3
  <1> HIDE DEF good
  <1>5. \A i \in 0..n : i \in good
    BY <1>1, <1>3, <1>4, IndexInduction
  <1>6. \A i \in 0..n : StateOK(st[i])
    BY <1>5 DEF good
  <1> QED
    BY <1>2, <1>6 DEF Through, Recovered, ReplayAll, n

LEMMA RecoveredOK == TypeInv => StateOK(Recovered)
  <1> SUFFICES ASSUME TypeInv
               PROVE  StateOK(Recovered)
    OBVIOUS
  <1>1. PICK st : Through(st)
    BY RecoveredStates
  <1>2. Len(log.wal) \in Nat
    BY DEF TypeInv, LogOK
  <1> QED
    BY <1>1, <1>2 DEF Through

LEMMA RestartTypes ==
    ASSUME IInv, TypeInv, BackupCheckpoint \/ Kill \/ Open
    PROVE  TypeInv'
  <1>1. CASE BackupCheckpoint
    <2>1. /\ Checkpoint(tables, log) /\ damage' \subseteq damage
          /\ UNCHANGED <<catalog, indexes, tables, meta, up, sess, stale, bounds>>
      BY <1>1 DEF BackupCheckpoint
    <2>2. TablesOK(files') /\ LogOK(log')
      BY <2>1, CheckpointTypes DEF TypeInv
    <2> QED
      BY <2>1, <2>2, TypeStep DEF TypeInv, bounds
  <1>2. CASE Kill
    <2>1. /\ catalog' = <<>> /\ indexes' = <<>> /\ tables' = <<>>
          /\ sess' = [s \in Sessions |-> NewBatch] /\ damage' \subseteq damage \cup {"unsaved"}
          /\ UNCHANGED <<files, meta, log, stale, stmts>>
      BY <1>2 DEF Kill
    <2>2. SchemasOK(catalog') /\ NamesOK(indexes') /\ TablesOK(tables')
      BY <2>1 DEF SchemasOK, NamesOK, TablesOK
    <2>3. (\A s \in Sessions : BatchType(sess'[s])) /\ damage' \subseteq Damages
      BY <2>1, NewBatchType DEF TypeInv, Damages
    <2> QED
      BY <2>1, <2>2, <2>3, TypeStep DEF TypeInv
  <1>3. CASE Open
    <2>1. /\ catalog' = meta /\ tables' = Recovered.tables
          /\ indexes' = [t \in {t \in DOMAIN meta : meta[t].idx # {}} |-> meta[t].idx]
          /\ log' = [log EXCEPT !.lsn = IF log.wal = <<>> THEN 0 ELSE Last(log.wal).lsn]
          /\ stale' = {} /\ damage' \subseteq damage \cup {"replayed"}
          /\ UNCHANGED <<files, meta, sess, bounds>>
      BY <1>3 DEF Open
    <2>2. TablesOK(tables')
      BY <2>1, RecoveredOK DEF StateOK
    <2>3. NamesOK(indexes')
      BY <2>1 DEF NamesOK, TypeInv, SchemasOK, Schemas
    <2>4. LogOK(log')
      <3>1. LogOK(log)
        BY DEF TypeInv
      <3>2. (IF log.wal = <<>> THEN 0 ELSE Last(log.wal).lsn) = log.lsn
        <4>1. CASE log.wal = <<>>
          BY <3>1, <4>1 DEF LogOK
        <4>2. CASE log.wal # <<>>
          <5>1. Len(log.wal) \in 1..Len(log.wal)
            BY <3>1, <4>2 DEF LogOK
          <5> QED
            BY <3>1, <4>2, <5>1 DEF LogOK, Last
        <4> QED
          BY <4>1, <4>2
      <3>3. log'.wal = log.wal /\ log'.ckpt = log.ckpt /\ log'.lsn = log.lsn /\ DOMAIN log' = DOMAIN log
        BY <2>1, <3>1, <3>2 DEF LogOK
      <3> QED
        BY <3>1, <3>3 DEF LogOK
    <2>5. damage' \subseteq Damages
      BY <2>1 DEF TypeInv, Damages
    <2> QED
      BY <2>1, <2>2, <2>3, <2>4, <2>5, TypeStep DEF TypeInv, bounds
  <1> QED
    BY <1>1, <1>2, <1>3

LEMMA TypeInit == Init => TypeInv
  <1> SUFFICES ASSUME Init
               PROVE  TypeInv
    OBVIOUS
  <1>1. \A s \in Sessions : BatchType(sess[s])
    BY NewBatchType DEF Init
  <1>2. LogOK(log)
    BY DEF Init, LogOK
  <1> QED
    BY <1>1, <1>2 DEF Init, TypeInv, SchemasOK, NamesOK, TablesOK

LEMMA TypeNext ==
    IInv /\ TypeInv /\ [Next]_vars => TypeInv'
  <1> SUFFICES ASSUME IInv, TypeInv, [Next]_vars
               PROVE  TypeInv'
    OBVIOUS
  <1>1. ASSUME NEW s \in Sessions, DdlStep(s)
        PROVE  TypeInv'
    BY <1>1, CreateTableTypes, CreateIndexTypes, DropTableTypes, EnsureTableTypes,
       CreateIndexTreeTypes, AddIndexTypes, DropStepsTypes DEF DdlStep
  <1>2. ASSUME NEW s \in Sessions, DmlStep(s)
        PROVE  TypeInv'
    BY <1>2, LookupTypes, InsertRowTypes, UpdateRowTypes, DeleteRowTypes DEF DmlStep
  <1>3. CASE UNCHANGED vars
    BY <1>3, TypeStep DEF vars, bounds, TypeInv
  <1> QED
    BY <1>1, <1>2, <1>3, PersistTypes, RestartTypes DEF Next

LEMMA Typed == Spec => [](IInv /\ TypeInv)
  <1>1. Init => TypeInv
    BY TypeInit
  <1> QED
    BY <1>1, TypeNext, Invariant, PTL DEF Spec

(* While the database is open and meta.bin is cut off, every table stays   *)
(* stale.                                                                  *)
LEMMA TornStays ==
    ASSUME TypeInv', TornInv, up, torn' = torn, stale \subseteq stale'
    PROVE  TornInv'
  BY DEF TornInv, TypeInv

LEMMA FailsStale ==
    ASSUME NEW s, Fails(s)
    PROVE  stale \subseteq stale'
  BY DEF Fails

LEMMA DdlTorn ==
    ASSUME TypeInv', TornInv, NEW s \in Sessions, DdlStep(s)
    PROVE  TornInv'
  <1>1. ASSUME NEW t, NEW index, CreateTable(s, t, index)
        PROVE  up /\ torn' = torn /\ stale \subseteq stale'
    BY <1>1, FailsStale DEF CreateTable, Ready
  <1>2. ASSUME NEW t, CreateIndex(s, t) \/ DropTable(s, t)
        PROVE  up /\ torn' = torn /\ stale \subseteq stale'
    <2>1. CASE CreateIndex(s, t)
      BY <2>1, FailsStale DEF CreateIndex, Ready
    <2>2. CASE DropTable(s, t)
      BY <2>2, FailsStale DEF DropTable, Ready
    <2> QED
      BY <1>2, <2>1, <2>2
  <1>3. CASE EnsureTable(s) \/ DropFromMemory(s) \/ DropIndexes(s)
    BY <1>3, TornStays DEF EnsureTable, DropFromMemory, DropIndexes
  <1>4. CASE CreateIndexTree(s)
    BY <1>4, FailsStale, TornStays DEF CreateIndexTree
  <1>5. CASE AddIndex(s)
    BY <1>5, FailsStale, TornStays DEF AddIndex
  <1>6. CASE DropFile(s)
    BY <1>6, FailsStale, TornStays DEF DropFile
  <1> QED
    BY <1>1, <1>2, <1>3, <1>4, <1>5, <1>6, TornStays DEF DdlStep

LEMMA DmlTorn ==
    ASSUME TypeInv', TornInv, NEW s \in Sessions, DmlStep(s)
    PROVE  TornInv'
  <1>1. ASSUME NEW t, StartInsert(s, t) \/ Missing(s, t)
        PROVE  up /\ torn' = torn /\ stale \subseteq stale'
    BY <1>1, FailsStale DEF StartInsert, Missing, Ready
  <1>2. ASSUME NEW t, NEW kind, NEW id, StartScan(s, t, kind, id)
        PROVE  up /\ torn' = torn /\ stale \subseteq stale'
    BY <1>2 DEF StartScan, Ready
  <1>3. CASE InsertRow(s)
    BY <1>3, TornStays DEF InsertRow, Write
  <1>4. CASE UpdateRow(s)
    BY <1>4, FailsStale, TornStays DEF UpdateRow, Write
  <1>5. CASE DeleteRow(s)
    BY <1>5, FailsStale, TornStays DEF DeleteRow, Write
  <1> QED
    BY <1>1, <1>2, <1>3, <1>4, <1>5, TornStays DEF DmlStep

LEMMA PersistTorn ==
    ASSUME TypeInv', TornInv, NEW s \in Sessions, PersistStep(s)
    PROVE  TornInv'
  <1>1. CASE EndBatch(s)
    BY <1>1, TornStays DEF EndBatch
  <1>2. ASSUME NEW t, SnapshotTable(s, t)
        PROVE  TornInv'
    BY <1>2, TornStays DEF SnapshotTable
  <1>3. CASE OpenMeta(s)
    <2>1. CASE torn' = FALSE
      BY <2>1 DEF TornInv
    <2>2. CASE torn' # FALSE
      BY <1>3, <2>2, FailsStale, TornStays DEF OpenMeta
    <2> QED
      BY <2>1, <2>2
  <1>4. CASE WriteMeta(s)
    BY <1>4 DEF WriteMeta, TornInv
  <1>5. CASE WriteMetaFails(s)
    BY <1>5 DEF WriteMetaFails, TornInv
  <1> QED
    BY <1>1, <1>2, <1>3, <1>4, <1>5 DEF PersistStep

LEMMA TornNext ==
    TypeInv' /\ TornInv /\ [Next]_vars => TornInv'
  <1> SUFFICES ASSUME TypeInv', TornInv, [Next]_vars
               PROVE  TornInv'
    OBVIOUS
  <1>1. CASE BackupCheckpoint
    BY <1>1, TornStays DEF BackupCheckpoint
  <1>2. CASE Kill
    <2>1. /\ torn' \in {torn, Truncated \/ torn} /\ stale' = stale /\ up' = FALSE /\ up
          /\ Truncated => "unsaved" \in damage'
      BY <1>2 DEF Kill
    <2>2. Truncated \in BOOLEAN
      BY DEF Truncated
    <2> QED
      BY <2>1, <2>2 DEF TornInv
  <1>3. CASE Open
    BY <1>3 DEF Open, TornInv
  <1>4. CASE UNCHANGED vars
    BY <1>4 DEF vars, TornInv
  <1> QED
    BY <1>1, <1>2, <1>3, <1>4, DdlTorn, DmlTorn, PersistTorn DEF Next

LEMMA Torn == Spec => []TornInv
  <1>1. Init => TornInv
    BY DEF Init, TornInv
  <1> QED
    BY <1>1, TornNext, Typed, PTL DEF Spec

(* Schemas, rows, log records and batches stay well formed through every   *)
(* interleaving, kill and replay, for any number of tables, sessions and   *)
(* statements: what recovery rebuilds from files and log included.         *)
THEOREM TypeCorrect == Spec => []TypeOK
  BY Typed, Torn, TypeInvOK, PTL

-----------------------------------------------------------------------------
(* Rows and the schemas they were written under.                           *)

Sound == damage \cap {"overtaken", "replayed", "fileLeft", "unsaved"} = {}

(* The schemas that count: the catalog's, and while the database is down   *)
(* the ones that it will open with.                                        *)
Schema == IF up THEN catalog ELSE meta

Of(S, t, T) == t \in DOMAIN S /\ \A id \in DOMAIN T.rows : T.rows[id].gen = S[t].gen
At(ss, pcs, t) == \E s \in Sessions : ss[s].pc \in pcs /\ ss[s].table = t

MemoryBelongs(S, ss, T) == \A t \in DOMAIN T : Of(S, t, T[t]) \/ At(ss, {"dropMem"}, t)
FilesBelong(S, ss, F) == \A t \in DOMAIN F : Of(S, t, F[t]) \/ At(ss, {"dropMem", "dropFile"}, t)
RecordBelongs(S, r) == r.table \in DOMAIN S /\ (r.kind # "Delete" => r.row.gen = S[r.table].gen)
LogBelongs(S, w) == \A i \in 1..Len(w) : RecordBelongs(S, w[i])
WriterBelongs(S, b) == b.pc = "writeRow" => b.table \in DOMAIN S /\ b.gen = S[b.table].gen
WritersBelong(S, ss) == \A s \in Sessions : WriterBelongs(S, ss[s])

(* What is in memory, in a file, in the log or about to be written is of   *)
(* the schema there is, but for a table that a DROP TABLE is still taking  *)
(* apart.                                                                  *)
BelongInv ==
    Sound =>
        /\ MemoryBelongs(Schema, sess, tables) /\ FilesBelong(Schema, sess, files)
        /\ "logged" \notin damage => LogBelongs(Schema, log.wal)
        /\ WritersBelong(Schema, sess)

(* A kill in the middle of a DROP TABLE is one before it was persisted.    *)
Dropping == {"dropMem", "dropFile"}
DropInv ==
    /\ \A s \in Sessions : sess[s].pc \in Dropping => sess[s].table \in sess[s].touched
    /\ ~up => DOMAIN catalog = {}

LEMMA BelongStep ==
    ASSUME Sound' => /\ MemoryBelongs(Schema', sess', tables') /\ FilesBelong(Schema', sess', files')
                     /\ "logged" \notin damage' => LogBelongs(Schema', log'.wal)
                     /\ WritersBelong(Schema', sess')
    PROVE  BelongInv'
  BY DEF BelongInv, MemoryBelongs, FilesBelong, LogBelongs, RecordBelongs, WritersBelong,
         WriterBelongs, Of, At

LEMMA DropStep ==
    ASSUME \A s \in Sessions : sess'[s].pc \in Dropping => sess'[s].table \in sess'[s].touched,
           ~up' => DOMAIN catalog' = {}
    PROVE  DropInv'
  BY DEF DropInv, Dropping

LEMMA BatchDomain ==
    ASSUME IInv, NEW s \in Sessions
    PROVE  DOMAIN sess[s] = DOMAIN NewBatch /\ DOMAIN sess = Sessions
  BY DEF IInv, SessInv, BatchOK

(* The other sessions keep what the invariants say of them.                *)
Others(s) ==
    \A u \in Sessions : u # s =>
        /\ sess'[u].pc = sess[u].pc /\ sess'[u].table = sess[u].table
        /\ sess'[u].gen = sess[u].gen /\ sess'[u].touched = sess[u].touched

LEMMA OnlyOthers ==
    ASSUME IInv, NEW s \in Sessions, NEW me, Only(s, me)
    PROVE  Others(s) /\ sess'[s] = me
  BY OnlyOne DEF Others

LEMMA FailsOthers ==
    ASSUME IInv, NEW s \in Sessions, Fails(s)
    PROVE  Others(s) /\ sess'[s].pc = "idle"
  <1>1. Only(s, NewBatch)
    BY DEF Fails, Only
  <1> QED
    BY <1>1, OnlyOthers, NewBatchOK

LEMMA DoneOthers ==
    ASSUME IInv, NEW s \in Sessions, NEW changed, Only(s, Done(s, changed))
    PROVE  Others(s) /\ sess'[s].pc = "more"
  <1>1. Done(s, changed).pc = "more"
    BY DEF Done, NewBatch
  <1> QED
    BY <1>1, OnlyOthers

LEMMA TouchOthers ==
    ASSUME IInv, NEW s \in Sessions, NEW t, NEW me, DOMAIN me = DOMAIN NewBatch, Touch(s, t, me)
    PROVE  /\ Others(s) /\ sess'[s].pc = me.pc /\ sess'[s].table = me.table
           /\ t \in sess'[s].touched
  <1>1. sess'[s] = [me EXCEPT !.touched = @ \cup {t}]
    BY DEF Touch
  <1>2. sess'[s].pc = me.pc /\ sess'[s].table = me.table
    BY <1>1, BatchFields
  <1>3. sess'[s].touched = me.touched \cup {t}
    BY <1>1, BatchFields
  <1>4. ASSUME NEW u \in Sessions, u # s
        PROVE  /\ sess'[u].pc = sess[u].pc /\ sess'[u].table = sess[u].table
               /\ sess'[u].gen = sess[u].gen /\ sess'[u].touched = sess[u].touched
    <2>1. sess'[u] = sess[u] \/ sess'[u] = [sess[u] EXCEPT !.old = @ \cup {t}]
      BY <1>4 DEF Touch
    <2> QED
      BY <2>1, BatchDomain, BatchFields
  <1> QED
    BY <1>2, <1>3, <1>4 DEF Others

(* A session goes a step that neither rows nor the gens of the schemas     *)
(* see, and no DROP TABLE is at the table or its file.                     *)
LEMMA QuietStep ==
    ASSUME IInv, DropInv, BelongInv, up, up', NEW s \in Sessions, Others(s),
           UNCHANGED <<tables, files, log>>,
           DOMAIN catalog' = DOMAIN catalog, \A t \in DOMAIN catalog : catalog'[t].gen = catalog[t].gen,
           sess[s].pc \notin Dropping, sess'[s].pc \notin Dropping,
           sess'[s].pc = "writeRow" => WriterBelongs(catalog, sess'[s]),
           damage \subseteq damage'
    PROVE  BelongInv' /\ DropInv'
  <1>1. \A u \in Sessions : sess[u].pc \in Dropping => sess'[u].pc = sess[u].pc /\ sess'[u].table = sess[u].table
    BY DEF Others
  <1>2. \A t, pcs : pcs \subseteq Dropping /\ At(sess, pcs, t) => At(sess', pcs, t)
    BY <1>1 DEF At
  <1>3. \A t, T : Of(catalog, t, T) => Of(catalog', t, T)
    BY DEF Of
  <1>4. Schema = catalog /\ Schema' = catalog'
    BY DEF Schema
  <1>5. ASSUME Sound'
        PROVE  /\ MemoryBelongs(catalog', sess', tables') /\ FilesBelong(catalog', sess', files')
               /\ "logged" \notin damage' => LogBelongs(catalog', log'.wal)
               /\ WritersBelong(catalog', sess')
    <2>1. Sound
      BY <1>5 DEF Sound
    <2>2. MemoryBelongs(catalog, sess, tables) /\ FilesBelong(catalog, sess, files)
      BY <1>4, <2>1 DEF BelongInv
    <2>3. MemoryBelongs(catalog', sess', tables')
      BY <1>2, <1>3, <2>2 DEF MemoryBelongs, Dropping
    <2>4. FilesBelong(catalog', sess', files')
      BY <1>2, <1>3, <2>2 DEF FilesBelong, Dropping
    <2>5. "logged" \notin damage' => LogBelongs(catalog', log'.wal)
      BY <1>4, <2>1 DEF BelongInv, LogBelongs, RecordBelongs
    <2>6. WritersBelong(catalog', sess')
      <3>1. WritersBelong(catalog, sess)
        BY <1>4, <2>1 DEF BelongInv
      <3> QED
        BY <3>1 DEF WritersBelong, WriterBelongs, Others
    <2> QED
      BY <2>3, <2>4, <2>5, <2>6
  <1>6. \A u \in Sessions : sess'[u].pc \in Dropping => sess'[u].table \in sess'[u].touched
    BY DEF Others, DropInv
  <1> QED
    BY <1>4, <1>5, <1>6, BelongStep, DropStep

(* CREATE INDEX, and the steps on the index manager.                       *)
LEMMA IndexStepsBelong ==
    ASSUME IInv, TypeInv, DropInv, BelongInv, NEW s \in Sessions,
           CreateIndexTree(s) \/ AddIndex(s) \/ DropIndexes(s)
           \/ \E t \in Tables : CreateIndex(s, t)
    PROVE  BelongInv' /\ DropInv'
  <1>1. /\ up /\ up' /\ damage' = damage /\ UNCHANGED <<tables, files, log>>
        /\ sess[s].pc \in {"create", "add", "dropIdx", "idle", "more"}
    <2>1. CASE CreateIndexTree(s)
      BY <2>1 DEF CreateIndexTree
    <2>2. CASE AddIndex(s)
      BY <2>2 DEF AddIndex
    <2>3. CASE DropIndexes(s)
      BY <2>3 DEF DropIndexes
    <2>4. CASE \E t \in Tables : CreateIndex(s, t)
      BY <2>4 DEF CreateIndex, Ready
    <2> QED
      BY <2>1, <2>2, <2>3, <2>4
  <1>2. Others(s) /\ sess'[s].pc \in {"idle", "more", "create", "add"}
    <2>1. CASE Fails(s)
      BY <2>1, FailsOthers
    <2>2. ASSUME NEW changed, Only(s, Done(s, changed))
          PROVE  Others(s) /\ sess'[s].pc = "more"
      BY <2>2, DoneOthers
    <2>3. CASE sess' = [sess EXCEPT ![s].pc = "add"]
      <3>1. Only(s, [sess[s] EXCEPT !.pc = "add"])
        BY <2>3 DEF Only
      <3> QED
        BY <3>1, OnlyOthers, BatchDomain, BatchFields
    <2>4. ASSUME Touch(s, sess[s].table, Done(s, TRUE))
          PROVE  Others(s) /\ sess'[s].pc = "more"
      <3>1. DOMAIN Done(s, TRUE) = DOMAIN NewBatch /\ Done(s, TRUE).pc = "more"
        BY DEF Done, NewBatch
      <3> QED
        BY <2>4, <3>1, TouchOthers
    <2>5. ASSUME NEW t, sess' = [sess EXCEPT ![s] = [Statement(s, "create", t) EXCEPT !.index = "idx"]]
          PROVE  Others(s) /\ sess'[s].pc = "create"
      <3>1. PICK me : me = [Statement(s, "create", t) EXCEPT !.index = "idx"]
        OBVIOUS
      <3>2. me.pc = "create"
        BY <3>1, BatchDomain, BatchFields DEF Statement
      <3>3. Only(s, me)
        BY <2>5, <3>1 DEF Only
      <3> QED
        BY <3>2, <3>3, OnlyOthers
    <2>6. CASE CreateIndexTree(s)
      BY <2>1, <2>3, <2>6 DEF CreateIndexTree
    <2>7. CASE AddIndex(s)
      BY <2>1, <2>4, <2>7 DEF AddIndex
    <2>8. CASE DropIndexes(s)
      BY <2>2, <2>8 DEF DropIndexes, Only
    <2>9. CASE \E t \in Tables : CreateIndex(s, t)
      BY <2>1, <2>5, <2>9 DEF CreateIndex
    <2> QED
      BY <2>6, <2>7, <2>8, <2>9
  <1>3. DOMAIN catalog' = DOMAIN catalog /\ \A t \in DOMAIN catalog : catalog'[t].gen = catalog[t].gen
    <2>1. CASE catalog' = catalog
      BY <2>1
    <2>2. CASE catalog' = [catalog EXCEPT ![sess[s].table].idx = @ \cup {sess[s].index}]
      BY <2>2 DEF TypeInv, SchemasOK, Schemas
    <2> QED
      BY <2>1, <2>2 DEF CreateIndexTree, AddIndex, DropIndexes, CreateIndex
  <1> QED
    BY <1>1, <1>2, <1>3, QuietStep DEF Dropping

LEMMA PersistBelongs ==
    ASSUME IInv, TypeInv, DropInv, BelongInv, NEW s \in Sessions, PersistStep(s)
    PROVE  BelongInv' /\ DropInv'
  <1>1. /\ up /\ up' /\ damage' = damage /\ UNCHANGED <<catalog, tables, files, log>>
        /\ sess[s].pc \in {"more", "snapshot", "open", "write"}
    <2>1. CASE EndBatch(s)
      BY <2>1 DEF EndBatch
    <2>2. CASE \E t \in Tables : SnapshotTable(s, t)
      BY <2>2 DEF SnapshotTable
    <2>3. CASE OpenMeta(s)
      BY <2>3 DEF OpenMeta
    <2>4. CASE WriteMeta(s)
      BY <2>4 DEF WriteMeta
    <2>5. CASE WriteMetaFails(s)
      BY <2>5 DEF WriteMetaFails
    <2> QED
      BY <2>1, <2>2, <2>3, <2>4, <2>5 DEF PersistStep
  <1>2. Others(s) /\ sess'[s].pc \in {"idle", "snapshot", "open", "write"}
    <2>1. CASE Fails(s)
      BY <2>1, FailsOthers
    <2>2. CASE Only(s, NewBatch)
      BY <2>2, OnlyOthers, NewBatchOK
    <2>3. ASSUME NEW pc \in {"snapshot", "write"}, sess' = [sess EXCEPT ![s].pc = pc]
          PROVE  Others(s) /\ sess'[s].pc = pc
      <3>1. Only(s, [sess[s] EXCEPT !.pc = pc])
        BY <2>3 DEF Only
      <3> QED
        BY <3>1, OnlyOthers, BatchDomain, BatchFields
    <2>4. ASSUME NEW t \in Tables, SnapshotTable(s, t)
          PROVE  Others(s) /\ sess'[s].pc \in {"snapshot", "open"}
      <3> DEFINE read == sess[s].read \cup {t}
                 snap == IF t \in DOMAIN catalog THEN Put(sess[s].snap, t, catalog[t]) ELSE sess[s].snap
                 pc == IF read = Tables THEN "open" ELSE sess[s].pc
      <3>1. PICK me : me = [sess[s] EXCEPT !.read = read, !.snap = snap, !.pc = pc]
        OBVIOUS
      <3>2. Only(s, me) /\ sess[s].pc = "snapshot"
        BY <2>4, <3>1 DEF SnapshotTable, Only
      <3>3. me.pc \in {"snapshot", "open"}
        BY <3>1, <3>2, BatchDomain, BatchFields
      <3> QED
        BY <3>2, <3>3, OnlyOthers
    <2>5. CASE EndBatch(s)
      BY <2>2, <2>3, <2>5 DEF EndBatch, Only
    <2>6. CASE OpenMeta(s)
      BY <2>1, <2>3, <2>6 DEF OpenMeta
    <2>7. CASE WriteMeta(s) \/ WriteMetaFails(s)
      BY <2>2, <2>7 DEF WriteMeta, WriteMetaFails, Only
    <2> QED
      BY <2>4, <2>5, <2>6, <2>7 DEF PersistStep
  <1> QED
    BY <1>1, <1>2, QuietStep DEF Dropping

LEMMA LookupBelongs ==
    ASSUME IInv, TypeInv, DropInv, BelongInv, NEW s \in Sessions, NEW t \in Tables,
           StartInsert(s, t) \/ Missing(s, t)
           \/ \E id \in DOMAIN Rows(t), kind \in {"Update", "Delete"} : StartScan(s, t, kind, id)
    PROVE  BelongInv' /\ DropInv'
  <1>1. /\ up /\ up' /\ damage' = damage /\ UNCHANGED <<catalog, tables, files, log>>
        /\ sess[s].pc \in {"more", "idle"}
    <2>1. CASE StartInsert(s, t)
      BY <2>1 DEF StartInsert, Ready
    <2>2. CASE Missing(s, t)
      BY <2>2 DEF Missing, Ready
    <2>3. ASSUME NEW id, NEW kind, StartScan(s, t, kind, id)
          PROVE  /\ up /\ up' /\ damage' = damage /\ UNCHANGED <<catalog, tables, files, log>>
                 /\ sess[s].pc \in {"more", "idle"}
      BY <2>3 DEF StartScan, Ready
    <2> QED
      BY <2>1, <2>2, <2>3
  <1>2. /\ Others(s) /\ sess'[s].pc \in {"idle", "writeRow"}
        /\ sess'[s].pc = "writeRow" => WriterBelongs(catalog, sess'[s])
    <2>1. CASE Missing(s, t)
      BY <2>1, FailsOthers DEF Missing
    <2>2. CASE StartInsert(s, t)
      <3>1. PICK me : me = [Statement(s, "writeRow", t) EXCEPT !.kind = "Insert", !.gen = catalog[t].gen]
        OBVIOUS
      <3>2. Only(s, me) /\ t \in DOMAIN catalog
        BY <2>2, <3>1 DEF StartInsert, Only
      <3>3. me.pc = "writeRow" /\ me.table = t /\ me.gen = catalog[t].gen
        BY <3>1, BatchDomain, BatchFields DEF Statement
      <3> QED
        BY <3>2, <3>3, OnlyOthers DEF WriterBelongs
    <2>3. ASSUME NEW id \in DOMAIN Rows(t), NEW kind \in {"Update", "Delete"}, StartScan(s, t, kind, id)
          PROVE  /\ Others(s) /\ sess'[s].pc \in {"idle", "writeRow"}
                 /\ sess'[s].pc = "writeRow" => WriterBelongs(catalog, sess'[s])
      <3>1. PICK me : me = [Statement(s, "writeRow", t) EXCEPT !.kind = kind, !.gen = catalog[t].gen,
                                                               !.id = id, !.row = Rows(t)[id]]
        OBVIOUS
      <3>2. Only(s, me) /\ t \in DOMAIN catalog
        BY <2>3, <3>1 DEF StartScan, Only
      <3>3. me.pc = "writeRow" /\ me.table = t /\ me.gen = catalog[t].gen
        BY <3>1, BatchDomain, BatchFields DEF Statement
      <3> QED
        BY <3>2, <3>3, OnlyOthers DEF WriterBelongs
    <2> QED
      BY <2>1, <2>2, <2>3
  <1> QED
    BY <1>1, <1>2, QuietStep DEF Dropping

(* What BelongInv says while the database is open.                         *)
LEMMA Belonging ==
    ASSUME BelongInv, up, Sound
    PROVE  /\ MemoryBelongs(catalog, sess, tables) /\ FilesBelong(catalog, sess, files)
           /\ "logged" \notin damage => LogBelongs(catalog, log.wal)
           /\ WritersBelong(catalog, sess)
  BY DEF BelongInv, Schema

LEMMA BelongUp ==
    ASSUME up',
           Sound' => /\ MemoryBelongs(catalog', sess', tables') /\ FilesBelong(catalog', sess', files')
                     /\ "logged" \notin damage' => LogBelongs(catalog', log'.wal)
                     /\ WritersBelong(catalog', sess')
    PROVE  BelongInv'
  <1>1. Schema' = catalog'
    BY DEF Schema
  <1> QED
    BY <1>1, BelongStep

(* CREATE TABLE finds nothing of the table: a drop of it has ended, or its *)
(* failure left the file, and is known.                                    *)
LEMMA CreateTableBelongs ==
    ASSUME IInv, TypeInv, DropInv, BelongInv, NEW s \in Sessions, NEW t \in Tables, NEW index,
           CreateTable(s, t, index)
    PROVE  BelongInv' /\ DropInv'
  <1>1. /\ up /\ up' /\ damage' = damage /\ UNCHANGED <<tables, files, log>> /\ ~Locked(t)
        /\ sess[s].pc \in {"more", "idle"}
    BY DEF CreateTable, Ready
  <1>2. CASE t \in DOMAIN catalog
    <2>1. Fails(s) /\ catalog' = catalog
      BY <1>2 DEF CreateTable
    <2> QED
      BY <1>1, <2>1, FailsOthers, QuietStep DEF Dropping
  <1>3. CASE t \notin DOMAIN catalog
    <2>1. PICK me : me = [Statement(s, "ensure", t) EXCEPT !.index = index]
      OBVIOUS
    <2>2. /\ catalog' = Put(catalog, t, [gen |-> stmts + 1, idx |-> {}]) /\ Touch(s, t, me)
      BY <1>3, <2>1 DEF CreateTable
    <2>3. DOMAIN me = DOMAIN NewBatch /\ me.pc = "ensure"
      BY <2>1, BatchDomain, BatchFields DEF Statement
    <2>4. Others(s) /\ sess'[s].pc = "ensure"
      BY <2>2, <2>3, TouchOthers
    <2>5. \A u \in DOMAIN catalog : u \in DOMAIN catalog' /\ catalog'[u] = catalog[u]
      BY <1>3, <2>2 DEF Put
    <2>6. \A u, T : Of(catalog, u, T) => Of(catalog', u, T)
      BY <2>5 DEF Of
    <2>7. \A u, pcs : pcs \subseteq Dropping /\ At(sess, pcs, u) => At(sess', pcs, u)
      BY <1>1, <2>4 DEF At, Others, Dropping
    <2>8. ASSUME Sound'
          PROVE  /\ MemoryBelongs(catalog', sess', tables') /\ FilesBelong(catalog', sess', files')
                 /\ "logged" \notin damage' => LogBelongs(catalog', log'.wal)
                 /\ WritersBelong(catalog', sess')
      <3>1. Sound
        BY <1>1, <2>8 DEF Sound
      <3>2. MemoryBelongs(catalog', sess', tables')
        BY <1>1, <2>6, <2>7, <3>1, Belonging DEF MemoryBelongs, Dropping
      <3>3. FilesBelong(catalog', sess', files')
        BY <1>1, <2>6, <2>7, <3>1, Belonging DEF FilesBelong, Dropping
      <3>4. "logged" \notin damage' => LogBelongs(catalog', log'.wal)
        BY <1>1, <2>5, <3>1, Belonging DEF LogBelongs, RecordBelongs
      <3>5. WritersBelong(catalog', sess')
        BY <1>1, <2>4, <2>5, <3>1, Belonging DEF WritersBelong, WriterBelongs, Others
      <3> QED
        BY <3>2, <3>3, <3>4, <3>5
    <2>9. DropInv'
      BY <1>1, <2>4, DropStep DEF Others, DropInv, Dropping
    <2> QED
      BY <1>1, <2>8, <2>9, BelongUp
  <1> QED
    BY <1>2, <1>3

LEMMA EnsureTableBelongs ==
    ASSUME IInv, TypeInv, DropInv, BelongInv, NEW s \in Sessions, EnsureTable(s)
    PROVE  BelongInv' /\ DropInv'
  <1> DEFINE t == sess[s].table
  <1>1. /\ up /\ up' /\ damage' = damage /\ UNCHANGED <<catalog, files, log>>
        /\ sess[s].pc = "ensure" /\ tables' = OrInsert(tables, t, EmptyTable)
    BY DEF EnsureTable
  <1>2. Others(s) /\ sess'[s].pc \in {"more", "create"}
    <2>1. CASE Only(s, Done(s, TRUE))
      BY <2>1, DoneOthers
    <2>2. CASE Only(s, [sess[s] EXCEPT !.pc = "create"])
      BY <2>2, OnlyOthers, BatchDomain, BatchFields
    <2> QED
      BY <2>1, <2>2 DEF EnsureTable, Only
  <1>3. t \in DOMAIN catalog
    BY <1>1 DEF IInv, DdlInv, DdlOK
  <1>4. \A u, pcs : pcs \subseteq Dropping /\ At(sess, pcs, u) => At(sess', pcs, u)
    BY <1>1, <1>2 DEF At, Others, Dropping
  <1>5. ASSUME Sound'
        PROVE  /\ MemoryBelongs(catalog', sess', tables') /\ FilesBelong(catalog', sess', files')
               /\ "logged" \notin damage' => LogBelongs(catalog', log'.wal)
               /\ WritersBelong(catalog', sess')
    <2>1. Sound
      BY <1>1, <1>5 DEF Sound
    <2>2. \A u \in DOMAIN tables' :
             (u \in DOMAIN tables /\ tables'[u] = tables[u]) \/ (u = t /\ tables'[u] = EmptyTable)
      <3>1. PICK T : T = EmptyTable
        OBVIOUS
      <3>2. tables' = OrInsert(tables, t, T)
        BY <1>1, <3>1
      <3>3. \A u \in DOMAIN tables' : (u \in DOMAIN tables /\ tables'[u] = tables[u]) \/ (u = t /\ tables'[u] = T)
        BY <3>2 DEF OrInsert, Put
      <3> QED
        BY <3>1, <3>3
    <2>3. Of(catalog, t, EmptyTable)
      BY <1>3 DEF Of, EmptyTable
    <2>4. MemoryBelongs(catalog', sess', tables')
      BY <1>1, <1>4, <2>1, <2>2, <2>3, Belonging DEF MemoryBelongs, Dropping
    <2>5. FilesBelong(catalog', sess', files')
      BY <1>1, <1>4, <2>1, Belonging DEF FilesBelong, Dropping
    <2>6. WritersBelong(catalog', sess')
      BY <1>1, <1>2, <2>1, Belonging DEF WritersBelong, WriterBelongs, Others
    <2> QED
      BY <1>1, <2>1, <2>4, <2>5, <2>6, Belonging
  <1>6. DropInv'
    BY <1>1, <1>2, DropStep DEF Others, DropInv, Dropping
  <1> QED
    BY <1>1, <1>5, <1>6, BelongUp

(* DROP TABLE.                                                             *)
LEMMA DropTableBelongs ==
    ASSUME IInv, TypeInv, DropInv, BelongInv, NEW s \in Sessions, NEW t \in Tables, DropTable(s, t)
    PROVE  BelongInv' /\ DropInv'
  <1>1. /\ up /\ up' /\ UNCHANGED <<tables, files, log>> /\ sess[s].pc \in {"more", "idle"}
    BY DEF DropTable, Ready
  <1>2. CASE t \notin DOMAIN catalog
    <2>1. Fails(s) /\ catalog' = catalog /\ damage' = damage
      BY <1>2 DEF DropTable
    <2> QED
      BY <1>1, <2>1, FailsOthers, QuietStep DEF Dropping
  <1>3. CASE t \in DOMAIN catalog
    <2>1. PICK me : me = Statement(s, "dropMem", t)
      OBVIOUS
    <2>2. /\ catalog' = Without(catalog, t) /\ Touch(s, t, me)
          /\ damage' = damage \cup (IF InFlight(t) THEN {"overtaken"} ELSE {})
                              \cup (IF Logged(t) THEN {"logged"} ELSE {})
      BY <1>3, <2>1 DEF DropTable
    <2>3. DOMAIN me = DOMAIN NewBatch /\ me.pc = "dropMem" /\ me.table = t
      BY <2>1, BatchDomain, BatchFields DEF Statement
    <2>4. Others(s) /\ sess'[s].pc = "dropMem" /\ sess'[s].table = t /\ t \in sess'[s].touched
      BY <2>2, <2>3, TouchOthers
    <2>5. \A u \in DOMAIN catalog : u # t => u \in DOMAIN catalog' /\ catalog'[u] = catalog[u]
      BY <2>2 DEF Without, Restrict
    <2>6. \A u, T : u # t /\ Of(catalog, u, T) => Of(catalog', u, T)
      BY <2>5 DEF Of
    <2>7. /\ \A u, pcs : pcs \subseteq Dropping /\ At(sess, pcs, u) => At(sess', pcs, u)
          /\ At(sess', {"dropMem"}, t) /\ At(sess', {"dropMem", "dropFile"}, t)
      BY <1>1, <2>4 DEF At, Others, Dropping
    <2>8. ASSUME Sound'
          PROVE  /\ MemoryBelongs(catalog', sess', tables') /\ FilesBelong(catalog', sess', files')
                 /\ "logged" \notin damage' => LogBelongs(catalog', log'.wal)
                 /\ WritersBelong(catalog', sess')
      <3>1. Sound /\ ~InFlight(t)
        BY <2>2, <2>8 DEF Sound
      <3>2. MemoryBelongs(catalog', sess', tables')
        BY <1>1, <2>6, <2>7, <3>1, Belonging DEF MemoryBelongs, Dropping
      <3>3. FilesBelong(catalog', sess', files')
        BY <1>1, <2>6, <2>7, <3>1, Belonging DEF FilesBelong, Dropping
      <3>4. ASSUME "logged" \notin damage'
            PROVE  LogBelongs(catalog', log'.wal)
        <4>1. ~Logged(t) /\ "logged" \notin damage
          BY <2>2, <3>4
        <4>2. LogBelongs(catalog, log.wal)
          BY <1>1, <3>1, <4>1, Belonging
        <4>3. \A i \in 1..Len(log.wal) : log.wal[i].table # t
          BY <4>1 DEF Logged, TypeInv, LogOK
        <4> QED
          BY <1>1, <2>5, <4>2, <4>3 DEF LogBelongs, RecordBelongs
      <3>5. WritersBelong(catalog', sess')
        <4>1. WritersBelong(catalog, sess)
          BY <1>1, <3>1, Belonging
        <4>2. \A u \in Sessions : sess[u].pc = "writeRow" => sess[u].table # t
          BY <3>1 DEF InFlight
        <4> QED
          BY <2>4, <2>5, <4>1, <4>2 DEF WritersBelong, WriterBelongs, Others
      <3> QED
        BY <3>2, <3>3, <3>4, <3>5
    <2>9. DropInv'
      BY <1>1, <2>4, DropStep DEF Others, DropInv, Dropping
    <2> QED
      BY <1>1, <2>8, <2>9, BelongUp
  <1> QED
    BY <1>2, <1>3

LEMMA DropStepsBelong ==
    ASSUME IInv, TypeInv, DropInv, BelongInv, NEW s \in Sessions, DropFromMemory(s) \/ DropFile(s)
    PROVE  BelongInv' /\ DropInv'
  <1> DEFINE t == sess[s].table
  <1>1. ASSUME NEW pc \in {"dropFile", "dropIdx"}, sess' = [sess EXCEPT ![s].pc = pc]
        PROVE  Others(s) /\ sess'[s].pc = pc /\ sess'[s].table = t /\ sess'[s].touched = sess[s].touched
    <2>1. Only(s, [sess[s] EXCEPT !.pc = pc])
      BY <1>1 DEF Only
    <2> QED
      BY <2>1, OnlyOthers, BatchDomain, BatchFields
  <1>2. CASE DropFromMemory(s)
    <2>1. /\ up /\ up' /\ damage' = damage /\ UNCHANGED <<catalog, files, log>>
          /\ sess[s].pc = "dropMem" /\ tables' = Without(tables, t)
          /\ sess' = [sess EXCEPT ![s].pc = "dropFile"]
      BY <1>2 DEF DropFromMemory
    <2>2. Others(s) /\ sess'[s].pc = "dropFile" /\ sess'[s].table = t /\ sess'[s].touched = sess[s].touched
      BY <1>1, <2>1
    <2>3. /\ \A u : u # t /\ At(sess, {"dropMem"}, u) => At(sess', {"dropMem"}, u)
          /\ \A u : At(sess, {"dropMem", "dropFile"}, u) => At(sess', {"dropMem", "dropFile"}, u)
      BY <2>1, <2>2 DEF At, Others
    <2>4. ASSUME Sound'
          PROVE  /\ MemoryBelongs(catalog', sess', tables') /\ FilesBelong(catalog', sess', files')
                 /\ "logged" \notin damage' => LogBelongs(catalog', log'.wal)
                 /\ WritersBelong(catalog', sess')
      <3>1. Sound
        BY <2>1, <2>4 DEF Sound
      <3>2. \A u \in DOMAIN tables' : u # t /\ u \in DOMAIN tables /\ tables'[u] = tables[u]
        BY <2>1 DEF Without, Restrict
      <3>3. MemoryBelongs(catalog', sess', tables')
        BY <2>1, <2>3, <3>1, <3>2, Belonging DEF MemoryBelongs
      <3>4. FilesBelong(catalog', sess', files')
        BY <2>1, <2>3, <3>1, Belonging DEF FilesBelong
      <3>5. WritersBelong(catalog', sess')
        BY <2>1, <2>2, <3>1, Belonging DEF WritersBelong, WriterBelongs, Others
      <3> QED
        BY <2>1, <3>1, <3>3, <3>4, <3>5, Belonging
    <2>5. DropInv'
      BY <2>1, <2>2, DropStep DEF Others, DropInv, Dropping
    <2> QED
      BY <2>1, <2>4, <2>5, BelongUp
  <1>3. CASE DropFile(s)
    <2>1. up /\ up' /\ UNCHANGED <<catalog, tables, log>> /\ sess[s].pc = "dropFile"
      BY <1>3 DEF DropFile
    <2>2. CASE Fails(s) /\ damage' = damage \cup {"fileLeft", "indexesLeft"}
      <3>1. ~Sound'
        BY <2>2 DEF Sound
      <3>2. Others(s) /\ sess'[s].pc = "idle"
        BY <2>2, FailsOthers
      <3>3. DropInv'
        BY <2>1, <3>2, DropStep DEF Others, DropInv, Dropping
      <3> QED
        BY <3>1, <3>3, BelongStep
    <2>3. CASE /\ files' = Without(files, t) /\ sess' = [sess EXCEPT ![s].pc = "dropIdx"]
               /\ damage' = damage
      <3>1. Others(s) /\ sess'[s].pc = "dropIdx"
        BY <1>1, <2>3
      <3>2. /\ \A u : At(sess, {"dropMem"}, u) => At(sess', {"dropMem"}, u)
            /\ \A u : u # t /\ At(sess, {"dropMem", "dropFile"}, u) => At(sess', {"dropMem", "dropFile"}, u)
        BY <2>1, <3>1 DEF At, Others
      <3>3. ASSUME Sound'
            PROVE  /\ MemoryBelongs(catalog', sess', tables') /\ FilesBelong(catalog', sess', files')
                   /\ "logged" \notin damage' => LogBelongs(catalog', log'.wal)
                   /\ WritersBelong(catalog', sess')
        <4>1. Sound
          BY <2>3, <3>3 DEF Sound
        <4>2. \A u \in DOMAIN files' : u # t /\ u \in DOMAIN files /\ files'[u] = files[u]
          BY <2>3 DEF Without, Restrict
        <4>3. MemoryBelongs(catalog', sess', tables')
          BY <2>1, <3>2, <4>1, Belonging DEF MemoryBelongs
        <4>4. FilesBelong(catalog', sess', files')
          BY <2>1, <3>2, <4>1, <4>2, Belonging DEF FilesBelong
        <4>5. WritersBelong(catalog', sess')
          BY <2>1, <3>1, <4>1, Belonging DEF WritersBelong, WriterBelongs, Others
        <4> QED
          BY <2>1, <2>3, <4>1, <4>3, <4>4, <4>5, Belonging
      <3>4. DropInv'
        BY <2>1, <3>1, DropStep DEF Others, DropInv, Dropping
      <3> QED
        BY <2>1, <3>3, <3>4, BelongUp
    <2> QED
      BY <1>3, <2>2, <2>3 DEF DropFile
  <1> QED
    BY <1>2, <1>3

(* The writes of INSERT, UPDATE and DELETE.                                *)
LEMMA WriterTable ==
    ASSUME IInv, BelongInv, up, Sound, NEW s \in Sessions, sess[s].pc = "writeRow"
    PROVE  /\ sess[s].table \in DOMAIN catalog /\ sess[s].gen = catalog[sess[s].table].gen
           /\ sess[s].table \in DOMAIN tables => Of(catalog, sess[s].table, tables[sess[s].table])
  <1>1. sess[s].table \in DOMAIN catalog /\ sess[s].gen = catalog[sess[s].table].gen
    BY Belonging DEF WritersBelong, WriterBelongs
  <1>2. ~At(sess, {"dropMem"}, sess[s].table)
    BY <1>1 DEF At, IInv, DdlInv, DdlOK
  <1> QED
    BY <1>1, <1>2, Belonging DEF MemoryBelongs

LEMMA MemoryPut ==
    ASSUME BelongInv, up, Sound, NEW t, NEW T, Of(catalog, t, T), NEW memory,
           \A u \in DOMAIN memory : (u \in DOMAIN tables /\ memory[u] = tables[u]) \/ (u = t /\ memory[u] = T)
    PROVE  MemoryBelongs(catalog, sess, memory)
  BY Belonging DEF MemoryBelongs

LEMMA CheckpointBelongs ==
    ASSUME NEW memory, NEW l, Checkpoint(memory, l), MemoryBelongs(catalog, sess, memory),
           FilesBelong(catalog, sess, files)
    PROVE  FilesBelong(catalog, sess, files') /\ LogBelongs(catalog, log'.wal)
  <1>1. \A t : At(sess, {"dropMem"}, t) => At(sess, {"dropMem", "dropFile"}, t)
    BY DEF At
  <1>2. \A t \in DOMAIN files' :
           (t \in DOMAIN memory /\ files'[t] = memory[t]) \/ (t \in DOMAIN files /\ files'[t] = files[t])
    BY DEF Checkpoint
  <1>3. log'.wal = <<>>
    BY DEF Checkpoint
  <1> QED
    BY <1>1, <1>2, <1>3 DEF FilesBelong, MemoryBelongs, LogBelongs

LEMMA WriteBelongs ==
    ASSUME IInv, TypeInv, DropInv, BelongInv, up, up', catalog' = catalog, NEW s \in Sessions,
           sess[s].pc = "writeRow", NEW memory, NEW r, RecordOK(r), r.lsn = log.lsn + 1,
           Write(s, memory, r),
           Sound => MemoryBelongs(catalog, sess, memory) /\ RecordBelongs(catalog, r)
    PROVE  BelongInv' /\ DropInv'
  <1>1. PICK l : l = [log EXCEPT !.lsn = @ + 1, !.wal = Append(@, r)]
    OBVIOUS
  <1>2. l.wal = Append(log.wal, r)
    BY <1>1, LogAppend
  <1>3. tables' = memory /\ Only(s, Done(s, FALSE))
    BY DEF Write, Only
  <1>4. Others(s) /\ sess'[s].pc = "more"
    BY <1>3, DoneOthers
  <1>5. \/ Checkpoint(memory, l) /\ damage' = damage \ {"logged"}
        \/ log' = l /\ files' = files /\ damage' = damage
    BY <1>1 DEF Write
  <1>6. \A t, pcs : pcs \subseteq Dropping /\ At(sess, pcs, t) => At(sess', pcs, t)
    BY <1>4 DEF At, Others, Dropping
  <1>7. ASSUME Sound'
        PROVE  /\ MemoryBelongs(catalog', sess', tables') /\ FilesBelong(catalog', sess', files')
               /\ "logged" \notin damage' => LogBelongs(catalog', log'.wal)
               /\ WritersBelong(catalog', sess')
    <2>1. Sound
      BY <1>5, <1>7 DEF Sound
    <2>2. MemoryBelongs(catalog, sess, memory) /\ RecordBelongs(catalog, r)
      BY <2>1
    <2>3. FilesBelong(catalog, sess, files') /\ ("logged" \notin damage' => LogBelongs(catalog, log'.wal))
      <3>1. CASE Checkpoint(memory, l)
        BY <2>1, <2>2, <3>1, Belonging, CheckpointBelongs
      <3>2. CASE log' = l /\ files' = files /\ damage' = damage
        <4>1. ASSUME "logged" \notin damage
              PROVE  LogBelongs(catalog, Append(log.wal, r))
          <5>1. LogBelongs(catalog, log.wal)
            BY <2>1, <4>1, Belonging
          <5>2. log.wal \in Seq(Records) /\ r \in Records
            BY DEF TypeInv, LogOK, RecordOK
          <5>3. /\ Len(Append(log.wal, r)) = Len(log.wal) + 1 /\ Len(log.wal) \in Nat
                /\ \A i \in 1..Len(log.wal) : Append(log.wal, r)[i] = log.wal[i]
                /\ Append(log.wal, r)[Len(log.wal) + 1] = r
            BY <5>2
          <5>4. PICK w : w = Append(log.wal, r)
            OBVIOUS
          <5>5. ASSUME NEW i \in 1..Len(w)
                PROVE  RecordBelongs(catalog, w[i])
            <6>1. CASE i = Len(log.wal) + 1
              BY <2>2, <5>3, <5>4, <6>1
            <6>2. CASE i # Len(log.wal) + 1
              <7>1. i \in 1..Len(log.wal)
                BY <5>3, <5>4, <6>2
              <7> QED
                BY <5>1, <5>3, <5>4, <7>1 DEF LogBelongs
            <6> QED
              BY <6>1, <6>2
          <5> QED
            BY <5>4, <5>5 DEF LogBelongs
        <4> QED
          BY <1>2, <2>1, <3>2, <4>1, Belonging
      <3> QED
        BY <1>5, <3>1, <3>2
    <2>4. MemoryBelongs(catalog', sess', tables')
      BY <1>3, <1>6, <2>2 DEF MemoryBelongs, Dropping
    <2>5. FilesBelong(catalog', sess', files')
      BY <1>6, <2>3 DEF FilesBelong, Dropping
    <2>6. WritersBelong(catalog', sess')
      BY <1>4, <2>1, Belonging DEF WritersBelong, WriterBelongs, Others
    <2> QED
      BY <2>3, <2>4, <2>5, <2>6
  <1>8. DropInv'
    BY <1>4, DropStep DEF Others, DropInv, Dropping
  <1> QED
    BY <1>7, <1>8, BelongUp

LEMMA InsertRowBelongs ==
    ASSUME IInv, TypeInv, DropInv, BelongInv, NEW s \in Sessions, InsertRow(s)
    PROVE  BelongInv' /\ DropInv'
  <1> DEFINE t == sess[s].table
             old == IF t \in DOMAIN tables THEN tables[t] ELSE EmptyTable
             row == [gen |-> sess[s].gen, ver |-> 1]
             new == [rows |-> Put(old.rows, old.next, row), next |-> old.next + 1]
             memory == Put(tables, t, new)
             r == Record(t, "Insert", old.next, row)
  <1>1. up /\ up' /\ catalog' = catalog /\ sess[s].pc = "writeRow" /\ Write(s, memory, r)
    BY DEF InsertRow
  <1>2. TableOK(old) /\ t \in Tables /\ sess[s].gen \in 1..MaxStmts
    BY <1>1, EmptyTableOK DEF TypeInv, TablesOK, BatchType
  <1>3. row \in RowType /\ row.gen = sess[s].gen
    BY <1>2 DEF RowType
  <1>4. ASSUME Sound
        PROVE  MemoryBelongs(catalog, sess, memory) /\ RecordBelongs(catalog, r)
    <2>1. /\ t \in DOMAIN catalog /\ sess[s].gen = catalog[t].gen
          /\ t \in DOMAIN tables => Of(catalog, t, tables[t])
      BY <1>1, <1>4, WriterTable
    <2>2. Of(catalog, t, old)
      BY <2>1 DEF Of, EmptyTable
    <2> HIDE DEF old, row
    <2>3. \A id \in DOMAIN new.rows : new.rows[id] = row \/ (id \in DOMAIN old.rows /\ new.rows[id] = old.rows[id])
      BY DEF Put
    <2>4. Of(catalog, t, new)
      BY <1>3, <2>1, <2>2, <2>3 DEF Of
    <2>5. RecordBelongs(catalog, r)
      BY <1>3, <2>1 DEF RecordBelongs, Record
    <2> HIDE DEF new
    <2>6. \A u \in DOMAIN memory : (u \in DOMAIN tables /\ memory[u] = tables[u]) \/ (u = t /\ memory[u] = new)
      BY DEF Put
    <2> HIDE DEF memory
    <2> QED
      BY <1>1, <1>4, <2>4, <2>5, <2>6, MemoryPut
  <1> HIDE DEF old, row
  <1>5. RecordOK(r) /\ r.lsn = log.lsn + 1
    <2>1. log.lsn + 1 \in Nat /\ old.next \in Nat \ {0}
      BY <1>2 DEF TypeInv, LogOK, TableOK
    <2> QED
      BY <1>2, <1>3, <2>1 DEF RecordOK, Records, Record, DataKinds
  <1> HIDE DEF memory, r
  <1> QED
    BY <1>1, <1>4, <1>5, WriteBelongs

LEMMA UpdateRowBelongs ==
    ASSUME IInv, TypeInv, DropInv, BelongInv, NEW s \in Sessions, UpdateRow(s)
    PROVE  BelongInv' /\ DropInv'
  <1> DEFINE t == sess[s].table
             id == sess[s].id
             row == [gen |-> sess[s].gen, ver |-> sess[s].row.ver + 1]
             new == [tables[t] EXCEPT !.rows = Put(@, id, row)]
             memory == [tables EXCEPT ![t].rows = Put(@, id, row)]
             r == Record(t, "Update", id, row)
  <1>1. up /\ up' /\ catalog' = catalog /\ sess[s].pc = "writeRow" /\ sess[s].kind = "Update"
    BY DEF UpdateRow
  <1>2. /\ t \in Tables /\ sess[s].gen \in 1..MaxStmts /\ id \in Nat \ {0}
        /\ sess[s].row \in RowType
    BY <1>1 DEF TypeInv, BatchType
  <1>3. row \in RowType /\ row.gen = sess[s].gen
    BY <1>2 DEF RowType
  <1>4. CASE Fails(s) /\ UNCHANGED <<tables, files, log, damage>>
    BY <1>1, <1>4, FailsOthers, QuietStep DEF Dropping
  <1>5. CASE Only(s, Done(s, FALSE)) /\ UNCHANGED <<tables, files, log, stale, damage>>
    BY <1>1, <1>5, DoneOthers, QuietStep DEF Dropping
  <1>6. CASE id \in DOMAIN Rows(t) /\ Write(s, memory, r)
    <2>1. t \in DOMAIN tables /\ TableOK(tables[t])
      BY <1>6 DEF Rows, TypeInv, TablesOK
    <2> HIDE DEF row
    <2>2. ASSUME Sound
          PROVE  MemoryBelongs(catalog, sess, memory) /\ RecordBelongs(catalog, r)
      <3>1. /\ t \in DOMAIN catalog /\ sess[s].gen = catalog[t].gen
            /\ Of(catalog, t, tables[t])
        BY <1>1, <2>1, <2>2, WriterTable
      <3>2. new.rows = Put(tables[t].rows, id, row)
        BY <2>1 DEF TableOK
      <3>3. \A x \in DOMAIN new.rows : new.rows[x] = row \/ (x \in DOMAIN tables[t].rows /\ new.rows[x] = tables[t].rows[x])
        BY <3>2 DEF Put
      <3>4. memory = [tables EXCEPT ![t] = new]
        OBVIOUS
      <3> HIDE DEF new, memory
      <3>5. Of(catalog, t, new)
        BY <1>3, <3>1, <3>3 DEF Of
      <3>6. RecordBelongs(catalog, r)
        BY <1>3, <3>1 DEF RecordBelongs, Record
      <3>7. \A u \in DOMAIN memory : (u \in DOMAIN tables /\ memory[u] = tables[u]) \/ (u = t /\ memory[u] = new)
        BY <3>4
      <3> QED
        BY <1>1, <2>2, <3>5, <3>6, <3>7, MemoryPut
    <2>3. RecordOK(r) /\ r.lsn = log.lsn + 1
      <3>1. log.lsn + 1 \in Nat
        BY DEF TypeInv, LogOK
      <3> QED
        BY <1>2, <1>3, <3>1 DEF RecordOK, Records, Record, DataKinds
    <2> HIDE DEF memory, r
    <2> QED
      BY <1>1, <1>6, <2>2, <2>3, WriteBelongs
  <1> QED
    BY <1>4, <1>5, <1>6 DEF UpdateRow, Only

LEMMA DeleteRowBelongs ==
    ASSUME IInv, TypeInv, DropInv, BelongInv, NEW s \in Sessions, DeleteRow(s)
    PROVE  BelongInv' /\ DropInv'
  <1> DEFINE t == sess[s].table
             id == sess[s].id
             new == [tables[t] EXCEPT !.rows = Without(@, id)]
             memory == [tables EXCEPT ![t].rows = Without(@, id)]
             r == Record(t, "Delete", id, NoRow)
  <1>1. up /\ up' /\ catalog' = catalog /\ sess[s].pc = "writeRow" /\ sess[s].kind = "Delete"
    BY DEF DeleteRow
  <1>2. t \in Tables /\ id \in Nat \ {0}
    BY <1>1 DEF TypeInv, BatchType
  <1>3. CASE Fails(s) /\ UNCHANGED <<tables, files, log, damage>>
    BY <1>1, <1>3, FailsOthers, QuietStep DEF Dropping
  <1>4. CASE Only(s, Done(s, FALSE)) /\ UNCHANGED <<tables, files, log, stale, damage>>
    BY <1>1, <1>4, DoneOthers, QuietStep DEF Dropping
  <1>5. CASE id \in DOMAIN Rows(t) /\ Write(s, memory, r)
    <2>1. t \in DOMAIN tables /\ TableOK(tables[t])
      BY <1>5 DEF Rows, TypeInv, TablesOK
    <2>2. ASSUME Sound
          PROVE  MemoryBelongs(catalog, sess, memory) /\ RecordBelongs(catalog, r)
      <3>1. t \in DOMAIN catalog /\ Of(catalog, t, tables[t])
        BY <1>1, <2>1, <2>2, WriterTable
      <3>2. new.rows = Without(tables[t].rows, id)
        BY <2>1 DEF TableOK
      <3>3. \A x \in DOMAIN new.rows : x \in DOMAIN tables[t].rows /\ new.rows[x] = tables[t].rows[x]
        BY <3>2 DEF Without, Restrict
      <3>4. memory = [tables EXCEPT ![t] = new]
        OBVIOUS
      <3> HIDE DEF new, memory
      <3>5. Of(catalog, t, new)
        BY <3>1, <3>3 DEF Of
      <3>6. RecordBelongs(catalog, r)
        BY <3>1 DEF RecordBelongs, Record
      <3>7. \A u \in DOMAIN memory : (u \in DOMAIN tables /\ memory[u] = tables[u]) \/ (u = t /\ memory[u] = new)
        BY <3>4
      <3> QED
        BY <1>1, <2>2, <3>5, <3>6, <3>7, MemoryPut
    <2>3. RecordOK(r) /\ r.lsn = log.lsn + 1
      <3>1. log.lsn + 1 \in Nat
        BY DEF TypeInv, LogOK
      <3> QED
        BY <1>2, <3>1 DEF RecordOK, Records, Record, DataKinds
    <2> HIDE DEF memory, r
    <2> QED
      BY <1>1, <1>5, <2>2, <2>3, WriteBelongs
  <1> QED
    BY <1>3, <1>4, <1>5 DEF DeleteRow, Only

(* Checkpoints of a backup, kills and restarts.                            *)
LEMMA BackupBelongs ==
    ASSUME IInv, TypeInv, DropInv, BelongInv, BackupCheckpoint
    PROVE  BelongInv' /\ DropInv'
  <1>1. /\ up /\ up' /\ Checkpoint(tables, log) /\ damage' = damage \ {"logged"}
        /\ UNCHANGED <<catalog, tables, sess>>
    BY DEF BackupCheckpoint
  <1>2. ASSUME Sound'
        PROVE  /\ MemoryBelongs(catalog', sess', tables') /\ FilesBelong(catalog', sess', files')
               /\ "logged" \notin damage' => LogBelongs(catalog', log'.wal)
               /\ WritersBelong(catalog', sess')
    <2>1. Sound
      BY <1>1, <1>2 DEF Sound
    <2> QED
      BY <1>1, <2>1, Belonging, CheckpointBelongs
  <1>3. DropInv'
    BY <1>1, DropStep DEF DropInv
  <1> QED
    BY <1>1, <1>2, <1>3, BelongUp

(* A kill that loses no change leaves meta.bin with the catalog's schemas. *)
LEMMA KillBelongs ==
    ASSUME IInv, TypeInv, DropInv, BelongInv, Kill
    PROVE  BelongInv' /\ DropInv'
  <1>1. /\ up /\ ~up' /\ catalog' = <<>> /\ tables' = <<>> /\ UNCHANGED <<files, meta, log>>
        /\ sess' = [s \in Sessions |-> NewBatch]
        /\ damage' = damage \cup (IF Truncated \/ stale \cup TouchedBy(Sessions) # {}
                                 THEN {"unsaved"} ELSE {})
    BY DEF Kill
  <1>2. \A s \in Sessions : sess'[s].pc = "idle"
    BY <1>1, NewBatchOK
  <1>3. DropInv'
    BY <1>1, <1>2, DropStep DEF Dropping
  <1>4. Schema' = meta
    BY <1>1 DEF Schema
  <1>5. ASSUME Sound'
        PROVE  /\ MemoryBelongs(meta, sess', tables') /\ FilesBelong(meta, sess', files')
               /\ "logged" \notin damage' => LogBelongs(meta, log'.wal)
               /\ WritersBelong(meta, sess')
    <2>1. Sound /\ ~Truncated /\ stale \cup TouchedBy(Sessions) = {} /\ ("logged" \notin damage' => "logged" \notin damage)
      BY <1>1, <1>5 DEF Sound
    <2>2. \A t \in Tables : SameAt(meta, catalog, t)
      BY <1>1, <2>1, MetaByEntry DEF IInv, MetaSame
    <2>3. \A t \in DOMAIN catalog : t \in DOMAIN meta /\ meta[t] = catalog[t]
      BY <2>2 DEF SameAt, TypeInv, SchemasOK
    <2>4. \A t : ~At(sess, {"dropMem", "dropFile"}, t)
      <3>1. \A s \in Sessions : sess[s].touched = {}
        BY <2>1 DEF TouchedBy
      <3> QED
        BY <3>1 DEF At, DropInv, Dropping
    <2>5. FilesBelong(meta, sess', files')
      BY <1>1, <2>1, <2>3, <2>4, Belonging DEF FilesBelong, Of
    <2>6. "logged" \notin damage' => LogBelongs(meta, log'.wal)
      BY <1>1, <2>1, <2>3, Belonging DEF LogBelongs, RecordBelongs
    <2>7. MemoryBelongs(meta, sess', tables')
      BY <1>1 DEF MemoryBelongs
    <2>8. WritersBelong(meta, sess')
      BY <1>2 DEF WritersBelong, WriterBelongs
    <2> QED
      BY <2>5, <2>6, <2>7, <2>8
  <1> QED
    BY <1>1, <1>3, <1>4, <1>5, BelongStep

(* Replay of a log that holds no record of a dropped table.                *)
LEMMA RecoveredBelongs ==
    ASSUME TypeInv, \A t \in DOMAIN files : Of(meta, t, files[t]), LogBelongs(meta, log.wal)
    PROVE  \A t \in DOMAIN Recovered.tables : Of(meta, t, Recovered.tables[t])
  <1> DEFINE n == Len(log.wal)
             All(T) == \A t \in DOMAIN T.tables : Of(meta, t, T.tables[t])
  <1>1. PICK st : Through(st)
    BY RecoveredStates
  <1>2. n \in Nat /\ \A i \in 1..n : RecordOK(log.wal[i])
    BY DEF TypeInv, LogOK
  <1>3. /\ st[0] = [tables |-> Loaded, failed |-> FALSE] /\ Recovered = st[n]
        /\ \A i \in 1..n : st[i] = Replay(st[i - 1], log.wal[i])
        /\ \A i \in 0..n : StateOK(st[i])
    BY <1>1 DEF Through
  <1>4. \A i \in 1..n : RecordBelongs(meta, log.wal[i])
    BY DEF LogBelongs
  <1> HIDE DEF n
  <1> DEFINE good == {i \in 0..n : All(st[i])}
  <1>5. 0 \in good
    <2>1. \A t \in DOMAIN Loaded : Of(meta, t, Loaded[t])
      <3>1. ASSUME NEW t \in DOMAIN Loaded
            PROVE  Of(meta, t, Loaded[t])
        <4>1. CASE t \in DOMAIN files
          BY <4>1, LoadedOK
        <4>2. CASE t \notin DOMAIN files
          <5>1. t \in DOMAIN meta /\ Loaded[t] = EmptyTable
            BY <4>2, LoadedOK
          <5>2. DOMAIN EmptyTable.rows = {}
            BY DEF EmptyTable
          <5> QED
            BY <5>1, <5>2 DEF Of
        <4> QED
          BY <4>1, <4>2
      <3> QED
        BY <3>1
    <2>2. All(st[0])
      BY <1>3, <2>1
    <2> QED
      BY <1>2, <2>2
  <1>6. ASSUME NEW i \in 0..(n - 1), i \in good
        PROVE  i + 1 \in good
    <2>1. i + 1 \in 1..n /\ i + 1 \in 0..n /\ i \in 0..n /\ (i + 1) - 1 = i
      BY <1>2
    <2>2. PICK T : T = st[i]
      OBVIOUS
    <2>3. PICK r : r = log.wal[i + 1]
      OBVIOUS
    <2>4. PICK U : U = st[i + 1]
      OBVIOUS
    <2>5. /\ U = Replay(T, r) /\ RecordOK(r) /\ RecordBelongs(meta, r) /\ StateOK(T) /\ All(T)
      BY <1>2, <1>3, <1>4, <1>6, <2>1, <2>2, <2>3, <2>4
    <2>6. /\ DOMAIN U.tables \subseteq DOMAIN T.tables \cup {r.table}
          /\ \A t \in DOMAIN U.tables : \A id \in DOMAIN U.tables[t].rows :
                RowFrom(T, r, t, id, U.tables[t].rows[id])
      BY <2>5, ReplayOK
    <2>7. ASSUME NEW t \in DOMAIN U.tables
          PROVE  Of(meta, t, U.tables[t])
      <3>1. t \in DOMAIN meta
        BY <2>5, <2>6, <2>7 DEF Of, RecordBelongs
      <3>2. ASSUME NEW id \in DOMAIN U.tables[t].rows
            PROVE  U.tables[t].rows[id].gen = meta[t].gen
        <4>1. RowFrom(T, r, t, id, U.tables[t].rows[id])
          BY <2>6, <2>7, <3>2
        <4> QED
          BY <2>5, <4>1 DEF RowFrom, Of, RecordBelongs
      <3> QED
        BY <3>1, <3>2 DEF Of
    <2>8. All(st[i + 1])
      BY <2>4, <2>7
    <2> QED
      BY <2>1, <2>8
  <1> HIDE DEF good
  <1>7. \A i \in 0..n : i \in good
    BY <1>2, <1>5, <1>6, IndexInduction
  <1>8. All(st[n])
    BY <1>2, <1>7 DEF good
  <1> QED
    BY <1>3, <1>8

LEMMA OpenBelongs ==
    ASSUME IInv, TypeInv, DropInv, BelongInv, Open
    PROVE  BelongInv' /\ DropInv'
  <1>1. /\ ~up /\ up' /\ catalog' = meta /\ tables' = Recovered.tables /\ UNCHANGED <<files, sess>>
        /\ damage' = (damage \ {"indexesLeft"}) \cup (IF "logged" \in damage THEN {"replayed"} ELSE {})
        /\ log' = [log EXCEPT !.lsn = IF log.wal = <<>> THEN 0 ELSE Last(log.wal).lsn]
    BY DEF Open
  <1>2. \A s \in Sessions : sess'[s].pc = "idle" /\ sess[s].pc = "idle"
    BY <1>1 DEF IInv, SessInv
  <1>3. log'.wal = log.wal
    BY <1>1 DEF TypeInv, LogOK
  <1>4. DropInv'
    BY <1>1, <1>2, DropStep DEF Dropping
  <1>5. ASSUME Sound'
        PROVE  /\ MemoryBelongs(catalog', sess', tables') /\ FilesBelong(catalog', sess', files')
               /\ "logged" \notin damage' => LogBelongs(catalog', log'.wal)
               /\ WritersBelong(catalog', sess')
    <2>1. Sound /\ "logged" \notin damage
      BY <1>1, <1>5 DEF Sound
    <2>2. FilesBelong(meta, sess, files) /\ LogBelongs(meta, log.wal)
      BY <1>1, <2>1 DEF BelongInv, Schema
    <2>3. \A t \in DOMAIN files : Of(meta, t, files[t])
      BY <1>2, <2>2 DEF FilesBelong, At
    <2>4. MemoryBelongs(catalog', sess', tables')
      BY <1>1, <2>2, <2>3, RecoveredBelongs DEF MemoryBelongs
    <2>5. FilesBelong(catalog', sess', files')
      BY <1>1, <2>3 DEF FilesBelong
    <2>6. WritersBelong(catalog', sess')
      BY <1>2 DEF WritersBelong, WriterBelongs
    <2> QED
      BY <1>1, <1>3, <2>2, <2>4, <2>5, <2>6
  <1> QED
    BY <1>1, <1>4, <1>5, BelongUp

LEMMA BelongInit ==
    Init => BelongInv /\ DropInv
  <1> SUFFICES ASSUME Init
               PROVE  BelongInv /\ DropInv
    OBVIOUS
  <1>1. /\ up /\ tables = <<>> /\ files = <<>> /\ log.wal = <<>> /\ sess = [s \in Sessions |-> NewBatch]
    BY DEF Init
  <1>2. \A s \in Sessions : sess[s].pc = "idle"
    BY <1>1, NewBatchOK
  <1>3. DropInv
    BY <1>1, <1>2 DEF DropInv, Dropping
  <1> QED
    BY <1>1, <1>2, <1>3 DEF BelongInv, MemoryBelongs, FilesBelong, LogBelongs, WritersBelong, WriterBelongs

LEMMA BelongNext ==
    IInv /\ TypeInv /\ (BelongInv /\ DropInv) /\ [Next]_vars => (BelongInv /\ DropInv)'
  <1> SUFFICES ASSUME IInv, TypeInv, BelongInv, DropInv, [Next]_vars
               PROVE  BelongInv' /\ DropInv'
    OBVIOUS
  <1>1. ASSUME NEW s \in Sessions, DdlStep(s)
        PROVE  BelongInv' /\ DropInv'
    BY <1>1, CreateTableBelongs, DropTableBelongs, EnsureTableBelongs, IndexStepsBelong,
       DropStepsBelong DEF DdlStep
  <1>2. ASSUME NEW s \in Sessions, DmlStep(s)
        PROVE  BelongInv' /\ DropInv'
    BY <1>2, LookupBelongs, InsertRowBelongs, UpdateRowBelongs, DeleteRowBelongs DEF DmlStep
  <1>3. CASE UNCHANGED vars
    <2>1. Schema' = Schema /\ (Sound' <=> Sound)
      BY <1>3 DEF vars, Schema, Sound
    <2>2. BelongInv'
      BY <1>3, <2>1, BelongStep DEF vars, BelongInv
    <2>3. DropInv'
      BY <1>3, DropStep DEF vars, DropInv
    <2> QED
      BY <2>2, <2>3
  <1> QED
    BY <1>1, <1>2, <1>3, PersistBelongs, BackupBelongs, KillBelongs, OpenBelongs DEF Next

LEMMA Belonged == Spec => [](BelongInv /\ DropInv)
  BY BelongInit, BelongNext, Typed, PTL DEF Spec

LEMMA BelongedRows ==
    IInv /\ BelongInv /\ DropInv => RowsBelong
  <1> SUFFICES ASSUME IInv, BelongInv, DropInv, Sound, NEW t \in DOMAIN catalog, ~Locked(t),
                      NEW id \in DOMAIN Rows(t)
               PROVE  Rows(t)[id].gen = catalog[t].gen
    BY DEF RowsBelong, Sound
  <1>1. up /\ t \in DOMAIN tables /\ Rows(t) = tables[t].rows
    BY DEF DropInv, Rows
  <1>2. ~At(sess, {"dropMem"}, t)
    BY DEF Locked, At, DdlSteps
  <1>3. Of(catalog, t, tables[t])
    BY <1>1, <1>2, Belonging DEF MemoryBelongs
  <1> QED
    BY <1>1, <1>3 DEF Of

(* However DDL, DML, persists, checkpoints, kills and replays interleave,  *)
(* a table's rows were written under the schema that the catalog has for   *)
(* it, unless a DROP TABLE overtook a write, was undone by a replay or     *)
(* left the file, or a kill came before a change was persisted.            *)
THEOREM RowsStayTheirs == Spec => []RowsBelong
  BY Typed, Belonged, BelongedRows, PTL

-----------------------------------------------------------------------------
(* The log before the first checkpoint.                                    *)

InsertedBefore(w, t, n) == \E j \in 1..(n - 1) : w[j].kind = "Insert" /\ w[j].table = t

FromLog(w, T) == \A t \in DOMAIN T : DOMAIN T[t].rows # {} => InsertedBefore(w, t, Len(w) + 1)

(* Until a checkpoint has run there are no files, a table with rows has an *)
(* Insert in the log, and every other record has one before it.            *)
ReplayInv ==
    log.ckpt = 0 =>
        /\ DOMAIN files = {} /\ FromLog(log.wal, tables)
        /\ \A i \in 1..Len(log.wal) :
              log.wal[i].kind # "Insert" => InsertedBefore(log.wal, log.wal[i].table, i)

(* A step that writes no record: tables and files go, or are empty.        *)
LEMMA NoRecord ==
    ASSUME ReplayInv, log' = log, DOMAIN files' \subseteq DOMAIN files,
           \A t \in DOMAIN tables' : \/ t \in DOMAIN tables /\ tables'[t] = tables[t]
                                    \/ DOMAIN tables'[t].rows = {}
    PROVE  ReplayInv'
  <1>1. log.ckpt = 0 => DOMAIN files' = {} /\ FromLog(log'.wal, tables')
    BY DEF ReplayInv, FromLog
  <1> QED
    BY <1>1 DEF ReplayInv, FromLog, InsertedBefore

LEMMA WriteReplays ==
    ASSUME TypeInv, ReplayInv, NEW s \in Sessions, NEW memory, NEW r, RecordOK(r),
           r.lsn = log.lsn + 1, Write(s, memory, r),
           \A t \in DOMAIN memory : \/ t \in DOMAIN tables /\ memory[t] = tables[t]
                                   \/ t = r.table,
           r.kind # "Insert" => r.table \in DOMAIN tables /\ DOMAIN tables[r.table].rows # {}
    PROVE  ReplayInv'
  <1>1. PICK l : l = [log EXCEPT !.lsn = @ + 1, !.wal = Append(@, r)]
    OBVIOUS
  <1>2. l.wal = Append(log.wal, r) /\ l.lsn = log.lsn + 1 /\ l.ckpt = log.ckpt
    BY <1>1, LogAppend
  <1>3. CASE Checkpoint(memory, l)
    <2>1. log'.ckpt = log.lsn + 1
      BY <1>2, <1>3 DEF Checkpoint
    <2>2. log'.ckpt # 0
      BY <2>1 DEF TypeInv, LogOK
    <2> QED
      BY <2>2 DEF ReplayInv
  <1>4. CASE log' = l /\ files' = files
    <2> SUFFICES ASSUME log'.ckpt = 0
                 PROVE  /\ DOMAIN files' = {} /\ FromLog(log'.wal, tables')
                        /\ \A i \in 1..Len(log'.wal) :
                              log'.wal[i].kind # "Insert" => InsertedBefore(log'.wal, log'.wal[i].table, i)
      BY DEF ReplayInv, FromLog, InsertedBefore
    <2> DEFINE w == log.wal
               n == Len(log.wal)
    <2>1. PICK v : v = log'.wal
      OBVIOUS
    <2>2. v = Append(w, r) /\ w \in Seq(Records) /\ r \in Records
      BY <1>2, <1>4, <2>1 DEF TypeInv, LogOK, RecordOK
    <2>3. /\ n \in Nat /\ Len(v) = n + 1 /\ v[n + 1] = r /\ \A i \in 1..n : v[i] = w[i]
      BY <2>2
    <2>4. log.ckpt = 0 /\ tables' = memory
      BY <1>2, <1>4 DEF Write
    <2>5. /\ DOMAIN files = {} /\ FromLog(w, tables)
          /\ \A i \in 1..n : w[i].kind # "Insert" => InsertedBefore(w, w[i].table, i)
      BY <2>4 DEF ReplayInv
    <2> HIDE DEF w, n
    <2>6. ASSUME NEW t, NEW m \in 1..(n + 1), InsertedBefore(w, t, m)
          PROVE  InsertedBefore(v, t, m) /\ InsertedBefore(v, t, n + 2)
      <3>1. PICK j \in 1..(m - 1) : w[j].kind = "Insert" /\ w[j].table = t
        BY <2>6 DEF InsertedBefore
      <3>2. j \in 1..n /\ j \in 1..((n + 2) - 1) /\ v[j] = w[j]
        BY <2>3, <3>1
      <3> QED
        BY <3>1, <3>2 DEF InsertedBefore
    <2>7. r.kind # "Insert" => InsertedBefore(w, r.table, n + 1)
      BY <2>5 DEF FromLog, n, w
    <2>8. InsertedBefore(v, r.table, n + 2)
      <3>1. CASE r.kind = "Insert"
        <4>1. n + 1 \in 1..((n + 2) - 1)
          BY <2>3
        <4> QED
          BY <2>3, <3>1, <4>1 DEF InsertedBefore
      <3>2. CASE r.kind # "Insert"
        <4>1. n + 1 \in 1..(n + 1)
          BY <2>3
        <4> QED
          BY <2>6, <2>7, <3>2, <4>1
      <3> QED
        BY <3>1, <3>2
    <2>9. FromLog(v, memory)
      <3> SUFFICES ASSUME NEW t \in DOMAIN memory, DOMAIN memory[t].rows # {}
                   PROVE  InsertedBefore(v, t, n + 2)
        <4>1. Len(v) + 1 = n + 2
          BY <2>3
        <4> QED
          BY <4>1 DEF FromLog
      <3>1. CASE t = r.table
        BY <2>8, <3>1
      <3>2. CASE t \in DOMAIN tables /\ memory[t] = tables[t]
        <4>1. InsertedBefore(w, t, n + 1) /\ n + 1 \in 1..(n + 1)
          BY <2>3, <2>5, <3>2 DEF FromLog, n, w
        <4> QED
          BY <2>6, <4>1
      <3> QED
        BY <3>1, <3>2
    <2>10. ASSUME NEW i \in 1..Len(v), v[i].kind # "Insert"
           PROVE  InsertedBefore(v, v[i].table, i)
      <3>1. CASE i = n + 1
        BY <2>3, <2>6, <2>7, <2>10, <3>1
      <3>2. CASE i # n + 1
        <4>1. i \in 1..n /\ i \in 1..(n + 1)
          BY <2>3, <3>2
        <4> QED
          BY <2>3, <2>5, <2>6, <2>10, <4>1
      <3> QED
        BY <3>1, <3>2
    <2> QED
      BY <1>4, <2>1, <2>4, <2>5, <2>9, <2>10
  <1> QED
    BY <1>1, <1>3, <1>4 DEF Write

LEMMA InsertRowReplays ==
    ASSUME TypeInv, ReplayInv, NEW s \in Sessions, InsertRow(s)
    PROVE  ReplayInv'
  <1> DEFINE t == sess[s].table
             old == IF t \in DOMAIN tables THEN tables[t] ELSE EmptyTable
             row == [gen |-> sess[s].gen, ver |-> 1]
             new == [rows |-> Put(old.rows, old.next, row), next |-> old.next + 1]
             memory == Put(tables, t, new)
             r == Record(t, "Insert", old.next, row)
  <1>1. sess[s].pc = "writeRow" /\ Write(s, memory, r)
    BY DEF InsertRow
  <1>2. TableOK(old) /\ t \in Tables /\ sess[s].gen \in 1..MaxStmts
    BY <1>1, EmptyTableOK DEF TypeInv, TablesOK, BatchType
  <1>3. row \in RowType
    BY <1>2 DEF RowType
  <1> HIDE DEF old, row
  <1>4. RecordOK(r) /\ r.lsn = log.lsn + 1 /\ r.kind = "Insert" /\ r.table = t
    <2>1. log.lsn + 1 \in Nat /\ old.next \in Nat \ {0}
      BY <1>2 DEF TypeInv, LogOK, TableOK
    <2> QED
      BY <1>2, <1>3, <2>1 DEF RecordOK, Records, Record, DataKinds
  <1> HIDE DEF new
  <1>5. \A u \in DOMAIN memory : (u \in DOMAIN tables /\ memory[u] = tables[u]) \/ u = t
    BY DEF Put
  <1> HIDE DEF memory, r
  <1> QED
    BY <1>1, <1>4, <1>5, WriteReplays

LEMMA UpdateRowReplays ==
    ASSUME TypeInv, ReplayInv, NEW s \in Sessions, UpdateRow(s)
    PROVE  ReplayInv'
  <1> DEFINE t == sess[s].table
             id == sess[s].id
             row == [gen |-> sess[s].gen, ver |-> sess[s].row.ver + 1]
             memory == [tables EXCEPT ![t].rows = Put(@, id, row)]
             r == Record(t, "Update", id, row)
  <1>1. sess[s].pc = "writeRow" /\ sess[s].kind = "Update"
    BY DEF UpdateRow
  <1>2. /\ t \in Tables /\ sess[s].gen \in 1..MaxStmts /\ id \in Nat \ {0}
        /\ sess[s].row \in RowType
    BY <1>1 DEF TypeInv, BatchType
  <1>3. row \in RowType
    BY <1>2 DEF RowType
  <1>4. CASE UNCHANGED <<tables, files, log>>
    BY <1>4, NoRecord
  <1>5. CASE id \in DOMAIN Rows(t) /\ Write(s, memory, r)
    <2> HIDE DEF row
    <2>1. t \in DOMAIN tables /\ DOMAIN tables[t].rows # {}
      BY <1>5 DEF Rows
    <2>2. \A u \in DOMAIN memory : (u \in DOMAIN tables /\ memory[u] = tables[u]) \/ u = t
      OBVIOUS
    <2>3. RecordOK(r) /\ r.lsn = log.lsn + 1 /\ r.table = t
      <3>1. log.lsn + 1 \in Nat
        BY DEF TypeInv, LogOK
      <3> QED
        BY <1>2, <1>3, <3>1 DEF RecordOK, Records, Record, DataKinds
    <2> HIDE DEF memory, r
    <2> QED
      BY <1>5, <2>1, <2>2, <2>3, WriteReplays
  <1> QED
    BY <1>4, <1>5 DEF UpdateRow

LEMMA DeleteRowReplays ==
    ASSUME TypeInv, ReplayInv, NEW s \in Sessions, DeleteRow(s)
    PROVE  ReplayInv'
  <1> DEFINE t == sess[s].table
             id == sess[s].id
             memory == [tables EXCEPT ![t].rows = Without(@, id)]
             r == Record(t, "Delete", id, NoRow)
  <1>1. sess[s].pc = "writeRow" /\ sess[s].kind = "Delete"
    BY DEF DeleteRow
  <1>2. t \in Tables /\ id \in Nat \ {0}
    BY <1>1 DEF TypeInv, BatchType
  <1>3. CASE UNCHANGED <<tables, files, log>>
    BY <1>3, NoRecord
  <1>4. CASE id \in DOMAIN Rows(t) /\ Write(s, memory, r)
    <2>1. t \in DOMAIN tables /\ DOMAIN tables[t].rows # {}
      BY <1>4 DEF Rows
    <2>2. \A u \in DOMAIN memory : (u \in DOMAIN tables /\ memory[u] = tables[u]) \/ u = t
      OBVIOUS
    <2>3. RecordOK(r) /\ r.lsn = log.lsn + 1 /\ r.table = t
      <3>1. log.lsn + 1 \in Nat
        BY DEF TypeInv, LogOK
      <3> QED
        BY <1>2, <3>1 DEF RecordOK, Records, Record, DataKinds
    <2> HIDE DEF memory, r
    <2> QED
      BY <1>4, <2>1, <2>2, <2>3, WriteReplays
  <1> QED
    BY <1>3, <1>4 DEF DeleteRow

(* DDL and persist write no record.                                        *)
LEMMA UnloggedReplays ==
    ASSUME TypeInv, ReplayInv, NEW s \in Sessions, DdlStep(s) \/ PersistStep(s)
    PROVE  ReplayInv'
  <1>1. CASE UNCHANGED <<tables, files, log>>
    BY <1>1, NoRecord
  <1>2. CASE EnsureTable(s)
    <2>1. PICK T : T = EmptyTable
      OBVIOUS
    <2>2. tables' = OrInsert(tables, sess[s].table, T) /\ UNCHANGED <<files, log>>
      BY <1>2, <2>1 DEF EnsureTable
    <2>3. DOMAIN T.rows = {}
      BY <2>1 DEF EmptyTable
    <2> QED
      BY <2>2, <2>3, NoRecord DEF OrInsert, Put
  <1>3. CASE DropFromMemory(s)
    BY <1>3, NoRecord DEF DropFromMemory, Without, Restrict
  <1>4. CASE DropFile(s)
    <2>1. UNCHANGED <<tables, log>> /\ DOMAIN files' \subseteq DOMAIN files
      BY <1>4 DEF DropFile, Without, Restrict
    <2> QED
      BY <2>1, NoRecord
  <1>5. CASE PersistStep(s)
    <2>1. UNCHANGED <<tables, files, log>>
      BY <1>5 DEF PersistStep, EndBatch, SnapshotTable, OpenMeta, WriteMeta, WriteMetaFails
    <2> QED
      BY <1>1, <2>1
  <1>6. CASE DdlStep(s) /\ ~EnsureTable(s) /\ ~DropFromMemory(s) /\ ~DropFile(s)
    <2>1. UNCHANGED <<tables, files, log>>
      <3>1. CASE \E t \in Tables : \E index \in {"", PKey} : CreateTable(s, t, index)
        BY <3>1 DEF CreateTable
      <3>2. CASE \E t \in Tables : CreateIndex(s, t) \/ DropTable(s, t)
        BY <3>2 DEF CreateIndex, DropTable
      <3>3. CASE CreateIndexTree(s) \/ AddIndex(s) \/ DropIndexes(s)
        BY <3>3 DEF CreateIndexTree, AddIndex, DropIndexes
      <3> QED
        BY <1>6, <3>1, <3>2, <3>3 DEF DdlStep
    <2> QED
      BY <1>1, <2>1
  <1> QED
    BY <1>2, <1>3, <1>4, <1>5, <1>6

(* What replay rebuilds without files has an Insert in the log.            *)
LEMMA RecoveredFromLog ==
    ASSUME TypeInv, DOMAIN files = {}
    PROVE  FromLog(log.wal, Recovered.tables)
  <1> DEFINE n == Len(log.wal)
             All(T, m) == \A t \in DOMAIN T.tables :
                             DOMAIN T.tables[t].rows # {} => InsertedBefore(log.wal, t, m)
  <1>1. PICK st : Through(st)
    BY RecoveredStates
  <1>2. n \in Nat /\ \A i \in 1..n : RecordOK(log.wal[i])
    BY DEF TypeInv, LogOK
  <1>3. /\ st[0] = [tables |-> Loaded, failed |-> FALSE] /\ Recovered = st[n]
        /\ \A i \in 1..n : st[i] = Replay(st[i - 1], log.wal[i])
        /\ \A i \in 0..n : StateOK(st[i])
    BY <1>1 DEF Through
  <1> HIDE DEF n
  <1> DEFINE good == {i \in 0..n : All(st[i], i + 1)}
  <1>4. 0 \in good
    <2>1. \A t \in DOMAIN Loaded : Loaded[t] = EmptyTable
      BY LoadedOK
    <2>2. DOMAIN EmptyTable.rows = {}
      BY DEF EmptyTable
    <2>3. All(st[0], 0 + 1)
      BY <1>3, <2>1, <2>2
    <2> QED
      BY <1>2, <2>3
  <1>5. ASSUME NEW i \in 0..(n - 1), i \in good
        PROVE  i + 1 \in good
    <2>1. i + 1 \in 1..n /\ i + 1 \in 0..n /\ i \in 0..n /\ (i + 1) - 1 = i
      BY <1>2
    <2>2. PICK T : T = st[i]
      OBVIOUS
    <2>3. PICK r : r = log.wal[i + 1]
      OBVIOUS
    <2>4. PICK U : U = st[i + 1]
      OBVIOUS
    <2>5. U = Replay(T, r) /\ RecordOK(r) /\ StateOK(T) /\ All(T, i + 1)
      BY <1>2, <1>3, <1>5, <2>1, <2>2, <2>3, <2>4
    <2>6. \A t \in DOMAIN U.tables : \A id \in DOMAIN U.tables[t].rows :
             RowFrom(T, r, t, id, U.tables[t].rows[id])
      BY <2>5, ReplayOK
    <2>7. \A t : InsertedBefore(log.wal, t, i + 1) => InsertedBefore(log.wal, t, (i + 1) + 1)
      BY <2>1 DEF InsertedBefore
    <2>8. r.kind = "Insert" => InsertedBefore(log.wal, r.table, (i + 1) + 1)
      <3>1. i + 1 \in 1..(((i + 1) + 1) - 1)
        BY <2>1
      <3> QED
        BY <2>3, <3>1 DEF InsertedBefore
    <2>9. ASSUME NEW t \in DOMAIN U.tables, DOMAIN U.tables[t].rows # {}
          PROVE  InsertedBefore(log.wal, t, (i + 1) + 1)
      <3>1. PICK id \in DOMAIN U.tables[t].rows : TRUE
        BY <2>9
      <3>2. RowFrom(T, r, t, id, U.tables[t].rows[id])
        BY <2>6, <2>9, <3>1
      <3>3. \/ t \in DOMAIN T.tables /\ DOMAIN T.tables[t].rows # {}
            \/ t = r.table /\ r.kind = "Insert"
        BY <2>5, <3>2 DEF RowFrom, RecordOK, Records, DataKinds
      <3> QED
        BY <2>5, <2>7, <2>8, <3>3
    <2>10. All(st[i + 1], (i + 1) + 1)
      BY <2>4, <2>9
    <2> QED
      BY <2>1, <2>10
  <1> HIDE DEF good
  <1>6. \A i \in 0..n : i \in good
    BY <1>2, <1>4, <1>5, IndexInduction
  <1>7. All(st[n], n + 1)
    BY <1>2, <1>6 DEF good
  <1> QED
    BY <1>3, <1>7 DEF FromLog, n

LEMMA RestartReplays ==
    ASSUME TypeInv, ReplayInv, BackupCheckpoint \/ Kill \/ Open
    PROVE  ReplayInv'
  <1>1. CASE BackupCheckpoint
    <2>1. log'.ckpt = log.lsn /\ log.wal # <<>>
      BY <1>1 DEF BackupCheckpoint, Checkpoint
    <2>2. log'.ckpt # 0
      BY <2>1 DEF TypeInv, LogOK
    <2> QED
      BY <2>2 DEF ReplayInv
  <1>2. CASE Kill
    BY <1>2, NoRecord DEF Kill
  <1>3. CASE Open
    <2>1. /\ tables' = Recovered.tables /\ files' = files
          /\ log' = [log EXCEPT !.lsn = IF log.wal = <<>> THEN 0 ELSE Last(log.wal).lsn]
      BY <1>3 DEF Open
    <2>2. log'.wal = log.wal /\ log'.ckpt = log.ckpt
      BY <2>1 DEF TypeInv, LogOK
    <2>3. log.ckpt = 0 => FromLog(log.wal, Recovered.tables)
      BY RecoveredFromLog DEF ReplayInv
    <2> QED
      BY <2>1, <2>2, <2>3 DEF ReplayInv, FromLog, InsertedBefore
  <1> QED
    BY <1>1, <1>2, <1>3

LEMMA ReplayNext ==
    TypeInv /\ ReplayInv /\ [Next]_vars => ReplayInv'
  <1> SUFFICES ASSUME TypeInv, ReplayInv, [Next]_vars
               PROVE  ReplayInv'
    OBVIOUS
  <1>1. ASSUME NEW s \in Sessions, DmlStep(s)
        PROVE  ReplayInv'
    <2>1. CASE UNCHANGED <<tables, files, log>>
      BY <2>1, NoRecord
    <2>2. ASSUME NEW t, StartInsert(s, t) \/ Missing(s, t)
          PROVE  UNCHANGED <<tables, files, log>>
      BY <2>2 DEF StartInsert, Missing
    <2>3. ASSUME NEW t, NEW kind, NEW id, StartScan(s, t, kind, id)
          PROVE  UNCHANGED <<tables, files, log>>
      BY <2>3 DEF StartScan
    <2> QED
      BY <1>1, <2>1, <2>2, <2>3, InsertRowReplays, UpdateRowReplays, DeleteRowReplays DEF DmlStep
  <1>2. CASE UNCHANGED vars
    BY <1>2, NoRecord DEF vars
  <1> QED
    BY <1>1, <1>2, UnloggedReplays, RestartReplays DEF Next

LEMMA Replayable == Spec => []ReplayInv
  <1>1. Init => ReplayInv
    BY DEF Init, ReplayInv, FromLog
  <1> QED
    BY <1>1, ReplayNext, Typed, PTL DEF Spec

(* Replay fails on no record whose table is loaded, or inserted into       *)
(* before it.                                                              *)
LEMMA ReplaySucceeds ==
    ASSUME TypeInv,
           \A i \in 1..Len(log.wal) : log.wal[i].kind # "Insert" =>
               \/ log.wal[i].table \in DOMAIN meta \cup DOMAIN files
               \/ log.ckpt = 0 /\ InsertedBefore(log.wal, log.wal[i].table, i)
    PROVE  ~Recovered.failed
  <1> DEFINE n == Len(log.wal)
             Known(T, m) ==
                /\ ~T.failed /\ DOMAIN meta \cup DOMAIN files \subseteq DOMAIN T.tables
                /\ log.ckpt = 0 => \A t : InsertedBefore(log.wal, t, m) => t \in DOMAIN T.tables
  <1>1. PICK st : Through(st)
    BY RecoveredStates
  <1>2. n \in Nat /\ \A i \in 1..n : RecordOK(log.wal[i]) /\ log.wal[i].lsn = i
    BY DEF TypeInv, LogOK
  <1>3. /\ st[0] = [tables |-> Loaded, failed |-> FALSE] /\ Recovered = st[n]
        /\ \A i \in 1..n : st[i] = Replay(st[i - 1], log.wal[i])
        /\ \A i \in 0..n : StateOK(st[i])
    BY <1>1 DEF Through
  <1> HIDE DEF n
  <1> DEFINE good == {i \in 0..n : Known(st[i], i + 1)}
  <1>4. 0 \in good
    <2>1. ~st[0].failed /\ st[0].tables = Loaded
      BY <1>3
    <2>2. \A t : ~InsertedBefore(log.wal, t, 0 + 1)
      BY DEF InsertedBefore
    <2>3. Known(st[0], 0 + 1)
      BY <2>1, <2>2, LoadedOK
    <2> QED
      BY <1>2, <2>3
  <1>5. ASSUME NEW i \in 0..(n - 1), i \in good
        PROVE  i + 1 \in good
    <2>1. i + 1 \in 1..n /\ i + 1 \in 0..n /\ i \in 0..n /\ (i + 1) - 1 = i
      BY <1>2
    <2>2. PICK T : T = st[i]
      OBVIOUS
    <2>3. PICK r : r = log.wal[i + 1]
      OBVIOUS
    <2>4. PICK U : U = st[i + 1]
      OBVIOUS
    <2>5. /\ U = Replay(T, r) /\ RecordOK(r) /\ StateOK(T) /\ r.lsn = i + 1 /\ StateOK(U)
      BY <1>2, <1>3, <2>1, <2>2, <2>3, <2>4
    <2>6. Known(T, i + 1)
      BY <1>5, <2>2
    <2>7. r.kind # "Insert" => r.table \in DOMAIN T.tables
      <3>1. r.kind # "Insert" =>
               \/ r.table \in DOMAIN meta \cup DOMAIN files
               \/ log.ckpt = 0 /\ InsertedBefore(log.wal, r.table, i + 1)
        BY <2>1, <2>3 DEF n
      <3> QED
        BY <2>6, <3>1
    <2>8. ~U.failed /\ DOMAIN T.tables \subseteq DOMAIN U.tables
      BY <2>5, <2>6, <2>7, ReplayOK
    <2>9. ASSUME log.ckpt = 0, NEW t, InsertedBefore(log.wal, t, (i + 1) + 1)
          PROVE  t \in DOMAIN U.tables
      <3>1. PICK j \in 1..(i + 1) : log.wal[j].kind = "Insert" /\ log.wal[j].table = t
        BY <2>1, <2>9 DEF InsertedBefore
      <3>2. CASE j = i + 1
        <4>1. U = Apply(T, r)
          BY <2>1, <2>5, <2>9 DEF Replay
        <4>2. r.kind = "Insert" /\ r.table = t /\ ~T.failed
          BY <2>3, <2>6, <3>1, <3>2
        <4> QED
          BY <2>5, <4>1, <4>2, ApplyOK
      <3>3. CASE j # i + 1
        <4>1. j \in 1..((i + 1) - 1)
          BY <2>1, <3>1, <3>3
        <4>2. InsertedBefore(log.wal, t, i + 1)
          BY <3>1, <4>1 DEF InsertedBefore
        <4> QED
          BY <2>6, <2>8, <2>9, <4>2
      <3> QED
        BY <3>2, <3>3
    <2>10. Known(U, (i + 1) + 1)
      BY <2>6, <2>8, <2>9
    <2> QED
      BY <2>1, <2>4, <2>10
  <1> HIDE DEF good
  <1>6. \A i \in 0..n : i \in good
    BY <1>2, <1>4, <1>5, IndexInduction
  <1>7. Known(st[n], n + 1)
    BY <1>2, <1>6 DEF good
  <1> QED
    BY <1>3, <1>7

LEMMA ReplayableReopens ==
    TypeInv /\ TornInv /\ ReplayInv => Reopens
  <1> SUFFICES ASSUME TypeInv, ReplayInv, ~Orphaned
               PROVE  ~Recovered.failed
    BY DEF Reopens, TornInv
  <1>1. DOMAIN log.wal = 1..Len(log.wal)
    BY DEF TypeInv, LogOK
  <1>2. \A i \in 1..Len(log.wal) : log.wal[i].kind # "Insert" =>
           \/ log.wal[i].table \in DOMAIN meta \cup DOMAIN files
           \/ log.ckpt = 0 /\ InsertedBefore(log.wal, log.wal[i].table, i)
    BY <1>1 DEF Orphaned, ReplayInv
  <1> QED
    BY <1>2, ReplaySucceeds

(* Wherever it is killed, the database opens again: replay of the log,     *)
(* however long and over however many checkpoints and restarts, fails on   *)
(* no record, unless a checkpoint has run and a table in the log is        *)
(* neither in meta.bin nor in a file; and meta.bin is cut off only by a    *)
(* save that failed, with none since, or that was killed half way          *)
(* (recovery.rs replay_wal, meta.rs load and save, engine.rs open).        *)
THEOREM AlwaysReopens == Spec => []Reopens
  BY Typed, Torn, Replayable, ReplayableReopens, PTL

(* Whenever the process may be killed, meta.bin holds the schemas that no  *)
(* unfinished batch has changed, however the sessions' DDL and persists    *)
(* interleave, but for the tables that are stale.                          *)
THEOREM MetaStaysCurrent == Spec => []MetaCurrent
  <1>1. IInv => MetaCurrent
    BY DEF IInv
  <1> QED
    BY <1>1, Invariant, PTL

(* The index manager and the catalog name the same indexes of every table  *)
(* that no DDL statement works on, before a restart and after it.          *)
THEOREM IndexesStayMatched == Spec => []IndexesMatch
  <1>1. IInv => IndexesMatch
    BY DEF IInv
  <1> QED
    BY <1>1, Invariant, PTL

=============================================================================
