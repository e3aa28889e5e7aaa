----------------------------- MODULE PageTable -----------------------------
(***************************************************************************)
(* The paged table (page_table.rs): rows in the pages of a mapped file     *)
(* behind an LRU cache, its header, growth, and the import of an old .dat  *)
(* file at open (storage.rs load_table).                                   *)
(*                                                                         *)
(* The table is behind a mutex, so operations do not interleave; the       *)
(* process may be killed between their steps, and the mapping then holds   *)
(* what they had written.  Power losses are left out: the log is replayed  *)
(* over the last flush.                                                    *)
(***************************************************************************)
EXTENDS Integers, Sequences, FiniteSets, SequencesExt, FiniteSetsExt, Functions

CONSTANTS
    Vals,         \* row contents
    RowsPerPage,
    MaxPages,     \* LruCache.max_pages; load_table passes at least 1
    LegacyRows,   \* ids of the rows of a .dat file, {} when there is none
    LegacyVal,    \* what those rows contain
    MaxId,        \* bound on row ids
    MaxOps,       \* bound on operations
    MaxKills      \* bound on kills, failed growths and pages that overflow

ASSUME PageAssumption ==
    /\ RowsPerPage \in Nat \ {0} /\ MaxPages \in Nat \ {0}
    /\ MaxId \in Nat \ {0} /\ MaxOps \in Nat /\ MaxKills \in Nat
    /\ LegacyRows \subseteq 1..MaxId /\ LegacyVal \in Vals

VARIABLES
    \* the files
    exists,             \* there is a .pages file
    hdrNext, hdrCount,  \* its header
    slots,              \* the rows in each page slot
    blank,              \* slots whose length field is 0
    torn,               \* slots that do not decode
    dat,                \* there is a .dat file
    \* PageTable
    up, nextId, pageCount,
    cache, order,       \* LruCache.pages and LruCache.order
    pc, job,            \* where the operation is, and what it writes
    todo,               \* rows still to import
    \* history
    acked,              \* ids whose insert has returned
    damage, ops, kills

header == <<exists, hdrNext, hdrCount>>
file == <<header, slots, blank, torn, dat>>
lru == <<cache, order>>
mem == <<up, nextId, pageCount, lru>>
hist == <<acked, damage, ops, kills>>
vars == <<file, mem, pc, job, todo, hist>>

Ids == 1..MaxId
PageOf(id) == (id - 1) \div RowsPerPage
Pages == 0..PageOf(MaxId)
LegacyNext == Max(LegacyRows \cup {0}) + 1   \* next_id of the .dat file
NoJob == [id |-> 0, row |-> <<>>, back |-> "idle"]

Put(f, id, v) == [i \in DOMAIN f \cup {id} |-> IF i = id THEN v ELSE f[i]]
Without(f, id) == Restrict(f, DOMAIN f \ {id})

Init ==
    /\ exists = FALSE /\ hdrNext = 0 /\ hdrCount = 0
    /\ slots = [p \in Pages |-> <<>>] /\ blank = Pages /\ torn = {}
    /\ dat = (LegacyRows # {})
    /\ up = FALSE /\ nextId = 0 /\ pageCount = 0 /\ cache = <<>> /\ order = <<>>
    /\ pc = "idle" /\ job = NoJob /\ todo = {}
    /\ acked = {} /\ damage = {} /\ ops = 0 /\ kills = 0

-----------------------------------------------------------------------------
(* LruCache.                                                               *)

Touched(seq, p) == Append(RemoveFirst(seq, p), p)

(* insert pops pages off the front until there is room.                    *)
Excess == Cardinality(DOMAIN cache) - MaxPages + 1

KeptOrder == IF Excess > 0 THEN SubSeq(order, Excess + 1, Len(order)) ELSE order

CacheInsertKeeping(p, body) ==
    cache' = Put(cache, p, body) /\ order' = Touched(KeptOrder, p)

CacheInsert(p, body) ==
    IF p \in DOMAIN cache
    THEN cache' = Put(cache, p, body) /\ order' = Touched(order, p)
    ELSE /\ cache' = Put(Restrict(cache, DOMAIN cache \cap Range(KeptOrder)), p, body)
         /\ order' = Touched(KeptOrder, p)

(* load_page: an empty slot is not put into the cache.                     *)
Body(p) == IF p \in DOMAIN cache THEN cache[p] ELSE slots[p]

LoadPage(p) ==
    IF p \in DOMAIN cache THEN order' = Touched(order, p) /\ UNCHANGED cache
    ELSE IF p \in blank THEN UNCHANGED lru
    ELSE CacheInsert(p, slots[p])

Loadable(p) == p \in DOMAIN cache \/ p \notin torn

WriteHeader(next, count) == hdrNext' = next /\ hdrCount' = count

-----------------------------------------------------------------------------
(* PageTable::open, and load_table's import of a .dat file that has no     *)
(* .pages file beside it.  A new file is all zeros, its header included.   *)
Open ==
    /\ ~up
    /\ up' = TRUE
    /\ cache' = <<>> /\ order' = <<>>
    /\ IF exists
       THEN /\ nextId' = hdrNext /\ pageCount' = hdrCount
            /\ UNCHANGED <<header, pc, todo>>
       ELSE /\ exists' = TRUE /\ WriteHeader(0, 0)
            /\ pageCount' = 0
            /\ IF dat THEN nextId' = LegacyNext /\ pc' = "import" /\ todo' = LegacyRows
                      ELSE nextId' = 1 /\ UNCHANGED <<pc, todo>>
    /\ UNCHANGED <<slots, blank, torn, dat, job, hist>>

(* import_rows, in the order of a HashMap; then the header, and the .dat   *)
(* file is removed.                                                        *)
ImportRow(id) ==
    /\ pc = "import" /\ id \in todo
    /\ todo' = todo \ {id}
    /\ job' = [id |-> id, row |-> <<LegacyVal>>, back |-> "import"]
    /\ pc' = "grow"
    /\ UNCHANGED <<file, mem, hist>>

ImportEnd ==
    /\ pc = "import" /\ todo = {}
    /\ WriteHeader(nextId, pageCount)
    /\ pc' = "removeDat"
    /\ UNCHANGED <<exists, slots, blank, torn, dat, mem, job, todo, hist>>

RemoveDat ==
    /\ pc = "removeDat"
    /\ dat' = FALSE
    /\ acked' = acked \cup LegacyRows
    /\ pc' = "idle"
    /\ UNCHANGED <<header, slots, blank, torn, mem, job, todo, damage, ops, kills>>

-----------------------------------------------------------------------------
Ready == up /\ pc = "idle"
Operation == ops < MaxOps /\ ops' = ops + 1

(* insert.                                                                 *)
Insert(v) ==
    /\ Ready /\ nextId \in Ids /\ Operation
    /\ nextId' = nextId + 1
    /\ job' = [id |-> nextId, row |-> <<v>>, back |-> "header"]
    /\ pc' = "grow"
    /\ UNCHANGED <<file, up, pageCount, lru, todo, acked, damage, kills>>

(* insert after a header of zeros: row_id - 1 underflows.  A debug build   *)
(* panics; a release build wraps to a page that is out of range, after     *)
(* page_count has wrapped to 0 and the header has been written.            *)
InsertAtZero ==
    /\ Ready /\ nextId = 0 /\ Operation
    /\ nextId' = 1
    /\ \/ UNCHANGED <<header, pageCount>>
       \/ pageCount' = 0 /\ WriteHeader(1, 0) /\ UNCHANGED exists
    /\ UNCHANGED <<slots, blank, torn, dat, up, lru, pc, job, todo, acked, damage, kills>>

(* apply_insert, from the replay of the log or the undo of a DELETE.       *)
ApplyInsert(id, v) ==
    /\ Ready /\ Operation
    /\ nextId' = IF id >= nextId THEN id + 1 ELSE nextId
    /\ job' = [id |-> id, row |-> <<v>>, back |-> "header"]
    /\ pc' = "grow"
    /\ UNCHANGED <<file, up, pageCount, lru, todo, acked, damage, kills>>

(* update and delete: page_count bounds what they look at, and a row that  *)
(* is not there is left alone.                                             *)
Change(id, row) ==
    /\ Ready /\ Operation /\ PageOf(id) < pageCount /\ Loadable(PageOf(id))
    /\ IF id \in DOMAIN Body(PageOf(id))
       THEN /\ job' = [id |-> id, row |-> row, back |-> "idle"]
            /\ pc' = "store"
            /\ UNCHANGED lru
       ELSE LoadPage(PageOf(id)) /\ UNCHANGED <<job, pc>>
    /\ UNCHANGED <<file, up, nextId, pageCount, todo, acked, damage, kills>>

(* get, and what scan and row_count do for each page.                      *)
Get(id) ==
    /\ Ready /\ Operation /\ PageOf(id) < pageCount /\ Loadable(PageOf(id))
    /\ LoadPage(PageOf(id))
    /\ UNCHANGED <<file, up, nextId, pageCount, pc, job, todo, acked, damage, kills>>

(* grow_if_needed: the header is written before the page.                  *)
GrowTwoPages ==
    /\ pc = "grow"
    /\ IF PageOf(job.id) < pageCount THEN UNCHANGED <<hdrNext, hdrCount, pageCount>>
       ELSE pageCount' = PageOf(job.id) + 2 /\ WriteHeader(nextId, PageOf(job.id) + 2)
    /\ pc' = "store"
    /\ UNCHANGED <<exists, slots, blank, torn, dat, up, nextId, lru, job, todo, hist>>

Grow ==
    /\ pc = "grow"
    /\ IF PageOf(job.id) < pageCount THEN UNCHANGED <<hdrNext, hdrCount, pageCount>>
       ELSE pageCount' = PageOf(job.id) + 1 /\ WriteHeader(nextId, PageOf(job.id) + 1)
    /\ pc' = "store"
    /\ UNCHANGED <<exists, slots, blank, torn, dat, up, nextId, lru, job, todo, hist>>

(* load_page, the change to a copy, and store_page up to fill(0).          *)
Page == PageOf(job.id)
NewBody(body) == IF job.row = <<>> THEN Without(body, job.id) ELSE Put(body, job.id, job.row[1])

ZeroPage ==
    /\ pc = "store" /\ Loadable(Page)
    /\ LoadPage(Page)
    /\ job' = [id |-> job.id, row |-> job.row, back |-> job.back, body |-> NewBody(Body(Page))]
    /\ slots' = [slots EXCEPT ![Page] = <<>>]
    /\ blank' = blank \cup {Page} /\ torn' = torn \ {Page}
    /\ pc' = "fill"
    /\ UNCHANGED <<header, dat, up, nextId, pageCount, todo, hist>>

(* store_page: the bytes of the page, and the cache.                       *)
FillUncached ==
    /\ pc = "fill"
    /\ slots' = [slots EXCEPT ![Page] = job.body]
    /\ blank' = blank \ {Page}
    /\ pc' = job.back
    /\ job' = IF job.back = "header" THEN job ELSE NoJob
    /\ UNCHANGED <<header, torn, dat, mem, todo, acked, damage, ops, kills>>

FillPage ==
    /\ pc = "fill"
    /\ slots' = [slots EXCEPT ![Page] = job.body]
    /\ blank' = blank \ {Page}
    /\ CacheInsert(Page, job.body)
    /\ pc' = job.back
    /\ job' = IF job.back = "header" THEN job ELSE NoJob
    /\ UNCHANGED <<header, torn, dat, up, nextId, pageCount, todo, acked, damage, ops, kills>>

(* insert and apply_insert end with the header.                            *)
EndInsert ==
    /\ pc = "header"
    /\ WriteHeader(nextId, pageCount)
    /\ acked' = acked \cup {job.id}
    /\ pc' = "idle" /\ job' = NoJob
    /\ UNCHANGED <<exists, slots, blank, torn, dat, mem, todo, damage, ops, kills>>

(* flush_all, at a checkpoint.                                             *)
FlushAll ==
    /\ Ready /\ <<hdrNext, hdrCount>> # <<nextId, pageCount>>
    /\ WriteHeader(nextId, pageCount)
    /\ UNCHANGED <<exists, slots, blank, torn, dat, mem, pc, job, todo, hist>>

-----------------------------------------------------------------------------
Importing == pc \in {"import", "removeDat"} \/ job.back = "import"

Down(lost) ==
    /\ up' = FALSE /\ nextId' = 0 /\ pageCount' = 0 /\ cache' = <<>> /\ order' = <<>>
    /\ pc' = "idle" /\ job' = NoJob /\ todo' = {}
    /\ damage' = damage \cup lost \cup (IF Importing /\ pc # "removeDat" THEN {"tornImport"} ELSE {})

(* `?` ends the operation, and if it was an import the database does not  *)
(* open.                                                                   *)
Abandon ==
    /\ IF Importing THEN Down({}) ELSE pc' = "idle" /\ job' = NoJob /\ UNCHANGED <<up, nextId, pageCount, todo, damage>>
    /\ UNCHANGED <<file, acked, ops>>

(* grow_if_needed: the flush, the opening or the lengthening of the file   *)
(* fails, before page_count changes.  The next use maps the file again.    *)
GrowFails ==
    /\ pc = "grow" /\ PageOf(job.id) >= pageCount /\ kills < MaxKills
    /\ kills' = kills + 1
    /\ Abandon
    /\ ~Importing => UNCHANGED lru

(* load_page cannot decode the slot.                                       *)
LoadFails ==
    /\ pc = "store" /\ ~Loadable(Page)
    /\ Abandon
    /\ ~Importing => UNCHANGED lru
    /\ UNCHANGED kills

(* store_page: the rows do not fit into the slot.                          *)
PageOverflow ==
    /\ pc = "store" /\ Loadable(Page) /\ kills < MaxKills
    /\ kills' = kills + 1
    /\ Abandon
    /\ ~Importing => LoadPage(Page)

(* The process is killed.  A page half written is empty or unreadable.     *)
Kill ==
    /\ up /\ kills < MaxKills
    /\ kills' = kills + 1
    /\ Down(IF pc = "fill" THEN {"tornPage"} ELSE {})
    /\ \/ UNCHANGED <<torn, blank>>
       \/ pc = "fill" /\ torn' = torn \cup {Page} /\ blank' = blank \ {Page}
    /\ UNCHANGED <<header, slots, dat, acked, ops>>

Next ==
    \/ Open
    \/ \E v \in Vals : Insert(v)
    \/ \E id \in Ids : ImportRow(id) \/ Get(id) \/ Change(id, <<>>)
    \/ \E id \in Ids, v \in Vals : ApplyInsert(id, v) \/ Change(id, <<v>>)
    \/ InsertAtZero
    \/ ImportEnd
    \/ RemoveDat
    \/ Grow
    \/ ZeroPage
    \/ FillPage
    \/ EndInsert
    \/ FlushAll
    \/ GrowFails
    \/ LoadFails
    \/ PageOverflow
    \/ Kill

Spec == Init /\ [][Next]_vars

-----------------------------------------------------------------------------
(* Every variable has its type.                                            *)
TypeOK ==
    /\ exists \in BOOLEAN /\ dat \in BOOLEAN /\ up \in BOOLEAN
    /\ {hdrNext, nextId} \subseteq 0..(MaxId + 1)
    /\ {hdrCount, pageCount} \subseteq 0..(PageOf(MaxId) + 1)
    /\ \A p \in Pages : DOMAIN slots[p] \subseteq {id \in Ids : PageOf(id) = p}
    /\ blank \subseteq Pages /\ torn \subseteq Pages
    /\ DOMAIN cache \subseteq Pages
    /\ pc \in {"idle", "import", "removeDat", "grow", "store", "fill", "header"}
    /\ todo \subseteq LegacyRows /\ acked \subseteq Ids
    /\ damage \subseteq {"tornPage", "tornImport"}

(* The cache holds the pages its order lists, each once, and no more than  *)
(* max_pages of them.                                                      *)
CacheBounded ==
    /\ Range(order) = DOMAIN cache /\ Len(order) = Cardinality(DOMAIN cache)
    /\ Len(order) <= MaxPages

-----------------------------------------------------------------------------
(* The table as its users see it, for the refinement.                      *)

(* What get returns, from the cache or the file, within page_count: the    *)
(* one in memory, or while the process is down the one in the header.      *)
Count == IF up THEN pageCount ELSE hdrCount
Readable == {id \in Ids : PageOf(id) < Count /\ id \in DOMAIN Body(PageOf(id))}

LegacyTable == [id \in LegacyRows |-> LegacyVal]

(* Until the import is over the table is the .dat file.                    *)
Table ==
    IF ~exists \/ Importing THEN LegacyTable
    ELSE [id \in Readable |-> Body(PageOf(id))[id]]

Writing == pc \in {"grow", "store", "fill"} /\ ~Importing

Promise == INSTANCE RowMap WITH
    Rows  <- LegacyTable,
    map   <- Table,
    doing <- IF Writing THEN <<job.id, job.row>> ELSE <<>>,
    next  <- IF up THEN nextId ELSE hdrNext,
    given <- acked,
    lost  <- damage # {}

(* The paged file implements the table of RowMap: growth, eviction, import *)
(* and restarts do not show; a write shows at once and as a whole, in the  *)
(* cache and in the file; a kill between any two steps leaves the rows as  *)
(* they were before the write or after it, and lets no id of an insert     *)
(* that has returned be given out again.  The exceptions, steps that lose  *)
(* rows, are a kill inside a page write and a kill inside an import.       *)
ImplementsRowMap == Promise!Spec
=============================================================================
