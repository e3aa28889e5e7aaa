------------------------- MODULE PageTable_proofs -------------------------
(***************************************************************************)
(* The invariants of PageTable and its refinement of RowMap, for any size  *)
(* of pages, cache and table, any rows of a .dat file, and any number of   *)
(* operations and kills.                                                   *)
(***************************************************************************)
EXTENDS PageTable, FiniteSetTheorems, WellFoundedInduction, TLAPS

PageIds(p) == {id \in Ids : PageOf(id) = p}

(* The file.  Pages beyond the header's count were never written, and      *)
(* before there is a file nothing has happened.                            *)
FileInv ==
    /\ DOMAIN slots = Pages
    /\ \A p \in Pages : p \in blank => slots[p] = <<>>
    /\ \A p \in Pages : p >= hdrCount => p \in blank
    /\ hdrNext = 0 => hdrCount = 0
    /\ torn # {} => damage # {}
    /\ ~exists => /\ ~up /\ hdrNext = 0 /\ hdrCount = 0 /\ blank = Pages
                  /\ acked = {} /\ damage = {} /\ dat = (LegacyRows # {})

(* Memory against the file: the header has the count, and the cache has    *)
(* what the file has, but for the page that store_page has zeroed.         *)
MemInv ==
    /\ ~up => pc = "idle" /\ cache = <<>> /\ order = <<>>
    /\ up => pageCount = hdrCount /\ (nextId = 0 => pageCount = 0)
    /\ \A p \in DOMAIN cache : p < hdrCount /\ (cache[p] = slots[p] \/ (pc = "fill" /\ p = Page))

(* The order of the cache lists no page twice.                             *)
OrderInv ==
    /\ order \in Seq(Pages)
    /\ \A i, j \in 1..Len(order) : i # j => order[i] # order[j]

(* What an operation has established by the time it comes to a step.       *)
JobInv ==
    /\ pc \in {"idle", "import", "removeDat"} => job = NoJob
    /\ pc \in {"grow", "store", "fill", "header"} =>
          /\ job.id \in Ids /\ nextId > 0
          /\ job.back \in {"idle", "header", "import"}
          /\ job.back = "header" => job.row # <<>> /\ job.id < nextId
          /\ pc # "grow" => Page < pageCount
    /\ pc = "fill" =>
          /\ Page \in blank /\ Page \notin torn
          /\ DOMAIN Body(Page) \subseteq PageIds(Page)
          /\ job.body = NewBody(Body(Page))
    /\ pc = "header" => job.back = "header" /\ job.id \in DOMAIN Body(Page)

(* The import: the pages have the rows of the .dat file that are not to do *)
(* and not in hand.                                                        *)
Imported == LegacyRows \ (todo \cup {job.id})

ImportInv ==
    Importing =>
        /\ exists /\ up /\ acked = {} /\ nextId = LegacyNext
        /\ job.back = "import" => job.id \in LegacyRows \ todo /\ job.row = <<LegacyVal>>
        /\ \A id \in Ids : id \in DOMAIN Body(PageOf(id)) <=> id \in Imported
        /\ \A id \in Imported : Body(PageOf(id))[id] = LegacyVal
        /\ pc = "removeDat" => todo = {} /\ hdrNext = nextId

(* No id that was given out is given out again, after a kill neither.      *)
AckInv == \A id \in acked : id < hdrNext /\ (up => id < nextId)

IInv ==
    /\ TypeOK /\ CacheBounded
    /\ FileInv /\ MemInv /\ OrderInv /\ JobInv /\ ImportInv /\ AckInv

-----------------------------------------------------------------------------
(* Arithmetic of pages and ids.                                            *)

LEMMA PageOfType ==
    ASSUME NEW id \in Ids
    PROVE  PageOf(id) \in Pages /\ PageOf(id) \in Nat
  <1> DEFINE R == RowsPerPage
             a == id - 1
             b == MaxId - 1
  <1>1. R \in Nat /\ R > 0 /\ a \in Nat /\ b \in Nat /\ a <= b
    BY PageAssumption DEF Ids
  <1>2. PageOf(id) = a \div R /\ PageOf(MaxId) = b \div R
    BY DEF PageOf
  <1> HIDE DEF R, a, b
  <1>3. PICK p, q \in Int : p = a \div R /\ q = b \div R
    BY <1>1
  <1>4. R * p <= a /\ a < R * (p + 1) /\ R * q <= b /\ b < R * (q + 1)
    BY <1>1, <1>3
  <1>5. R * p < R * (q + 1) /\ 0 < R * (p + 1)
    BY <1>1, <1>3, <1>4
  <1>6. p < q + 1 /\ 0 < p + 1
    BY <1>1, <1>3, <1>5
  <1> QED
    BY <1>2, <1>3, <1>6 DEF Pages

(* next_id of the .dat file is beyond its rows.                            *)
LEMMA LegacyNextFresh ==
    /\ LegacyNext \in 1..(MaxId + 1)
    /\ \A id \in LegacyRows : id < LegacyNext
  <1> DEFINE S == LegacyRows \cup {0}
             above == {n \in Nat : \A y \in S : y <= n}
  <1>1. S \subseteq 0..MaxId /\ 0 \in S /\ MaxId \in Nat
    BY PageAssumption
  <1>2. MaxId \in above
    BY <1>1
  <1>3. PICK m \in above : \A y \in above : ~(<<y, m>> \in OpToRel(<, Nat))
    BY <1>2, NatLessThanWellFounded, WFMin
  <1>4. \A y \in above : ~(y < m)
    BY <1>3 DEF OpToRel
  <1>5. m \in S
    <2> SUFFICES ASSUME m \notin S
                 PROVE  FALSE
      OBVIOUS
    <2>1. m - 1 \in above
      BY <1>1
    <2> QED
      BY <1>4, <2>1
  <1>6. \A y \in S : m >= y
    BY <1>1
  <1> HIDE DEF S
  <1>7. Max(S) \in S /\ \A y \in S : Max(S) >= y
    BY <1>5, <1>6 DEF Max
  <1>8. LegacyNext = Max(S) + 1 /\ LegacyRows \subseteq S
    BY DEF LegacyNext, S
  <1>9. Max(S) \in 0..MaxId
    BY <1>1, <1>7
  <1>10. \A id \in LegacyRows : id \in Int /\ Max(S) >= id
    BY <1>1, <1>7, <1>8
  <1> QED
    BY <1>1, <1>8, <1>9, <1>10

-----------------------------------------------------------------------------
(* touch moves a page to the end of the order.                             *)
Distinct(seq) == \A i, j \in 1..Len(seq) : i # j => seq[i] # seq[j]

LEMMA TouchedResult ==
    ASSUME NEW seq \in Seq(Pages), Distinct(seq), NEW p \in Pages
    PROVE  /\ Touched(seq, p) \in Seq(Pages) /\ Distinct(Touched(seq, p))
           /\ Range(Touched(seq, p)) = Range(seq) \cup {p}
           /\ Len(Touched(seq, p)) = IF p \in Range(seq) THEN Len(seq) ELSE Len(seq) + 1
  <1>1. \A q \in {p} : q \in Range(seq) <=> \E i \in 1..Len(seq) : seq[i] = q
    BY DEF Range
  <1>2. CASE p \notin Range(seq)
    <2>1. Touched(seq, p) = Append(seq, p)
      BY <1>1, <1>2 DEF Touched, RemoveFirst
    <2>2. /\ Append(seq, p) \in Seq(Pages) /\ Len(Append(seq, p)) = Len(seq) + 1
          /\ \A i \in 1..Len(seq) : Append(seq, p)[i] = seq[i]
          /\ Append(seq, p)[Len(seq) + 1] = p
      OBVIOUS
    <2>3. Distinct(Append(seq, p))
      BY <1>1, <1>2, <2>2 DEF Distinct
    <2>4. Range(Append(seq, p)) = Range(seq) \cup {p}
      BY <2>2 DEF Range
    <2> QED
      BY <1>2, <2>1, <2>2, <2>3, <2>4
  <1>3. CASE p \in Range(seq)
    <2>1. PICK n \in 1..Len(seq) : seq[n] = p
      BY <1>1, <1>3
    <2>2. {i \in 1..Len(seq) : seq[i] = p} = {n}
      BY <2>1 DEF Distinct
    <2>3. Min({n}) = n
      BY <2>1 DEF Min
    <2>4. SelectInSeq(seq, LAMBDA v : v = p) = n
      BY <2>2, <2>3 DEF SelectInSeq
    <2> DEFINE rest == RemoveAt(seq, n)
               new == Append(rest, p)
    <2>5. Touched(seq, p) = new
      BY <2>1, <2>4 DEF Touched, RemoveFirst
    <2>6. /\ rest \in Seq(Pages) /\ Len(rest) = Len(seq) - 1 /\ Len(seq) \in Nat
          /\ \A i \in 1..Len(rest) : rest[i] = IF i < n THEN seq[i] ELSE seq[i + 1]
      <3> DEFINE front == SubSeq(seq, 1, n - 1)
                 back == SubSeq(seq, n + 1, Len(seq))
      <3>1. Len(seq) \in Nat /\ n \in Int /\ 1 <= n /\ n <= Len(seq)
        BY <2>1
      <3>2. /\ front \in Seq(Pages) /\ Len(front) = n - 1
            /\ \A i \in 1..(n - 1) : front[i] = seq[i]
        BY <3>1
      <3>3. /\ back \in Seq(Pages) /\ Len(back) = Len(seq) - n
            /\ \A i \in 1..(Len(seq) - n) : back[i] = seq[i + n]
        BY <3>1
      <3>4. rest = front \o back
        BY DEF RemoveAt
      <3> HIDE DEF front, back, rest
      <3>5. rest \in Seq(Pages) /\ Len(rest) = Len(seq) - 1
        <4>1. front \o back \in Seq(Pages) /\ Len(front \o back) = Len(front) + Len(back)
          BY <3>2, <3>3
        <4> QED
          BY <3>1, <3>2, <3>3, <3>4, <4>1
      <3>6. \A i \in 1..Len(rest) :
               rest[i] = IF i <= Len(front) THEN front[i] ELSE back[i - Len(front)]
        BY <3>2, <3>3, <3>4
      <3>7. ASSUME NEW i \in 1..Len(rest)
            PROVE  rest[i] = IF i < n THEN seq[i] ELSE seq[i + 1]
        <4>1. CASE i < n
          BY <3>1, <3>2, <3>5, <3>6, <4>1
        <4>2. CASE ~(i < n)
          <5>1. i - (n - 1) \in 1..(Len(seq) - n) /\ (i - (n - 1)) + n = i + 1
            BY <3>1, <3>5, <4>2
          <5>2. rest[i] = back[i - (n - 1)]
            BY <3>1, <3>2, <3>6, <4>2
          <5> QED
            BY <3>3, <4>2, <5>1, <5>2
        <4> QED
          BY <4>1, <4>2
      <3> QED
        BY <3>1, <3>5, <3>7
    <2> HIDE DEF rest
    <2>7. /\ new \in Seq(Pages) /\ Len(new) = Len(seq) /\ new[Len(seq)] = p
          /\ \A i \in 1..(Len(seq) - 1) : new[i] = IF i < n THEN seq[i] ELSE seq[i + 1]
      BY <2>1, <2>6
    <2> HIDE DEF new
    <2>8. Distinct(new)
      <3> SUFFICES ASSUME NEW i \in 1..Len(seq), NEW j \in 1..Len(seq), i # j
                   PROVE  new[i] # new[j]
        BY <2>7 DEF Distinct
      <3> DEFINE at(k) == IF k = Len(seq) THEN n ELSE IF k < n THEN k ELSE k + 1
      <3>1. \A k \in 1..Len(seq) : at(k) \in 1..Len(seq) /\ new[k] = seq[at(k)]
        BY <2>1, <2>6, <2>7
      <3>2. at(i) # at(j)
        BY <2>1, <2>6
      <3> QED
        BY <3>1, <3>2 DEF Distinct
    <2>9. Range(new) = Range(seq)
      <3>1. ASSUME NEW k \in 1..Len(seq)
            PROVE  \E i \in 1..Len(seq) : new[k] = seq[i]
        BY <2>1, <2>6, <2>7
      <3>2. ASSUME NEW k \in 1..Len(seq)
            PROVE  \E i \in 1..Len(seq) : seq[k] = new[i]
        <4>1. CASE k = n
          BY <2>1, <2>6, <2>7, <4>1
        <4>2. CASE k < n
          BY <2>1, <2>6, <2>7, <4>2
        <4>3. CASE k > n
          <5>1. k - 1 \in 1..(Len(seq) - 1) /\ ~(k - 1 < n) /\ (k - 1) + 1 = k
            BY <2>1, <2>6, <4>3
          <5> QED
            <6>1. new[k - 1] = seq[(k - 1) + 1] /\ k - 1 \in 1..Len(seq)
              BY <2>6, <2>7, <5>1
            <6> QED
              BY <5>1, <6>1
        <4> QED
          BY <2>1, <4>1, <4>2, <4>3
      <3> QED
        <4>1. DOMAIN new = 1..Len(seq) /\ DOMAIN seq = 1..Len(seq)
          BY <2>7
        <4>2. \A y : y \in Range(new) <=> \E k \in 1..Len(seq) : y = new[k]
          BY <4>1 DEF Range
        <4>3. \A y : y \in Range(seq) <=> \E k \in 1..Len(seq) : y = seq[k]
          BY <4>1 DEF Range
        <4>4. ASSUME NEW y \in Range(new)
              PROVE  y \in Range(seq)
          <5>1. PICK k \in 1..Len(seq) : y = new[k]
            BY <4>2
          <5>2. PICK i \in 1..Len(seq) : new[k] = seq[i]
            BY <3>1
          <5> QED
            BY <4>3, <5>1, <5>2
        <4>5. ASSUME NEW y \in Range(seq)
              PROVE  y \in Range(new)
          <5>1. PICK k \in 1..Len(seq) : y = seq[k]
            BY <4>3
          <5>2. PICK i \in 1..Len(seq) : seq[k] = new[i]
            BY <3>2
          <5> QED
            BY <4>2, <5>1, <5>2
        <4> QED
          BY <4>4, <4>5
    <2> QED
      BY <1>3, <2>5, <2>7, <2>8, <2>9
  <1> QED
    BY <1>2, <1>3

-----------------------------------------------------------------------------
(* LruCache::insert and load_page.                                         *)

LEMMA CacheInsertKeeps ==
    ASSUME CacheBounded, OrderInv, DOMAIN cache \subseteq Pages, NEW p \in Pages, NEW body,
           CacheInsert(p, body)
    PROVE  /\ CacheBounded' /\ OrderInv'
           /\ DOMAIN cache' \subseteq DOMAIN cache \cup {p}
           /\ p \in DOMAIN cache' /\ cache'[p] = body
           /\ \A q \in DOMAIN cache' : q # p => cache'[q] = cache[q]
  <1>1. order \in Seq(Pages) /\ Distinct(order) /\ Len(order) \in Nat
    BY DEF OrderInv, Distinct
  <1>2. /\ IsFiniteSet(DOMAIN cache) /\ Range(order) = DOMAIN cache
        /\ Cardinality(DOMAIN cache) = Len(order) /\ Len(order) <= MaxPages
    <2>1. PageOf(MaxId) \in Int
      BY PageOfType, PageAssumption DEF Ids
    <2>2. IsFiniteSet(Pages)
      BY <2>1, FS_Interval DEF Pages
    <2> QED
      BY <2>2, FS_Subset DEF CacheBounded
  <1>3. MaxPages \in Nat /\ MaxPages > 0
    BY PageAssumption
  <1>4. CASE p \in DOMAIN cache
    <2>1. cache' = Put(cache, p, body) /\ order' = Touched(order, p)
      BY <1>4 DEF CacheInsert
    <2>2. DOMAIN cache' = DOMAIN cache
      BY <1>4, <2>1 DEF Put
    <2>3. order' \in Seq(Pages) /\ Distinct(order') /\ Range(order') = DOMAIN cache
          /\ Len(order') = Len(order)
      BY <1>1, <1>2, <1>4, <2>1, TouchedResult
    <2> QED
      BY <1>2, <2>1, <2>2, <2>3 DEF CacheBounded, OrderInv, Distinct, Put
  <1>5. CASE p \notin DOMAIN cache
    <2> DEFINE kept == DOMAIN cache \cap Range(KeptOrder)
    <2>1. /\ cache' = Put(Restrict(cache, kept), p, body)
          /\ order' = Touched(KeptOrder, p)
      BY <1>5 DEF CacheInsert
    <2>2. /\ KeptOrder \in Seq(Pages) /\ Distinct(KeptOrder) /\ Len(KeptOrder) < MaxPages
          /\ Range(KeptOrder) \subseteq DOMAIN cache
          /\ Cardinality(Range(KeptOrder)) = Len(KeptOrder)
      <3>1. CASE Excess > 0
        <4>1. Excess = 1 /\ Len(order) = MaxPages
          BY <1>1, <1>2, <1>3, <3>1 DEF Excess
        <4> DEFINE rest == SubSeq(order, 2, Len(order))
        <4>2. KeptOrder = rest
          BY <3>1, <4>1 DEF KeptOrder
        <4>3. /\ rest \in Seq(Pages) /\ Len(rest) = Len(order) - 1
              /\ \A i \in 1..(Len(order) - 1) : rest[i] = order[i + 1]
          BY <1>1, <1>3, <4>1
        <4> HIDE DEF rest
        <4>4. Distinct(rest)
          BY <1>1, <4>3 DEF Distinct
        <4>5. order[1] \in DOMAIN cache
          BY <1>1, <1>2, <1>3, <4>1 DEF Range
        <4>6. Range(rest) = DOMAIN cache \ {order[1]}
          <5>1. \A y : y \in Range(rest) <=> \E i \in 1..(Len(order) - 1) : y = order[i + 1]
            BY <4>3 DEF Range
          <5>2. \A y : y \in DOMAIN cache <=> \E i \in 1..Len(order) : y = order[i]
            BY <1>1, <1>2 DEF Range
          <5>3. ASSUME NEW y \in Range(rest)
                PROVE  y \in DOMAIN cache \ {order[1]}
            <6>1. PICK i \in 1..(Len(order) - 1) : y = order[i + 1]
              BY <5>1
            <6>2. i + 1 \in 1..Len(order) /\ i + 1 # 1 /\ 1 \in 1..Len(order)
              BY <1>1
            <6> QED
              BY <1>1, <5>2, <6>1, <6>2 DEF Distinct
          <5>4. ASSUME NEW y \in DOMAIN cache \ {order[1]}
                PROVE  y \in Range(rest)
            <6>1. PICK i \in 1..Len(order) : y = order[i]
              BY <5>2
            <6>2. i - 1 \in 1..(Len(order) - 1) /\ (i - 1) + 1 = i
              BY <1>1, <6>1
            <6> QED
              BY <5>1, <6>1, <6>2
          <5> QED
            BY <5>3, <5>4
        <4>7. Cardinality(DOMAIN cache \ {order[1]}) = Cardinality(DOMAIN cache) - 1
          BY <1>2, <4>5, FS_RemoveElement
        <4> QED
          BY <1>1, <1>2, <1>3, <4>1, <4>2, <4>3, <4>4, <4>6, <4>7
      <3>2. CASE ~(Excess > 0)
        <4>1. KeptOrder = order /\ Len(order) < MaxPages
          BY <1>1, <1>2, <1>3, <3>2 DEF Excess, KeptOrder
        <4> QED
          BY <1>1, <1>2, <4>1
      <3> QED
        BY <3>1, <3>2
    <2>3. p \notin Range(KeptOrder) /\ kept = Range(KeptOrder)
      BY <1>5, <2>2
    <2>4. /\ order' \in Seq(Pages) /\ Distinct(order') /\ Range(order') = Range(KeptOrder) \cup {p}
          /\ Len(order') = Len(KeptOrder) + 1
      BY <2>1, <2>2, <2>3, TouchedResult
    <2>5. DOMAIN cache' = Range(KeptOrder) \cup {p}
      BY <2>1, <2>3 DEF Put, Restrict
    <2>6. Cardinality(Range(KeptOrder) \cup {p}) = Cardinality(Range(KeptOrder)) + 1
      BY <1>2, <2>2, <2>3, FS_Subset, FS_AddElement
    <2>7. Len(KeptOrder) \in Nat
      BY <2>2
    <2>8. CacheBounded' /\ OrderInv'
      BY <1>3, <2>2, <2>4, <2>5, <2>6, <2>7 DEF CacheBounded, OrderInv, Distinct
    <2>9. \A q \in DOMAIN cache' : q # p => cache'[q] = cache[q]
      BY <2>1, <2>3, <2>5 DEF Put, Restrict
    <2>10. p \in DOMAIN cache' /\ cache'[p] = body
      BY <2>1, <2>5 DEF Put
    <2> QED
      BY <2>2, <2>5, <2>8, <2>9, <2>10
  <1> QED
    BY <1>4, <1>5

LEMMA LoadPageKeeps ==
    ASSUME CacheBounded, OrderInv, DOMAIN cache \subseteq Pages, NEW p \in Pages, LoadPage(p)
    PROVE  /\ CacheBounded' /\ OrderInv'
           /\ DOMAIN cache' \subseteq DOMAIN cache \cup {p}
           /\ p \notin blank => p \in DOMAIN cache'
           /\ p \in DOMAIN cache => p \in DOMAIN cache'
           /\ \A q \in DOMAIN cache' : cache'[q] = IF q \in DOMAIN cache THEN cache[q] ELSE slots[q]
  <1>1. CASE p \in DOMAIN cache
    <2>1. order' = Touched(order, p) /\ cache' = cache
      BY <1>1 DEF LoadPage
    <2>2. p \in Range(order) /\ Distinct(order) /\ order \in Seq(Pages)
      BY <1>1 DEF CacheBounded, OrderInv, Distinct
    <2>3. /\ order' \in Seq(Pages) /\ Distinct(order')
          /\ Range(order') = Range(order) /\ Len(order') = Len(order)
      <3>1. Range(order') = Range(order) \cup {p}
        BY <2>1, <2>2, TouchedResult
      <3>2. order' \in Seq(Pages) /\ Distinct(order') /\ Len(order') = Len(order)
        BY <2>1, <2>2, TouchedResult
      <3> QED
        BY <2>2, <3>1, <3>2
    <2> QED
      BY <1>1, <2>1, <2>3 DEF CacheBounded, OrderInv, Distinct
  <1>2. CASE p \notin DOMAIN cache /\ p \in blank
    BY <1>2 DEF LoadPage, lru, CacheBounded, OrderInv
  <1>3. CASE p \notin DOMAIN cache /\ p \notin blank
    <2>1. CacheInsert(p, slots[p])
      BY <1>3 DEF LoadPage
    <2>2. PICK body : body = slots[p]
      OBVIOUS
    <2>3. /\ CacheBounded' /\ OrderInv'
          /\ DOMAIN cache' \subseteq DOMAIN cache \cup {p}
          /\ p \in DOMAIN cache' /\ cache'[p] = body
          /\ \A q \in DOMAIN cache' : q # p => cache'[q] = cache[q]
      BY <2>1, <2>2, CacheInsertKeeps
    <2> QED
      BY <1>3, <2>2, <2>3
  <1> QED
    BY <1>1, <1>2, <1>3

-----------------------------------------------------------------------------
(* The refinement: what a step is in RowMap.                               *)
Doing == IF Writing THEN <<job.id, job.row>> ELSE <<>>
NextGiven == IF up THEN nextId ELSE hdrNext

StutterStep == Table' = Table /\ Doing' = Doing /\ NextGiven' = NextGiven /\ acked' = acked
AbortStep == Table' = Table /\ Doing' = <<>> /\ acked' = acked
BeginStep ==
    /\ Table' = Table /\ Doing = <<>> /\ acked' = acked
    /\ \E id \in Ids, v \in Vals : Doing' \in {<<id, <<v>> >>, <<id, <<>> >>}
ApplyStep ==
    /\ Writing /\ Doing' = <<>> /\ NextGiven' = NextGiven /\ acked' = acked
    /\ Table' = IF job.row = <<>> THEN Without(Table, job.id) ELSE Put(Table, job.id, job.row[1])
ReturnStep ==
    /\ Table' = Table /\ Doing' = Doing /\ NextGiven' = NextGiven
    /\ \E ids \in SUBSET Ids : ids \subseteq DOMAIN Table /\ acked' = acked \cup ids

Simulates ==
    /\ damage \subseteq damage'
    /\ damage' = {} => StutterStep \/ AbortStep \/ BeginStep \/ ApplyStep \/ ReturnStep

(* The table is what its pages are, once there is no import to do.         *)
LEMMA SameTable ==
    ASSUME exists' = exists, ~Importing, ~Importing', Count' = Count,
           \A p \in Pages : Body(p)' = Body(p)
    PROVE  Table' = Table
  <1>1. \A id \in Ids : Body(PageOf(id))' = Body(PageOf(id))
    BY PageOfType DEF PageOf
  <1>2. Readable' = Readable
    BY <1>1 DEF Readable, Ids, PageOf
  <1> QED
    BY <1>1, <1>2 DEF Table, LegacyTable, Readable

(* Types and facts that every step starts from.                            *)
LEMMA Basics ==
    ASSUME IInv
    PROVE  /\ hdrNext \in Nat /\ nextId \in Nat /\ hdrCount \in Nat /\ pageCount \in Nat
           /\ MaxId \in Nat /\ PageOf(MaxId) \in Nat
           /\ DOMAIN cache \subseteq Pages
           /\ up => exists
           /\ \A p \in Pages : p \in Nat
  <1>1. PageOf(MaxId) \in Nat /\ MaxId \in Nat
    BY PageOfType, PageAssumption DEF Ids
  <1> QED
    BY <1>1 DEF IInv, TypeOK, FileInv, Pages

LEMMA BodiesSame ==
    ASSUME UNCHANGED <<cache, slots>>
    PROVE  \A p : Body(p)' = Body(p)
  BY DEF Body

(* An operation begins: insert, apply_insert, update and delete.           *)
LEMMA BeginKeeps ==
    ASSUME IInv, Ready, NEW id \in Ids, NEW row, NEW back \in {"header", "idle"},
           NEW start \in {"grow", "store"},
           row = <<>> \/ \E v \in Vals : row = <<v>>,
           job' = [id |-> id, row |-> row, back |-> back], pc' = start,
           nextId' \in nextId..(MaxId + 1), nextId' > 0,
           back = "header" => row # <<>> /\ id < nextId',
           start = "store" => PageOf(id) < pageCount,
           UNCHANGED <<file, up, pageCount, lru, todo, acked, damage>>
    PROVE  IInv' /\ Simulates
  <1>1. /\ up /\ pc = "idle" /\ job = NoJob /\ exists
        /\ UNCHANGED <<exists, hdrNext, hdrCount, slots, blank, torn, dat, up, pageCount, cache, order>>
    BY Basics DEF Ready, IInv, JobInv, file, header, lru
  <1>2. ~Importing /\ ~Importing' /\ ~Writing /\ Writing'
    BY <1>1 DEF Importing, Writing, NoJob
  <1>3. hdrNext \in Nat /\ nextId \in Nat /\ nextId' \in Nat /\ nextId <= nextId'
    BY Basics, PageAssumption
  <1>4. TypeOK'
    BY <1>1, <1>3, PageAssumption DEF IInv, TypeOK, Ids
  <1>5. FileInv' /\ CacheBounded' /\ OrderInv'
    BY <1>1 DEF IInv, FileInv, CacheBounded, OrderInv
  <1>6. MemInv'
    BY <1>1, <1>3 DEF IInv, MemInv
  <1>7. JobInv'
    <2>1. job'.id = id /\ job'.row = row /\ job'.back = back
      OBVIOUS
    <2> QED
      BY <1>1, <2>1 DEF JobInv, Page, PageOf, Ids
  <1>8. ImportInv'
    BY <1>2 DEF ImportInv
  <1>9. AckInv'
    <2>1. \A x \in acked : x \in Int
      BY DEF IInv, TypeOK, Ids
    <2> QED
      BY <1>1, <1>3, <2>1 DEF IInv, AckInv
  <1>10. Table' = Table
    BY <1>1, <1>2, BodiesSame, SameTable DEF Count
  <1>11. Doing = <<>> /\ Doing' = <<id, row>>
    BY <1>2 DEF Doing
  <1>12. BeginStep
    BY <1>10, <1>11, PageAssumption DEF BeginStep
  <1> QED
    BY <1>4, <1>5, <1>6, <1>7, <1>8, <1>9, <1>12 DEF IInv, Simulates

LEMMA OperationsBegin ==
    ASSUME IInv
    PROVE  /\ \A v \in Vals : Insert(v) => IInv' /\ Simulates
           /\ \A id \in Ids, v \in Vals : ApplyInsert(id, v) => IInv' /\ Simulates
  <1>1. ASSUME NEW v \in Vals, Insert(v)
        PROVE  IInv' /\ Simulates
    <2>1. PICK id \in Ids : id = nextId
      BY <1>1 DEF Insert
    <2>2. nextId' = id + 1 /\ job' = [id |-> id, row |-> << v >>, back |-> "header"]
      BY <1>1, <2>1 DEF Insert
    <2>3. nextId' \in nextId..(MaxId + 1) /\ nextId' > 0 /\ id < nextId'
      BY <2>1, <2>2, PageAssumption DEF Ids
    <2> QED
      BY <1>1, <2>1, <2>2, <2>3, BeginKeeps DEF Insert
  <1>2. ASSUME NEW id \in Ids, NEW v \in Vals, ApplyInsert(id, v)
        PROVE  IInv' /\ Simulates
    <2>1. /\ nextId' = IF id >= nextId THEN id + 1 ELSE nextId
          /\ job' = [id |-> id, row |-> << v >>, back |-> "header"]
      BY <1>2 DEF ApplyInsert
    <2>2. nextId \in 0..(MaxId + 1)
      BY DEF IInv, TypeOK
    <2>3. nextId' \in nextId..(MaxId + 1) /\ nextId' > 0 /\ id < nextId'
      BY <2>1, <2>2, PageAssumption DEF Ids
    <2> QED
      BY <1>2, <2>1, <2>3, BeginKeeps DEF ApplyInsert
  <1> QED
    BY <1>1, <1>2

-----------------------------------------------------------------------------
(* Only pages within the count have rows.                                  *)
RowsAreReadable == Readable = {id \in Ids : id \in DOMAIN Body(PageOf(id))}

LEMMA ReadableRows ==
    IInv => RowsAreReadable
  <1> SUFFICES ASSUME IInv
               PROVE  RowsAreReadable
    OBVIOUS
  <1>1. Count = hdrCount
    BY DEF IInv, MemInv, Count
  <1>2. ASSUME NEW id \in Ids, id \in DOMAIN Body(PageOf(id))
        PROVE  PageOf(id) < hdrCount
    <2>1. PageOf(id) \in Pages /\ PageOf(id) \in Nat /\ hdrCount \in Nat
      BY PageOfType, Basics
    <2>2. CASE PageOf(id) \in DOMAIN cache
      BY <2>2 DEF IInv, MemInv
    <2>3. CASE PageOf(id) \notin DOMAIN cache
      <3>1. slots[PageOf(id)] # <<>>
        BY <1>2, <2>3 DEF Body
      <3> QED
        BY <2>1, <3>1 DEF IInv, FileInv
    <2> QED
      BY <2>2, <2>3
  <1> QED
    BY <1>1, <1>2 DEF Readable, RowsAreReadable

LEMMA TableKept ==
    ASSUME IInv, IInv', exists' = exists, ~Importing, ~Importing',
           \A p \in Pages : Body(p)' = Body(p)
    PROVE  Table' = Table
  <1>1. \A id \in Ids : Body(PageOf(id))' = Body(PageOf(id))
    BY PageOfType DEF PageOf
  <1>2. RowsAreReadable /\ RowsAreReadable'
    BY ReadableRows, PTL
  <1>3. /\ Readable = {id \in Ids : id \in DOMAIN Body(PageOf(id))}
        /\ Readable' = {id \in Ids : id \in DOMAIN Body(PageOf(id))'}
    BY <1>2 DEF RowsAreReadable, Ids, PageOf
  <1>4. Readable' = Readable
    BY <1>1, <1>3
  <1> QED
    BY <1>1, <1>4 DEF Table, LegacyTable, Readable

(* load_page shows nothing, unless a page is half written.                 *)
LEMMA LoadingShowsNothing ==
    ASSUME IInv, pc # "fill", NEW p \in Pages, p < hdrCount, LoadPage(p), slots' = slots
    PROVE  /\ CacheBounded' /\ OrderInv' /\ DOMAIN cache' \subseteq Pages
           /\ \A q \in DOMAIN cache' : q < hdrCount /\ cache'[q] = slots[q]
           /\ \A q \in Pages : Body(q)' = Body(q)
  <1>1. /\ CacheBounded' /\ OrderInv'
        /\ DOMAIN cache' \subseteq DOMAIN cache \cup {p} /\ DOMAIN cache \subseteq Pages
        /\ \A q \in DOMAIN cache' : cache'[q] = IF q \in DOMAIN cache THEN cache[q] ELSE slots[q]
    BY Basics, LoadPageKeeps DEF IInv
  <1>2. \A q \in DOMAIN cache : q < hdrCount /\ cache[q] = slots[q]
    BY DEF IInv, MemInv
  <1>3. \A q \in Pages : Body(q)' = Body(q)
    BY <1>1, <1>2 DEF Body
  <1> QED
    BY <1>1, <1>2, <1>3

(* get, and an update or delete of a row that is not there.                *)
LEMMA LoadKeeps ==
    ASSUME IInv, Ready, NEW id \in Ids, PageOf(id) < pageCount, LoadPage(PageOf(id)),
           UNCHANGED <<file, up, nextId, pageCount, pc, job, todo, acked, damage>>
    PROVE  IInv' /\ Simulates
  <1>1. /\ up /\ pc = "idle" /\ job = NoJob /\ exists
        /\ UNCHANGED <<exists, hdrNext, hdrCount, slots, blank, torn, dat>>
        /\ pageCount = hdrCount
    BY Basics DEF Ready, IInv, JobInv, MemInv, file, header
  <1>2. PICK p \in Pages : p = PageOf(id)
    BY PageOfType
  <1>3. /\ CacheBounded' /\ OrderInv' /\ DOMAIN cache' \subseteq Pages
        /\ \A q \in DOMAIN cache' : q < hdrCount /\ cache'[q] = slots[q]
        /\ \A q \in Pages : Body(q)' = Body(q)
    BY <1>1, <1>2, LoadingShowsNothing
  <1>4. ~Importing /\ ~Importing' /\ ~Writing /\ ~Writing'
    BY <1>1 DEF Importing, Writing, NoJob
  <1>5. TypeOK'
    BY <1>1, <1>3 DEF IInv, TypeOK
  <1>6. FileInv' /\ AckInv'
    BY <1>1 DEF IInv, FileInv, AckInv
  <1>7. MemInv'
    BY <1>1, <1>3 DEF IInv, MemInv
  <1>8. JobInv' /\ ImportInv'
    BY <1>1, <1>4 DEF JobInv, ImportInv, NoJob
  <1>9. Table' = Table
    BY <1>1, <1>3, <1>4, SameTable DEF Count
  <1>10. StutterStep
    BY <1>1, <1>4, <1>9 DEF StutterStep, Doing, NextGiven
  <1> QED
    BY <1>3, <1>5, <1>6, <1>7, <1>8, <1>10 DEF IInv, Simulates

LEMMA ChangeKeeps ==
    ASSUME IInv, NEW id \in Ids, NEW row, row = <<>> \/ \E v \in Vals : row = <<v>>, Change(id, row)
    PROVE  IInv' /\ Simulates
  <1>1. CASE id \in DOMAIN Body(PageOf(id))
    <2>1. /\ Ready /\ job' = [id |-> id, row |-> row, back |-> "idle"] /\ pc' = "store"
          /\ PageOf(id) < pageCount /\ nextId' = nextId
          /\ UNCHANGED <<file, up, pageCount, lru, todo, acked, damage>>
      BY <1>1 DEF Change
    <2>2. nextId' \in nextId..(MaxId + 1) /\ nextId' > 0
      <3>1. nextId \in 0..(MaxId + 1) /\ PageOf(id) \in Nat /\ pageCount \in Nat
        BY PageOfType, Basics DEF IInv, TypeOK
      <3>2. nextId # 0
        BY <2>1, <3>1 DEF IInv, MemInv, Ready
      <3> QED
        BY <2>1, <3>1, <3>2, PageAssumption
    <2> QED
      BY <2>1, <2>2, BeginKeeps
  <1>2. CASE id \notin DOMAIN Body(PageOf(id))
    <2>1. /\ Ready /\ PageOf(id) < pageCount /\ LoadPage(PageOf(id))
          /\ UNCHANGED <<file, up, nextId, pageCount, pc, job, todo, acked, damage>>
      BY <1>2 DEF Change
    <2> QED
      BY <2>1, LoadKeeps
  <1> QED
    BY <1>1, <1>2

-----------------------------------------------------------------------------
(* The steps of an operation.                                              *)

LEMMA SameRows ==
    ASSUME IInv, IInv', exists, exists', Importing' <=> Importing,
           \A p \in Pages : Body(p)' = Body(p)
    PROVE  Table' = Table
  <1>1. CASE Importing
    BY <1>1 DEF Table, LegacyTable
  <1>2. CASE ~Importing
    BY <1>2, TableKept
  <1> QED
    BY <1>1, <1>2

(* What holds inside an operation.                                         *)
LEMMA InOperation ==
    ASSUME IInv, pc \in {"grow", "store", "fill", "header"}
    PROVE  /\ up /\ exists /\ pageCount = hdrCount /\ nextId \in Nat /\ nextId > 0
           /\ job.id \in Ids /\ Page \in Pages /\ Page \in Nat
           /\ job.back \in {"idle", "header", "import"}
           /\ Importing <=> job.back = "import"
           /\ pc # "grow" => Page < hdrCount
  <1>1. up /\ exists /\ pageCount = hdrCount
    BY Basics DEF IInv, MemInv
  <1>2. job.id \in Ids /\ nextId > 0 /\ job.back \in {"idle", "header", "import"}
    BY DEF IInv, JobInv
  <1>3. Page \in Pages /\ Page \in Nat
    BY <1>2, PageOfType DEF Page
  <1> QED
    BY <1>1, <1>2, <1>3, Basics DEF IInv, JobInv, Importing

LEMMA GrowKeeps ==
    ASSUME IInv, Grow
    PROVE  IInv' /\ Simulates
  <1>1. /\ pc = "grow" /\ pc' = "store"
        /\ UNCHANGED <<exists, slots, blank, torn, dat, up, nextId, cache, order, job, todo,
                       acked, damage>>
    BY DEF Grow, lru, hist
  <1>2. /\ up /\ exists /\ pageCount = hdrCount /\ nextId \in Nat /\ nextId > 0
        /\ job.id \in Ids /\ Page \in Pages /\ Page \in Nat
        /\ job.back \in {"idle", "header", "import"}
        /\ Importing <=> job.back = "import"
    BY <1>1, InOperation
  <1>3. /\ hdrCount \in Nat /\ hdrNext \in Nat /\ PageOf(MaxId) \in Nat
        /\ \A p \in Pages : p \in Nat /\ p <= PageOf(MaxId)
        /\ \A x \in acked : x \in Nat
    BY Basics DEF IInv, TypeOK, Pages, Ids
  <1>4. /\ pageCount' = hdrCount' /\ hdrCount' \in Nat /\ hdrCount <= hdrCount' /\ Page < hdrCount'
        /\ hdrCount' \in 0..(PageOf(MaxId) + 1)
        /\ \/ hdrNext' = hdrNext /\ hdrCount' = hdrCount
           \/ hdrNext' = nextId
    <2>1. CASE Page < pageCount
      BY <1>2, <1>3, <2>1 DEF Grow, Page, IInv, TypeOK
    <2>2. CASE ~(Page < pageCount)
      <3>1. pageCount' = Page + 1 /\ hdrNext' = nextId /\ hdrCount' = Page + 1
        BY <2>2 DEF Grow, Page, WriteHeader
      <3>2. Page <= PageOf(MaxId) /\ hdrCount <= Page
        BY <1>2, <1>3, <2>2
      <3> QED
        BY <1>2, <1>3, <3>1, <3>2
    <2> QED
      BY <2>1, <2>2
  <1>5. hdrNext' \in 0..(MaxId + 1) /\ (hdrNext' = 0 => hdrCount' = 0)
    BY <1>2, <1>4 DEF IInv, TypeOK, FileInv
  <1>6. Importing' <=> Importing
    BY <1>1 DEF Importing
  <1>7. TypeOK'
    BY <1>1, <1>4, <1>5 DEF IInv, TypeOK
  <1>8. FileInv'
    <2>1. \A p \in Pages : p >= hdrCount' => p >= hdrCount
      BY <1>3, <1>4
    <2> QED
      BY <1>1, <1>2, <1>5, <2>1 DEF IInv, FileInv
  <1>9. CacheBounded' /\ OrderInv'
    BY <1>1 DEF IInv, CacheBounded, OrderInv
  <1>10. MemInv'
    <2>1. \A p \in DOMAIN cache : p \in Nat /\ p < hdrCount /\ cache[p] = slots[p]
      BY <1>1, <1>3, Basics DEF IInv, MemInv
    <2>2. \A p \in DOMAIN cache : p < hdrCount'
      BY <1>3, <1>4, <2>1
    <2> QED
      BY <1>1, <1>2, <1>4, <2>1, <2>2 DEF MemInv
  <1>11. JobInv'
    <2>1. Page' = Page
      BY <1>1 DEF Page, PageOf
    <2> QED
      BY <1>1, <1>4, <2>1 DEF IInv, JobInv
  <1>12. \A p : Body(p)' = Body(p)
    BY <1>1, BodiesSame
  <1>13. ImportInv'
    BY <1>1, <1>6, <1>12 DEF IInv, ImportInv, Imported, PageOf, Ids, LegacyNext
  <1>14. AckInv'
    BY <1>1, <1>2, <1>3, <1>4 DEF IInv, AckInv
  <1>15. IInv'
    BY <1>7, <1>8, <1>9, <1>10, <1>11, <1>13, <1>14 DEF IInv
  <1>16. Table' = Table
    BY <1>1, <1>2, <1>6, <1>12, <1>15, SameRows
  <1>17. StutterStep
    BY <1>1, <1>2, <1>6, <1>16 DEF StutterStep, Doing, NextGiven, Writing
  <1> QED
    BY <1>1, <1>15, <1>17 DEF Simulates

LEMMA ZeroPageKeeps ==
    ASSUME IInv, ZeroPage
    PROVE  IInv' /\ Simulates
  <1>1. /\ pc = "store" /\ pc' = "fill" /\ LoadPage(Page)
        /\ slots' = [slots EXCEPT ![Page] = <<>>]
        /\ blank' = blank \cup {Page} /\ torn' = torn \ {Page}
        /\ UNCHANGED <<exists, hdrNext, hdrCount, dat, up, nextId, pageCount, todo, acked, damage>>
    BY DEF ZeroPage, header, hist
  <1>2. /\ up /\ exists /\ pageCount = hdrCount /\ nextId \in Nat /\ nextId > 0
        /\ job.id \in Ids /\ Page \in Pages /\ Page \in Nat
        /\ job.back \in {"idle", "header", "import"}
        /\ Importing <=> job.back = "import"
        /\ Page < hdrCount
    BY <1>1, InOperation
  <1>3. PICK page \in Pages : page = Page
    BY <1>2
  <1>4. PICK id, row, back, old : id = job.id /\ row = job.row /\ back = job.back /\ old = Body(page)
    OBVIOUS
  <1>5. job'.id = id /\ job'.row = row /\ job'.back = back /\ job'.body = NewBody(old)
    BY <1>3, <1>4 DEF ZeroPage
  <1>6. Page' = page
    BY <1>3, <1>4, <1>5 DEF Page, PageOf
  <1>7. /\ CacheBounded' /\ OrderInv'
        /\ DOMAIN cache' \subseteq DOMAIN cache \cup {page} /\ DOMAIN cache \subseteq Pages
        /\ page \notin blank \/ page \in DOMAIN cache => page \in DOMAIN cache'
        /\ \A q \in DOMAIN cache' : cache'[q] = IF q \in DOMAIN cache THEN cache[q] ELSE slots[q]
    BY <1>1, <1>3, Basics, LoadPageKeeps DEF IInv
  <1>8. \A q \in DOMAIN cache : q < hdrCount /\ cache[q] = slots[q]
    BY <1>1 DEF IInv, MemInv
  <1>9. /\ DOMAIN slots = Pages /\ DOMAIN slots' = Pages /\ slots'[page] = <<>>
        /\ \A q \in Pages : q # page => slots'[q] = slots[q]
        /\ \A q \in Pages : q \in blank => slots[q] = <<>>
    BY <1>1, <1>3 DEF IInv, FileInv
  <1>10. \A q \in Pages : Body(q)' = Body(q)
    <2>1. ASSUME NEW q \in Pages
          PROVE  Body(q)' = Body(q)
      <3>1. CASE q = page
        BY <1>7, <1>8, <1>9, <3>1 DEF Body
      <3>2. CASE q # page
        BY <1>7, <1>8, <1>9, <3>2 DEF Body
      <3> QED
        BY <3>1, <3>2
    <2> QED
      BY <2>1
  <1>11. Importing' <=> Importing
    BY <1>1, <1>4, <1>5 DEF Importing
  <1>12. TypeOK'
    BY <1>1, <1>2, <1>7, <1>9 DEF IInv, TypeOK
  <1>13. FileInv'
    BY <1>1, <1>2, <1>3, <1>9 DEF IInv, FileInv
  <1>14. MemInv'
    BY <1>1, <1>2, <1>3, <1>6, <1>7, <1>8, <1>9 DEF IInv, MemInv
  <1>15. JobInv'
    <2>1. DOMAIN old \subseteq PageIds(page)
      BY <1>4, <1>8 DEF IInv, TypeOK, Body, PageIds
    <2>2. Body(page)' = old
      BY <1>4, <1>10
    <2>3. Body(Page)' = old
      BY <1>6, <2>2 DEF Body
    <2>4. NewBody(Body(Page))' = NewBody(old)
      BY <1>4, <1>5, <2>3 DEF NewBody
    <2>5. job.back = "header" => job.row # <<>> /\ job.id < nextId
      BY <1>1 DEF IInv, JobInv
    <2>6. PageIds(Page)' = PageIds(page)
      BY <1>6 DEF PageIds, PageOf, Ids
    <2>7. Page' \in blank' /\ Page' \notin torn'
      BY <1>1, <1>3, <1>6
    <2>8. (DOMAIN Body(Page) \subseteq PageIds(Page))' /\ (job.body = NewBody(Body(Page)))'
      BY <1>5, <2>1, <2>3, <2>4, <2>6
    <2>9. job'.id \in Ids /\ nextId' > 0 /\ job'.back \in {"idle", "header", "import"}
          /\ (job'.back = "header" => job'.row # <<>> /\ job'.id < nextId') /\ Page' < pageCount'
      BY <1>1, <1>2, <1>3, <1>4, <1>5, <1>6, <2>5
    <2> QED
      BY <1>1, <2>7, <2>8, <2>9 DEF JobInv, Ids
  <1>16. ImportInv'
    <2> SUFFICES ASSUME Importing
                 PROVE  ImportInv'
      BY <1>11 DEF ImportInv
    <2>1. \A x \in Ids : Body(PageOf(x))' = Body(PageOf(x))
      BY <1>10, PageOfType DEF PageOf
    <2>2. Imported' = Imported
      BY <1>1, <1>4, <1>5 DEF Imported
    <2>3. Imported \subseteq Ids
      BY PageAssumption DEF Imported, Ids
    <2> QED
      BY <1>1, <1>4, <1>5, <2>1, <2>2, <2>3 DEF IInv, ImportInv, PageOf, Ids, LegacyNext
  <1>17. AckInv'
    BY <1>1 DEF IInv, AckInv
  <1>18. IInv'
    BY <1>7, <1>12, <1>13, <1>14, <1>15, <1>16, <1>17 DEF IInv
  <1>19. Table' = Table
    BY <1>1, <1>2, <1>10, <1>11, <1>18, SameRows
  <1>20. StutterStep
    BY <1>1, <1>2, <1>4, <1>5, <1>11, <1>19 DEF StutterStep, Doing, NextGiven, Writing
  <1> QED
    BY <1>1, <1>18, <1>20 DEF Simulates

(* store_page puts the new body of the page into the file and the cache.   *)
LEMMA FilledPage ==
    ASSUME IInv, FillPage, NEW page, page = Page, NEW body, body = job.body
    PROVE  /\ CacheBounded' /\ OrderInv' /\ DOMAIN cache' \subseteq Pages
           /\ DOMAIN slots' = Pages /\ slots'[page] = body
           /\ \A q \in Pages : q # page => slots'[q] = slots[q]
           /\ \A q \in DOMAIN cache' : q < hdrCount /\ cache'[q] = slots'[q]
           /\ \A q \in Pages : Body(q)' = IF q = page THEN body ELSE Body(q)
  <1>1. /\ pc = "fill" /\ slots' = [slots EXCEPT ![page] = body] /\ CacheInsert(page, body)
    BY DEF FillPage
  <1>2. page \in Pages /\ page < hdrCount
    BY <1>1, InOperation
  <1>3. /\ CacheBounded' /\ OrderInv'
        /\ DOMAIN cache' \subseteq DOMAIN cache \cup {page} /\ DOMAIN cache \subseteq Pages
        /\ page \in DOMAIN cache' /\ cache'[page] = body
        /\ \A q \in DOMAIN cache' : q # page => cache'[q] = cache[q]
    BY <1>1, <1>2, Basics, CacheInsertKeeps DEF IInv
  <1>4. \A q \in DOMAIN cache : q < hdrCount /\ (q # page => cache[q] = slots[q])
    BY DEF IInv, MemInv
  <1>5. /\ DOMAIN slots' = Pages /\ slots'[page] = body
        /\ \A q \in Pages : q # page => slots'[q] = slots[q]
    BY <1>1, <1>2 DEF IInv, FileInv
  <1>6. \A q \in DOMAIN cache' : q < hdrCount /\ cache'[q] = slots'[q]
    BY <1>2, <1>3, <1>4, <1>5
  <1>7. \A q \in Pages : Body(q)' = slots'[q]
    BY <1>6 DEF Body
  <1>8. \A q \in Pages : q # page => Body(q) = slots[q]
    BY <1>4 DEF Body
  <1> QED
    BY <1>2, <1>3, <1>5, <1>6, <1>7, <1>8

LEMMA FillPageKeeps ==
    ASSUME IInv, FillPage
    PROVE  IInv' /\ Simulates
  <1>1. /\ pc = "fill" /\ pc' = job.back
        /\ blank' = blank \ {Page}
        /\ job' = IF job.back = "header" THEN job ELSE NoJob
        /\ UNCHANGED <<exists, hdrNext, hdrCount, torn, dat, up, nextId, pageCount, todo, acked, damage>>
    BY DEF FillPage, header
  <1>2. /\ up /\ exists /\ pageCount = hdrCount /\ nextId \in Nat /\ nextId > 0
        /\ job.id \in Ids /\ Page \in Pages /\ Page \in Nat
        /\ job.back \in {"idle", "header", "import"}
        /\ Importing <=> job.back = "import"
        /\ Page < hdrCount
    BY <1>1, InOperation
  <1>3. PICK page \in Pages : page = Page
    BY <1>2
  <1>4. PICK id, row, body, old : id = job.id /\ row = job.row /\ body = job.body /\ old = Body(page)
    OBVIOUS
  <1>5. /\ CacheBounded' /\ OrderInv' /\ DOMAIN cache' \subseteq Pages
        /\ DOMAIN slots' = Pages /\ slots'[page] = body
        /\ \A q \in Pages : q # page => slots'[q] = slots[q]
        /\ \A q \in DOMAIN cache' : q < hdrCount /\ cache'[q] = slots'[q]
        /\ \A q \in Pages : Body(q)' = IF q = page THEN body ELSE Body(q)
    BY <1>3, <1>4, FilledPage
  <1>6. body = NewBody(old) /\ DOMAIN old \subseteq PageIds(page) /\ id \in Ids /\ PageOf(id) = page
    BY <1>1, <1>2, <1>3, <1>4 DEF IInv, JobInv, Page
  <1>7. /\ row = <<>> => DOMAIN body = DOMAIN old \ {id}
        /\ row # <<>> => DOMAIN body = DOMAIN old \cup {id} /\ body[id] = row[1]
        /\ \A x \in DOMAIN body : x # id => x \in DOMAIN old /\ body[x] = old[x]
    BY <1>4, <1>6 DEF NewBody, Without, Restrict, Put
  <1>8. DOMAIN body \subseteq PageIds(page)
    BY <1>6, <1>7 DEF PageIds
  <1>9. TypeOK'
    <2>1. \A p \in Pages : DOMAIN slots'[p] \subseteq {x \in Ids : PageOf(x) = p}
      BY <1>3, <1>5, <1>8 DEF IInv, TypeOK, PageIds
    <2> QED
      BY <1>1, <1>2, <1>5, <2>1 DEF IInv, TypeOK, Ids, PageOf
  <1>10. FileInv'
    <2>1. \A p \in Pages : p >= hdrCount => p # page
      BY <1>2, <1>3, Basics
    <2> QED
      BY <1>1, <1>2, <1>3, <1>5, <2>1 DEF IInv, FileInv
  <1>11. MemInv'
    BY <1>1, <1>2, <1>5, Basics DEF IInv, MemInv
  <1>12. JobInv'
    <2>1. CASE job.back = "header"
      <3>1. pc' = "header" /\ job' = job /\ row # <<>> /\ job.id < nextId
        BY <1>1, <1>4, <2>1 DEF IInv, JobInv
      <3>2. Page' = page
        BY <1>3, <3>1 DEF Page, PageOf
      <3>3. Body(Page)' = body
        <4>1. Body(page)' = body
          BY <1>5
        <4> QED
          BY <3>2, <4>1 DEF Body
      <3>4. job'.id \in DOMAIN Body(Page)'
        BY <1>4, <1>7, <3>1, <3>3
      <3> QED
        BY <1>1, <1>2, <1>3, <1>4, <2>1, <3>1, <3>2, <3>4 DEF JobInv
    <2>2. CASE job.back # "header"
      BY <1>1, <1>2, <2>2 DEF JobInv, NoJob
    <2> QED
      BY <2>1, <2>2
  <1>13. ~Importing => ~Importing' /\ ~Writing' /\ Writing
    <2>1. CASE job.back = "header"
      BY <1>1, <1>2, <2>1 DEF Importing, Writing
    <2>2. CASE job.back = "idle"
      BY <1>1, <1>2, <2>2 DEF Importing, Writing, NoJob
    <2> QED
      BY <1>2, <2>1, <2>2
  <1>14. Importing => /\ Importing' /\ pc' = "import" /\ job' = NoJob /\ ~Writing /\ ~Writing'
    BY <1>1, <1>2 DEF Importing, Writing, NoJob
  <1>15. ImportInv'
    <2> SUFFICES ASSUME Importing
                 PROVE  ImportInv'
      BY <1>13 DEF ImportInv
    <2>1. id \in LegacyRows /\ id \notin todo /\ row = <<LegacyVal>>
      BY <1>2, <1>4 DEF IInv, ImportInv
    <2>2. Imported = LegacyRows \ (todo \cup {id}) /\ Imported' = LegacyRows \ (todo \cup {0})
      BY <1>1, <1>4, <1>14 DEF Imported, NoJob
    <2>3. 0 \notin LegacyRows /\ LegacyRows \subseteq Ids
      BY PageAssumption DEF Ids
    <2>4. Imported' = Imported \cup {id} /\ Imported' \subseteq Ids
      BY <2>1, <2>2, <2>3
    <2>5. /\ row # <<>> /\ row[1] = LegacyVal
      BY <2>1
    <2>6. ASSUME NEW x \in Ids
          PROVE  /\ x \in DOMAIN Body(PageOf(x))' <=> x \in Imported'
                 /\ x \in Imported' => Body(PageOf(x))'[x] = LegacyVal
      <3>1. /\ x \in DOMAIN Body(PageOf(x)) <=> x \in Imported
            /\ x \in Imported => Body(PageOf(x))[x] = LegacyVal
        BY DEF IInv, ImportInv
      <3>2. PICK q \in Pages : q = PageOf(x)
        BY PageOfType
      <3>3. Body(PageOf(x))' = IF q = page THEN body ELSE Body(q)
        <4>1. Body(q)' = IF q = page THEN body ELSE Body(q)
          BY <1>5
        <4> QED
          BY <3>2, <4>1 DEF PageOf
      <3>4. CASE x = id
        BY <1>6, <1>7, <2>4, <2>5, <3>2, <3>3, <3>4
      <3>5. CASE x # id /\ q = page
        BY <1>4, <1>7, <2>4, <2>5, <3>1, <3>2, <3>3, <3>5
      <3>6. CASE x # id /\ q # page
        BY <2>4, <3>1, <3>2, <3>3, <3>6
      <3> QED
        BY <3>4, <3>5, <3>6
    <2>7. job'.back # "import" /\ pc' # "removeDat"
      BY <1>14 DEF NoJob
    <2>8. exists' /\ up' /\ acked' = {} /\ nextId' = LegacyNext'
      BY <1>1 DEF IInv, ImportInv, LegacyNext
    <2> QED
      BY <2>4, <2>6, <2>7, <2>8 DEF ImportInv, PageOf, Ids
  <1>16. AckInv'
    BY <1>1 DEF IInv, AckInv
  <1>17. IInv'
    BY <1>5, <1>9, <1>10, <1>11, <1>12, <1>15, <1>16 DEF IInv
  <1>18. CASE Importing
    <2>1. Table' = Table
      BY <1>14, <1>18 DEF Table, LegacyTable
    <2> QED
      BY <1>1, <1>14, <1>17, <1>18, <2>1 DEF Simulates, StutterStep, Doing, NextGiven
  <1>19. CASE ~Importing
    <2>1. ASSUME NEW x \in Ids
          PROVE  /\ x = id => Body(PageOf(x)) = old /\ Body(PageOf(x))' = body
                 /\ x # id => /\ x \in DOMAIN Body(PageOf(x))' <=> x \in DOMAIN Body(PageOf(x))
                              /\ x \in DOMAIN Body(PageOf(x))' =>
                                    Body(PageOf(x))'[x] = Body(PageOf(x))[x]
      <3>2. PICK q \in Pages : q = PageOf(x)
        BY PageOfType
      <3>3. Body(PageOf(x))' = IF q = page THEN body ELSE Body(q)
        <4>1. Body(q)' = IF q = page THEN body ELSE Body(q)
          BY <1>5
        <4> QED
          BY <3>2, <4>1 DEF PageOf
      <3> QED
        BY <1>4, <1>6, <1>7, <3>2, <3>3
    <2>2. RowsAreReadable /\ RowsAreReadable'
      BY <1>17, ReadableRows, PTL
    <2>3. /\ Readable = {x \in Ids : x \in DOMAIN Body(PageOf(x))}
          /\ Readable' = {x \in Ids : x \in DOMAIN Body(PageOf(x))'}
      BY <2>2 DEF RowsAreReadable, Ids, PageOf
    <2>4. Readable' = IF row = <<>> THEN Readable \ {id} ELSE Readable \cup {id}
      BY <1>6, <1>7, <2>1, <2>3
    <2>5. /\ Table = [x \in Readable |-> Body(PageOf(x))[x]]
          /\ Table' = [x \in Readable' |-> Body(PageOf(x))'[x]]
      BY <1>1, <1>2, <1>13, <1>19 DEF Table, PageOf
    <2>6. \A x \in Readable' : x # id => x \in Readable /\ Body(PageOf(x))'[x] = Body(PageOf(x))[x]
      BY <2>1, <2>3
    <2>7. row # <<>> => Body(PageOf(id))'[id] = row[1]
      BY <1>6, <1>7, <2>1
    <2>8. Table' = IF row = <<>> THEN Without(Table, id) ELSE Put(Table, id, row[1])
      <3>1. CASE row = <<>>
        BY <2>4, <2>5, <2>6, <3>1 DEF Without, Restrict
      <3>2. CASE row # <<>>
        BY <2>4, <2>5, <2>6, <2>7, <3>2 DEF Put
      <3> QED
        BY <3>1, <3>2
    <2>9. ApplyStep
      BY <1>1, <1>4, <1>13, <1>19, <2>8 DEF ApplyStep, Doing, NextGiven
    <2> QED
      BY <1>1, <1>17, <2>9 DEF Simulates
  <1> QED
    BY <1>18, <1>19

LEMMA EndInsertKeeps ==
    ASSUME IInv, EndInsert
    PROVE  IInv' /\ Simulates
  <1>1. /\ pc = "header" /\ pc' = "idle" /\ job' = NoJob
        /\ hdrNext' = nextId /\ hdrCount' = pageCount /\ acked' = acked \cup {job.id}
        /\ UNCHANGED <<exists, slots, blank, torn, dat, up, nextId, pageCount, cache, order, todo, damage>>
    BY DEF EndInsert, WriteHeader, mem, lru
  <1>2. /\ up /\ exists /\ pageCount = hdrCount /\ nextId \in Nat /\ nextId > 0
        /\ job.id \in Ids /\ Page \in Pages
        /\ Importing <=> job.back = "import"
    BY <1>1, InOperation
  <1>3. job.back = "header" /\ job.id < nextId /\ job.id \in DOMAIN Body(Page)
    BY <1>1 DEF IInv, JobInv
  <1>4. ~Importing /\ ~Importing' /\ ~Writing /\ ~Writing'
    BY <1>1, <1>2, <1>3 DEF Importing, Writing, NoJob
  <1>5. TypeOK'
    BY <1>1, <1>2 DEF IInv, TypeOK, Ids, Pages, PageOf
  <1>6. FileInv' /\ CacheBounded' /\ OrderInv'
    BY <1>1, <1>2 DEF IInv, FileInv, CacheBounded, OrderInv
  <1>7. MemInv' /\ JobInv' /\ ImportInv'
    BY <1>1, <1>2, <1>4 DEF IInv, MemInv, JobInv, ImportInv, NoJob
  <1>8. AckInv'
    BY <1>1, <1>2, <1>3 DEF IInv, AckInv
  <1>9. IInv'
    BY <1>5, <1>6, <1>7, <1>8 DEF IInv
  <1>10. Table' = Table
    BY <1>1, <1>2, <1>4, <1>9, BodiesSame, SameRows
  <1>11. job.id \in DOMAIN Table
    BY <1>2, <1>3, <1>4, ReadableRows DEF RowsAreReadable, Table, Page
  <1>12. ReturnStep
    BY <1>1, <1>2, <1>4, <1>10, <1>11 DEF ReturnStep, Doing, NextGiven
  <1> QED
    BY <1>1, <1>9, <1>12 DEF Simulates

LEMMA FlushAllKeeps ==
    ASSUME IInv, FlushAll
    PROVE  IInv' /\ Simulates
  <1>1. /\ up /\ pc = "idle"
        /\ hdrNext' = nextId /\ hdrCount' = pageCount
        /\ UNCHANGED <<exists, slots, blank, torn, dat, up, nextId, pageCount, cache, order,
                       pc, job, todo, acked, damage>>
    BY DEF FlushAll, Ready, WriteHeader, mem, lru, hist
  <1>2. job = NoJob /\ pageCount = hdrCount /\ exists /\ (nextId = 0 => pageCount = 0)
    BY <1>1, Basics DEF IInv, JobInv, MemInv
  <1>3. ~Importing /\ ~Importing' /\ ~Writing /\ ~Writing'
    BY <1>1, <1>2 DEF Importing, Writing, NoJob
  <1>4. TypeOK'
    BY <1>1, <1>2 DEF IInv, TypeOK, Ids, Pages, PageOf
  <1>5. FileInv' /\ CacheBounded' /\ OrderInv'
    BY <1>1, <1>2 DEF IInv, FileInv, CacheBounded, OrderInv
  <1>6. MemInv' /\ JobInv' /\ ImportInv'
    BY <1>1, <1>2, <1>3 DEF IInv, MemInv, JobInv, ImportInv
  <1>7. AckInv'
    BY <1>1 DEF IInv, AckInv
  <1>8. IInv'
    BY <1>4, <1>5, <1>6, <1>7 DEF IInv
  <1>9. Table' = Table
    BY <1>1, <1>2, <1>3, <1>8, BodiesSame, SameRows
  <1>10. StutterStep
    BY <1>1, <1>3, <1>9 DEF StutterStep, Doing, NextGiven
  <1> QED
    BY <1>1, <1>8, <1>10 DEF Simulates

(* A header of zeros belongs to a table that has acknowledged nothing.     *)
LEMMA InsertAtZeroKeeps ==
    ASSUME IInv, InsertAtZero
    PROVE  IInv' /\ Simulates
  <1>1. /\ up /\ pc = "idle" /\ nextId = 0 /\ nextId' = 1
        /\ UNCHANGED <<exists, slots, blank, torn, dat, up, cache, order, pc, job, todo, acked, damage>>
    BY DEF InsertAtZero, Ready, lru, header
  <1>2. job = NoJob /\ pageCount = 0 /\ hdrCount = 0 /\ exists
    BY <1>1, Basics DEF IInv, JobInv, MemInv
  <1>3. /\ pageCount' = 0 /\ hdrCount' = 0 /\ hdrNext' \in {hdrNext, 1}
    BY <1>2 DEF InsertAtZero, header, WriteHeader
  <1>4. acked = {}
    <2>1. \A id \in acked : id \in Ids /\ id < 0
      BY <1>1 DEF IInv, TypeOK, AckInv
    <2> QED
      BY <2>1 DEF Ids
  <1>5. ~Importing /\ ~Importing' /\ ~Writing /\ ~Writing'
    BY <1>1, <1>2 DEF Importing, Writing, NoJob
  <1>6. TypeOK'
    <2>1. nextId' \in 0..(MaxId + 1) /\ hdrNext' \in 0..(MaxId + 1)
          /\ hdrCount' \in 0..(PageOf(MaxId) + 1)
      BY <1>1, <1>3, PageAssumption, Basics DEF IInv, TypeOK
    <2> QED
      BY <1>1, <1>3, <2>1 DEF IInv, TypeOK
  <1>7. FileInv' /\ CacheBounded' /\ OrderInv'
    BY <1>1, <1>2, <1>3 DEF IInv, FileInv, CacheBounded, OrderInv
  <1>8. MemInv' /\ JobInv' /\ ImportInv'
    BY <1>1, <1>2, <1>3, <1>5 DEF IInv, MemInv, JobInv, ImportInv
  <1>9. AckInv'
    BY <1>1, <1>4 DEF AckInv
  <1>10. IInv'
    BY <1>6, <1>7, <1>8, <1>9 DEF IInv
  <1>11. Table' = Table
    BY <1>1, <1>2, <1>5, <1>10, BodiesSame, SameRows
  <1>12. AbortStep
    BY <1>1, <1>5, <1>11 DEF AbortStep, Doing
  <1> QED
    BY <1>1, <1>10, <1>12 DEF Simulates

-----------------------------------------------------------------------------
(* The import.                                                             *)

LEMMA ImportRowKeeps ==
    ASSUME IInv, NEW id \in Ids, ImportRow(id)
    PROVE  IInv' /\ Simulates
  <1>1. /\ pc = "import" /\ id \in todo /\ todo' = todo \ {id} /\ pc' = "grow"
        /\ job' = [id |-> id, row |-> <<LegacyVal>>, back |-> "import"]
        /\ UNCHANGED <<exists, hdrNext, hdrCount, slots, blank, torn, dat, up, nextId, pageCount,
                       cache, order, acked, damage>>
    BY DEF ImportRow, file, header, mem, lru, hist
  <1>2. job = NoJob /\ Importing /\ Importing' /\ ~Writing /\ ~Writing'
    BY <1>1 DEF IInv, JobInv, Importing, Writing
  <1>3. exists /\ up /\ acked = {} /\ nextId = LegacyNext /\ LegacyNext \in Nat /\ LegacyNext > 0
    BY <1>2, LegacyNextFresh DEF IInv, ImportInv
  <1>4. TypeOK'
    BY <1>1 DEF IInv, TypeOK, Ids, Pages, PageOf
  <1>5. FileInv' /\ CacheBounded' /\ OrderInv'
    BY <1>1 DEF IInv, FileInv, CacheBounded, OrderInv
  <1>6. MemInv'
    BY <1>1, <1>3 DEF IInv, MemInv
  <1>7. JobInv'
    BY <1>1, <1>3 DEF JobInv, Ids
  <1>8. ImportInv'
    <2>1. id \in LegacyRows /\ LegacyRows \subseteq Ids /\ 0 \notin LegacyRows /\ todo \subseteq LegacyRows
      BY <1>1, PageAssumption DEF IInv, TypeOK, Ids
    <2>2. Imported = LegacyRows \ (todo \cup {0}) /\ Imported' = LegacyRows \ ((todo \ {id}) \cup {id})
      BY <1>1, <1>2 DEF Imported, NoJob
    <2>3. Imported' = Imported
      BY <1>1, <2>1, <2>2
    <2>4. \A p : Body(p)' = Body(p)
      BY <1>1, BodiesSame
    <2>5. job'.back = "import" /\ job'.id = id /\ job'.row = <<LegacyVal>>
      BY <1>1
    <2>6. /\ \A x \in Ids : x \in DOMAIN Body(PageOf(x)) <=> x \in Imported
          /\ \A x \in Imported : Body(PageOf(x))[x] = LegacyVal
      BY <1>2 DEF IInv, ImportInv
    <2>7. /\ \A x \in Ids : x \in DOMAIN Body(PageOf(x))' <=> x \in Imported'
          /\ \A x \in Imported' : Body(PageOf(x))'[x] = LegacyVal
      BY <2>3, <2>4, <2>6 DEF PageOf
    <2> QED
      BY <1>1, <1>3, <2>1, <2>5, <2>7 DEF ImportInv, PageOf, Ids, LegacyNext
  <1>9. AckInv'
    BY <1>1 DEF IInv, AckInv
  <1>10. IInv'
    BY <1>4, <1>5, <1>6, <1>7, <1>8, <1>9 DEF IInv
  <1>11. StutterStep
    BY <1>1, <1>2 DEF StutterStep, Doing, NextGiven, Table, LegacyTable
  <1> QED
    BY <1>1, <1>10, <1>11 DEF Simulates

LEMMA ImportEndKeeps ==
    ASSUME IInv, ImportEnd
    PROVE  IInv' /\ Simulates
  <1>1. /\ pc = "import" /\ todo = {} /\ pc' = "removeDat"
        /\ hdrNext' = nextId /\ hdrCount' = pageCount
        /\ UNCHANGED <<exists, slots, blank, torn, dat, up, nextId, pageCount, cache, order, job,
                       todo, acked, damage>>
    BY DEF ImportEnd, WriteHeader, mem, lru, hist
  <1>2. job = NoJob /\ Importing /\ Importing' /\ ~Writing /\ ~Writing'
    BY <1>1 DEF IInv, JobInv, Importing, Writing
  <1>3. exists /\ up /\ acked = {} /\ nextId = LegacyNext /\ LegacyNext \in Nat /\ LegacyNext > 0
        /\ pageCount = hdrCount
    BY <1>2, LegacyNextFresh DEF IInv, ImportInv, MemInv
  <1>4. TypeOK'
    BY <1>1 DEF IInv, TypeOK, Ids, Pages, PageOf
  <1>5. FileInv' /\ CacheBounded' /\ OrderInv'
    BY <1>1, <1>3 DEF IInv, FileInv, CacheBounded, OrderInv
  <1>6. MemInv' /\ JobInv'
    BY <1>1, <1>2, <1>3 DEF IInv, MemInv, JobInv
  <1>7. ImportInv'
    <2>1. Imported' = Imported /\ \A p : Body(p)' = Body(p)
      BY <1>1, BodiesSame DEF Imported
    <2> QED
      BY <1>1, <1>2, <2>1 DEF IInv, ImportInv, PageOf, Ids, LegacyNext
  <1>8. AckInv'
    BY <1>1, <1>3 DEF AckInv
  <1>9. IInv'
    BY <1>4, <1>5, <1>6, <1>7, <1>8 DEF IInv
  <1>10. StutterStep
    BY <1>1, <1>2, <1>3 DEF StutterStep, Doing, NextGiven, Table, LegacyTable
  <1> QED
    BY <1>1, <1>9, <1>10 DEF Simulates

(* When all rows are imported the pages have the rows of the .dat file.    *)
LEMMA ImportedTable ==
    ASSUME IInv, IInv', pc = "removeDat", exists', ~Importing',
           \A p \in Pages : Body(p)' = Body(p)
    PROVE  Table = LegacyTable /\ Table' = LegacyTable
  <1>1. Importing /\ job = NoJob
    BY DEF IInv, JobInv, Importing
  <1>2. /\ todo = {}
        /\ \A x \in Ids : x \in DOMAIN Body(PageOf(x)) <=> x \in Imported
        /\ \A x \in Imported : Body(PageOf(x))[x] = LegacyVal
    BY <1>1 DEF IInv, ImportInv
  <1>3. Imported = LegacyRows /\ LegacyRows \subseteq Ids
    <2>1. Imported = LegacyRows \ {0}
      BY <1>1, <1>2 DEF Imported, NoJob
    <2> QED
      BY <2>1, PageAssumption DEF Ids
  <1>4. \A x \in Ids : Body(PageOf(x))' = Body(PageOf(x))
    BY PageOfType DEF PageOf
  <1>5. Readable' = {x \in Ids : x \in DOMAIN Body(PageOf(x))'}
    <2>1. RowsAreReadable'
      BY ReadableRows, PTL
    <2> QED
      BY <2>1 DEF RowsAreReadable, Ids, PageOf
  <1>6. Readable' = LegacyRows
    BY <1>2, <1>3, <1>4, <1>5
  <1>7. Table' = [x \in Readable' |-> Body(PageOf(x))'[x]]
    BY DEF Table, PageOf
  <1>8. \A x \in LegacyRows : Body(PageOf(x))'[x] = LegacyVal
    BY <1>2, <1>3, <1>4
  <1> QED
    BY <1>1, <1>6, <1>7, <1>8 DEF Table, LegacyTable

LEMMA RemoveDatKeeps ==
    ASSUME IInv, RemoveDat
    PROVE  IInv' /\ Simulates
  <1>1. /\ pc = "removeDat" /\ pc' = "idle" /\ dat' = FALSE /\ acked' = acked \cup LegacyRows
        /\ UNCHANGED <<exists, hdrNext, hdrCount, slots, blank, torn, up, nextId, pageCount, cache,
                       order, job, todo, damage>>
    BY DEF RemoveDat, header, mem, lru
  <1>2. job = NoJob /\ Importing /\ ~Importing' /\ ~Writing /\ ~Writing'
    BY <1>1 DEF IInv, JobInv, Importing, Writing, NoJob
  <1>3. exists /\ up /\ acked = {} /\ nextId = LegacyNext /\ hdrNext = nextId
    BY <1>1, <1>2 DEF IInv, ImportInv
  <1>4. LegacyRows \subseteq Ids
    BY PageAssumption DEF Ids
  <1>5. TypeOK'
    BY <1>1, <1>4 DEF IInv, TypeOK, Ids, Pages, PageOf
  <1>6. FileInv' /\ CacheBounded' /\ OrderInv'
    BY <1>1, <1>3 DEF IInv, FileInv, CacheBounded, OrderInv
  <1>7. MemInv' /\ JobInv' /\ ImportInv'
    BY <1>1, <1>2 DEF IInv, MemInv, JobInv, ImportInv
  <1>8. AckInv'
    BY <1>1, <1>3, LegacyNextFresh DEF AckInv
  <1>9. IInv'
    BY <1>5, <1>6, <1>7, <1>8 DEF IInv
  <1>10. Table = LegacyTable /\ Table' = LegacyTable
    BY <1>1, <1>2, <1>3, <1>9, BodiesSame, ImportedTable
  <1>11. ReturnStep
    BY <1>1, <1>2, <1>3, <1>4, <1>10 DEF ReturnStep, Doing, NextGiven, LegacyTable
  <1> QED
    BY <1>1, <1>9, <1>11 DEF Simulates

-----------------------------------------------------------------------------
(* Open, errors and kills.                                                 *)

LEMMA EmptyCache ==
    ASSUME cache' = <<>>, order' = <<>>
    PROVE  CacheBounded' /\ OrderInv' /\ DOMAIN cache' = {}
  <1>1. DOMAIN cache' = {} /\ Len(order') = 0 /\ Range(order') = {}
    BY DEF Range
  <1>2. Cardinality({}) = 0
    BY FS_EmptySet
  <1>3. MaxPages \in Nat
    BY PageAssumption
  <1> QED
    BY <1>1, <1>2, <1>3 DEF CacheBounded, OrderInv

LEMMA OpenKeeps ==
    ASSUME IInv, Open
    PROVE  IInv' /\ Simulates
  <1>1. /\ ~up /\ up' /\ cache' = <<>> /\ order' = <<>>
        /\ UNCHANGED <<slots, blank, torn, dat, job, acked, damage>>
    BY DEF Open, hist
  <1>2. pc = "idle" /\ job = NoJob /\ cache = <<>> /\ ~Importing /\ ~Writing
    BY <1>1 DEF IInv, MemInv, JobInv, Importing, Writing, NoJob
  <1>3. CacheBounded' /\ OrderInv' /\ DOMAIN cache' = {}
    BY <1>1, EmptyCache
  <1>4. /\ hdrNext \in 0..(MaxId + 1) /\ hdrCount \in 0..(PageOf(MaxId) + 1)
        /\ PageOf(MaxId) \in Nat /\ MaxId \in Nat
    BY Basics DEF IInv, TypeOK
  <1>5. CASE exists
    <2>1. nextId' = hdrNext /\ pageCount' = hdrCount /\ UNCHANGED <<exists, hdrNext, hdrCount, pc, todo>>
      BY <1>5 DEF Open, header
    <2>2. ~Importing' /\ ~Writing'
      BY <1>1, <1>2, <2>1 DEF Importing, Writing, NoJob
    <2>3. TypeOK'
      BY <1>1, <1>3, <1>4, <2>1 DEF IInv, TypeOK
    <2>4. FileInv'
      BY <1>1, <1>5, <2>1 DEF IInv, FileInv
    <2>5. MemInv'
      BY <1>1, <1>3, <2>1 DEF IInv, FileInv, MemInv
    <2>6. JobInv' /\ ImportInv'
      BY <1>1, <1>2, <2>1, <2>2 DEF JobInv, ImportInv
    <2>7. AckInv'
      BY <1>1, <2>1 DEF IInv, AckInv
    <2>8. IInv'
      BY <1>3, <2>3, <2>4, <2>5, <2>6, <2>7 DEF IInv
    <2>9. Table' = Table
      BY <1>1, <1>2, <1>5, <2>1, <2>2, <2>8, BodiesSame, SameRows
    <2>10. StutterStep
      BY <1>1, <1>2, <2>1, <2>2, <2>9 DEF StutterStep, Doing, NextGiven
    <2> QED
      BY <1>1, <2>8, <2>10 DEF Simulates
  <1>6. CASE ~exists
    <2>1. /\ exists' /\ hdrNext' = 0 /\ hdrCount' = 0 /\ pageCount' = 0
          /\ IF dat THEN nextId' = LegacyNext /\ pc' = "import" /\ todo' = LegacyRows
                    ELSE nextId' = 1 /\ pc' = pc /\ todo' = todo
      BY <1>6 DEF Open, WriteHeader
    <2>2. /\ hdrNext = 0 /\ hdrCount = 0 /\ blank = Pages /\ acked = {} /\ damage = {}
          /\ dat <=> LegacyRows # {}
      BY <1>6 DEF IInv, FileInv
    <2>3. \A p \in Pages : Body(p)' = <<>>
      BY <1>1, <1>3, <2>2 DEF IInv, FileInv, Body
    <2>4. nextId' \in 1..(MaxId + 1) /\ todo' \subseteq LegacyRows /\ pc' \in {"idle", "import"}
      <3>1. 1 \in 1..(MaxId + 1) /\ LegacyNext \in 1..(MaxId + 1) /\ todo \subseteq LegacyRows
        BY <1>4, LegacyNextFresh DEF IInv, TypeOK
      <3> QED
        BY <1>2, <2>1, <3>1
    <2>5. TypeOK'
      <3>1. 0 \in 0..(MaxId + 1) /\ 0 \in 0..(PageOf(MaxId) + 1) /\ nextId' \in 0..(MaxId + 1)
        BY <1>4, <2>4
      <3> QED
        BY <1>1, <1>3, <2>1, <2>4, <3>1 DEF IInv, TypeOK
    <2>6. FileInv'
      BY <1>1, <2>1, <2>2 DEF IInv, FileInv
    <2>7. MemInv' /\ JobInv' /\ AckInv'
      BY <1>1, <1>2, <1>3, <2>1, <2>2, <2>4 DEF MemInv, JobInv, AckInv
    <2>8. Importing' <=> dat
      BY <1>1, <1>2, <2>1 DEF Importing, NoJob
    <2>9. ~Writing'
      BY <2>4 DEF Writing
    <2>10. ImportInv'
      <3> SUFFICES ASSUME dat
                   PROVE  ImportInv'
        BY <2>8 DEF ImportInv
      <3>1. Imported' = {}
        BY <2>1 DEF Imported
      <3>2. \A x \in Ids : x \notin DOMAIN Body(PageOf(x))'
        <4>1. \A x \in Ids : Body(PageOf(x))' = <<>>
          BY <2>3, PageOfType DEF PageOf
        <4> QED
          BY <4>1
      <3>3. job'.back # "import" /\ pc' # "removeDat"
        BY <1>1, <1>2, <2>1 DEF NoJob
      <3> QED
        BY <1>1, <2>1, <2>2, <3>1, <3>2, <3>3 DEF ImportInv, PageOf, Ids, LegacyNext
    <2>11. IInv'
      BY <1>3, <2>5, <2>6, <2>7, <2>10 DEF IInv
    <2>12. Table' = LegacyTable
      <3>1. CASE dat
        BY <2>8, <3>1 DEF Table, LegacyTable
      <3>2. CASE ~dat
        <4>1. RowsAreReadable'
          BY <2>11, ReadableRows, PTL
        <4>2. Readable' = {x \in Ids : x \in DOMAIN Body(PageOf(x))'}
          BY <4>1 DEF RowsAreReadable, Ids, PageOf
        <4>3. \A x \in Ids : Body(PageOf(x))' = <<>>
          BY <2>3, PageOfType DEF PageOf
        <4>4. Readable' = {} /\ LegacyRows = {}
          BY <2>2, <3>2, <4>2, <4>3
        <4>5. Table' = [x \in Readable' |-> Body(PageOf(x))'[x]]
          BY <2>1, <2>8, <3>2 DEF Table, PageOf
        <4> QED
          BY <4>4, <4>5 DEF LegacyTable
      <3> QED
        BY <3>1, <3>2
    <2>13. AbortStep
      BY <1>1, <1>6, <2>9, <2>12 DEF AbortStep, Doing, Table
    <2> QED
      BY <1>1, <2>11, <2>13 DEF Simulates
  <1> QED
    BY <1>5, <1>6

(* The process goes down.  What it had told is in the file, unless it was  *)
(* writing a page or importing.                                            *)
LEMMA DownKeeps ==
    ASSUME IInv, up, NEW lost \in SUBSET {"tornPage"}, Down(lost),
           pc = "fill" /\ ~Importing => lost # {},
           UNCHANGED <<exists, hdrNext, hdrCount, slots, dat, acked>>,
           blank' \subseteq blank, torn' \subseteq Pages,
           \A p \in Pages : p >= hdrCount => p \in blank',
           torn' # {} => torn # {} \/ lost # {}
    PROVE  IInv' /\ Simulates
  <1>1. /\ up' = FALSE /\ nextId' = 0 /\ pageCount' = 0 /\ cache' = <<>> /\ order' = <<>>
        /\ pc' = "idle" /\ job' = NoJob /\ todo' = {}
        /\ damage' = damage \cup lost \cup (IF Importing /\ pc # "removeDat" THEN {"tornImport"} ELSE {})
    BY DEF Down
  <1>2. exists /\ exists'
    BY Basics
  <1>3. CacheBounded' /\ OrderInv' /\ DOMAIN cache' = {}
    BY <1>1, EmptyCache
  <1>4. ~Importing' /\ ~Writing'
    BY <1>1 DEF Importing, Writing, NoJob
  <1>5. TypeOK'
    <2>1. damage' \subseteq {"tornPage", "tornImport"}
      BY <1>1 DEF IInv, TypeOK
    <2>2. 0 \in 0..(MaxId + 1) /\ 0 \in 0..(PageOf(MaxId) + 1)
      BY Basics
    <2> QED
      BY <1>1, <1>3, <2>1, <2>2 DEF IInv, TypeOK, Ids, Pages, PageOf
  <1>6. FileInv'
    BY <1>1, <1>2 DEF IInv, FileInv
  <1>7. MemInv' /\ JobInv' /\ ImportInv' /\ AckInv'
    BY <1>1, <1>3, <1>4 DEF IInv, MemInv, JobInv, ImportInv, AckInv
  <1>8. IInv'
    BY <1>3, <1>5, <1>6, <1>7 DEF IInv
  <1>9. ASSUME damage' = {}
        PROVE  AbortStep
    <2>1. pc # "fill" /\ (Importing => pc = "removeDat")
      BY <1>1, <1>9
    <2>2. \A p \in Pages : Body(p)' = Body(p)
      <3>1. \A p \in DOMAIN cache : cache[p] = slots[p]
        BY <2>1 DEF IInv, MemInv
      <3> QED
        BY <1>3, <3>1 DEF Body
    <2>3. Table' = Table
      <3>1. CASE Importing
        BY <1>2, <1>4, <1>8, <2>1, <2>2, <3>1, ImportedTable
      <3>2. CASE ~Importing
        BY <1>2, <1>4, <1>8, <2>2, <3>2, SameRows
      <3> QED
        BY <3>1, <3>2
    <2> QED
      BY <1>4, <2>3 DEF AbortStep, Doing
  <1> QED
    BY <1>1, <1>8, <1>9 DEF Simulates

(* An operation ends with an error before it has changed the page.         *)
LEMMA AbandonKeeps ==
    ASSUME IInv, pc \in {"grow", "store"}, Abandon,
           ~Importing => UNCHANGED lru \/ (pc = "store" /\ LoadPage(Page))
    PROVE  IInv' /\ Simulates
  <1>1. UNCHANGED <<exists, hdrNext, hdrCount, slots, blank, torn, dat, acked>>
    BY DEF Abandon, file, header
  <1>2. /\ up /\ exists /\ pageCount = hdrCount /\ nextId > 0
        /\ Page \in Pages /\ (pc = "store" => Page < hdrCount)
    BY InOperation
  <1>3. CASE Importing
    <2>1. Down({})
      BY <1>3 DEF Abandon
    <2>2. torn \subseteq Pages /\ \A p \in Pages : p >= hdrCount => p \in blank
      BY DEF IInv, TypeOK, FileInv
    <2> QED
      BY <1>1, <1>2, <1>3, <2>1, <2>2, DownKeeps
  <1>4. CASE ~Importing
    <2>1. pc' = "idle" /\ job' = NoJob /\ UNCHANGED <<up, nextId, pageCount, todo, damage>>
      BY <1>4 DEF Abandon
    <2>2. /\ CacheBounded' /\ OrderInv' /\ DOMAIN cache' \subseteq Pages
          /\ \A q \in DOMAIN cache' : q < hdrCount /\ cache'[q] = slots[q]
          /\ \A q \in Pages : Body(q)' = Body(q)
      <3>1. CASE UNCHANGED lru
        <4>1. UNCHANGED <<cache, order>> /\ DOMAIN cache \subseteq Pages
          BY <3>1, Basics DEF lru
        <4>2. \A q \in DOMAIN cache : q < hdrCount /\ cache[q] = slots[q]
          BY DEF IInv, MemInv
        <4> QED
          BY <1>1, <4>1, <4>2, BodiesSame DEF IInv, CacheBounded, OrderInv
      <3>2. CASE pc = "store" /\ LoadPage(Page)
        <4>1. PICK p \in Pages : p = Page
          BY <1>2
        <4> QED
          BY <1>1, <1>2, <3>2, <4>1, LoadingShowsNothing
      <3> QED
        BY <1>4, <3>1, <3>2
    <2>3. ~Importing' /\ ~Writing'
      BY <2>1 DEF Importing, Writing, NoJob
    <2>4. TypeOK'
      BY <1>1, <2>1, <2>2 DEF IInv, TypeOK, Ids, Pages, PageOf
    <2>5. FileInv' /\ AckInv'
      BY <1>1, <2>1 DEF IInv, FileInv, AckInv
    <2>6. MemInv' /\ JobInv' /\ ImportInv'
      BY <1>1, <1>2, <2>1, <2>2, <2>3 DEF IInv, MemInv, JobInv, ImportInv
    <2>7. IInv'
      BY <2>2, <2>4, <2>5, <2>6 DEF IInv
    <2>8. Table' = Table
      BY <1>1, <1>2, <1>4, <2>2, <2>3, <2>7, SameRows
    <2>9. AbortStep
      BY <1>1, <2>3, <2>8 DEF AbortStep, Doing
    <2> QED
      BY <2>1, <2>7, <2>9 DEF Simulates
  <1> QED
    BY <1>3, <1>4

LEMMA KillKeeps ==
    ASSUME IInv, Kill
    PROVE  IInv' /\ Simulates
  <1>1. up /\ UNCHANGED <<exists, hdrNext, hdrCount, slots, dat, acked>>
    BY DEF Kill, header
  <1>2. PICK lost \in SUBSET {"tornPage"} : lost = IF pc = "fill" THEN {"tornPage"} ELSE {}
    OBVIOUS
  <1>3. Down(lost)
    BY <1>2 DEF Kill
  <1>4. torn \subseteq Pages /\ \A p \in Pages : p >= hdrCount => p \in blank
    BY DEF IInv, TypeOK, FileInv
  <1>5. CASE UNCHANGED <<torn, blank>>
    BY <1>1, <1>2, <1>3, <1>4, <1>5, DownKeeps
  <1>6. CASE pc = "fill" /\ torn' = torn \cup {Page} /\ blank' = blank \ {Page}
    <2>1. Page \in Pages /\ Page \in Nat /\ Page < hdrCount /\ hdrCount \in Nat
      BY <1>6, InOperation, Basics
    <2>2. \A p \in Pages : p >= hdrCount => p # Page
      BY <2>1, Basics
    <2> QED
      BY <1>1, <1>2, <1>3, <1>4, <1>6, <2>1, <2>2, DownKeeps
  <1> QED
    BY <1>5, <1>6 DEF Kill

-----------------------------------------------------------------------------
LEMMA InitHolds ==
    Init => IInv /\ Table = LegacyTable /\ Doing = <<>> /\ NextGiven \in Nat
  <1> SUFFICES ASSUME Init
               PROVE  IInv /\ Table = LegacyTable /\ Doing = <<>> /\ NextGiven \in Nat
    OBVIOUS
  <1>1. /\ exists = FALSE /\ hdrNext = 0 /\ hdrCount = 0
        /\ slots = [p \in Pages |-> <<>>] /\ blank = Pages /\ torn = {}
        /\ dat = (LegacyRows # {})
        /\ up = FALSE /\ nextId = 0 /\ pageCount = 0 /\ cache = <<>> /\ order = <<>>
        /\ pc = "idle" /\ job = NoJob /\ todo = {}
        /\ acked = {} /\ damage = {}
    BY DEF Init
  <1>2. DOMAIN cache = {} /\ Len(order) = 0 /\ Range(order) = {} /\ Cardinality({}) = 0
    BY <1>1, FS_EmptySet DEF Range
  <1>3. 0 \in 0..(MaxId + 1) /\ 0 \in 0..(PageOf(MaxId) + 1) /\ MaxPages \in Nat
    BY PageOfType, PageAssumption DEF Ids
  <1>4. ~Importing /\ ~Writing
    BY <1>1 DEF Importing, Writing, NoJob
  <1>5. TypeOK
    BY <1>1, <1>2, <1>3 DEF TypeOK
  <1>6. CacheBounded /\ OrderInv
    BY <1>1, <1>2, <1>3 DEF CacheBounded, OrderInv
  <1>7. FileInv /\ MemInv /\ JobInv /\ ImportInv /\ AckInv
    BY <1>1, <1>2, <1>4 DEF FileInv, MemInv, JobInv, ImportInv, AckInv
  <1> QED
    BY <1>1, <1>4, <1>5, <1>6, <1>7 DEF IInv, Table, Doing, NextGiven

LEMMA StepKeeps ==
    ASSUME IInv, Next
    PROVE  IInv' /\ Simulates
  <1>1. CASE Open
    BY <1>1, OpenKeeps
  <1>2. ASSUME NEW v \in Vals, Insert(v)
        PROVE  IInv' /\ Simulates
    BY <1>2, OperationsBegin
  <1>3. ASSUME NEW id \in Ids, ImportRow(id)
        PROVE  IInv' /\ Simulates
    BY <1>3, ImportRowKeeps
  <1>4. ASSUME NEW id \in Ids, Get(id)
        PROVE  IInv' /\ Simulates
    BY <1>4, LoadKeeps DEF Get
  <1>5. ASSUME NEW id \in Ids, Change(id, <<>>)
        PROVE  IInv' /\ Simulates
    BY <1>5, ChangeKeeps
  <1>6. ASSUME NEW id \in Ids, NEW v \in Vals, ApplyInsert(id, v)
        PROVE  IInv' /\ Simulates
    BY <1>6, OperationsBegin
  <1>7. ASSUME NEW id \in Ids, NEW v \in Vals, Change(id, <<v>>)
        PROVE  IInv' /\ Simulates
    <2>1. PICK row : row = <<v>>
      OBVIOUS
    <2> QED
      BY <1>7, <2>1, ChangeKeeps
  <1>8. CASE InsertAtZero
    BY <1>8, InsertAtZeroKeeps
  <1>9. CASE ImportEnd
    BY <1>9, ImportEndKeeps
  <1>10. CASE RemoveDat
    BY <1>10, RemoveDatKeeps
  <1>11. CASE Grow
    BY <1>11, GrowKeeps
  <1>12. CASE ZeroPage
    BY <1>12, ZeroPageKeeps
  <1>13. CASE FillPage
    BY <1>13, FillPageKeeps
  <1>14. CASE EndInsert
    BY <1>14, EndInsertKeeps
  <1>15. CASE FlushAll
    BY <1>15, FlushAllKeeps
  <1>16. CASE LoadFails
    BY <1>16, AbandonKeeps DEF LoadFails
  <1>17. CASE PageOverflow
    BY <1>17, AbandonKeeps DEF PageOverflow
  <1>18. CASE Kill
    BY <1>18, KillKeeps
  <1>19. CASE GrowFails
    BY <1>19, AbandonKeeps DEF GrowFails
  <1> QED
    BY <1>1, <1>2, <1>3, <1>4, <1>5, <1>6, <1>7, <1>8, <1>9, <1>10, <1>11, <1>12, <1>13, <1>14,
       <1>15, <1>16, <1>17, <1>18, <1>19 DEF Next

LEMMA StutterKeeps ==
    ASSUME IInv, UNCHANGED vars
    PROVE  IInv' /\ UNCHANGED Promise!vars
  <1>1. UNCHANGED <<exists, hdrNext, hdrCount, slots, blank, torn, dat, up, nextId, pageCount, cache,
                    order, pc, job, todo, acked, damage>>
    BY DEF vars, file, header, mem, lru, hist
  <1>2. TypeOK' /\ CacheBounded' /\ FileInv' /\ OrderInv' /\ AckInv'
    BY <1>1 DEF IInv, TypeOK, CacheBounded, FileInv, OrderInv, AckInv, Ids, Pages, PageOf
  <1>3. MemInv' /\ JobInv'
    BY <1>1 DEF IInv, MemInv, JobInv, Page, PageOf, PageIds, Ids, Body, NewBody, Put, Without, Restrict
  <1>4. ImportInv'
    BY <1>1 DEF IInv, ImportInv, Importing, Imported, Body, PageOf, Ids, LegacyNext
  <1>5. UNCHANGED Promise!vars
    BY <1>1 DEF Promise!vars, Table, LegacyTable, Importing, Readable, Count, Body, PageOf, Ids, Writing
  <1> QED
    BY <1>2, <1>3, <1>4, <1>5 DEF IInv

(* A step of the file is a step of the table, or none.                     *)
LEMMA StepImplements ==
    ASSUME IInv', Simulates
    PROVE  [Promise!Next]_(Promise!vars)
  <1>1. Promise!Fresh'
    BY DEF IInv, AckInv, Promise!Fresh
  <1>2. CASE damage' # {}
    <2>1. Promise!Lose
      BY <1>2 DEF Promise!Lose
    <2> QED
      BY <1>1, <2>1 DEF Promise!Next
  <1>3. CASE damage' = {}
    <2>1. damage' = damage
      BY <1>3 DEF Simulates
    <2>2. CASE StutterStep
      BY <2>1, <2>2 DEF StutterStep, Doing, NextGiven, Promise!vars
    <2>3. CASE AbortStep
      <3>1. Promise!Abort
        BY <2>1, <2>3 DEF AbortStep, Doing, Promise!Abort
      <3> QED
        BY <1>1, <3>1 DEF Promise!Next
    <2>4. CASE BeginStep
      <3>1. PICK id \in Ids, v \in Vals : Doing' \in {<<id, <<v>> >>, <<id, <<>> >>}
        BY <2>4 DEF BeginStep
      <3>2. Promise!Begin(id, <<v>>) \/ Promise!Begin(id, <<>>)
        BY <2>1, <2>4, <3>1 DEF BeginStep, Doing, Promise!Begin
      <3> QED
        BY <1>1, <3>2 DEF Promise!Next
    <2>5. CASE ApplyStep
      <3>1. Promise!Apply
        BY <2>1, <2>5 DEF ApplyStep, Doing, NextGiven, Without, Put, Restrict, Promise!Apply, Promise!Restrict
      <3> QED
        BY <1>1, <3>1 DEF Promise!Next
    <2>6. CASE ReturnStep
      <3>1. PICK ids \in SUBSET Ids : ids \subseteq DOMAIN Table /\ acked' = acked \cup ids
        BY <2>6 DEF ReturnStep
      <3>2. Promise!Return(ids)
        BY <2>1, <2>6, <3>1 DEF ReturnStep, Doing, NextGiven, Promise!Return
      <3> QED
        BY <1>1, <3>2 DEF Promise!Next
    <2> QED
      BY <1>3, <2>2, <2>3, <2>4, <2>5, <2>6 DEF Simulates
  <1> QED
    BY <1>2, <1>3

LEMMA Invariant ==
    Spec => []IInv
  <1>1. Init => IInv
    BY InitHolds
  <1>2. IInv /\ [Next]_vars => IInv'
    BY StepKeeps, StutterKeeps
  <1> QED
    BY <1>1, <1>2, PTL DEF Spec

(* Every variable has its type, after any growth, import, error and kill.  *)
THEOREM TypeCorrect == Spec => []TypeOK
  <1>1. IInv => TypeOK
    BY DEF IInv
  <1> QED
    BY <1>1, Invariant, PTL

(* LruCache never has more than max_pages pages, and its order lists them, *)
(* each once, whatever pages are loaded, stored and evicted.               *)
THEOREM CacheStaysBounded == Spec => []CacheBounded
  <1>1. IInv => CacheBounded
    BY DEF IInv
  <1> QED
    BY <1>1, Invariant, PTL

(* The paged file behind its cache implements the map of RowMap: each step *)
(* of it, a kill included, shows a step of the map, or nothing.            *)
THEOREM Implements == Spec => ImplementsRowMap
  <1>1. Init => Promise!Init
    BY InitHolds DEF Init, Promise!Init, Doing, NextGiven
  <1>2. IInv /\ [Next]_vars => [Promise!Next]_(Promise!vars)
    BY StepKeeps, StutterKeeps, StepImplements
  <1> QED
    BY <1>1, <1>2, Invariant, PTL DEF Spec, ImplementsRowMap, Promise!Spec

=============================================================================
