------------------------------- MODULE Queries -------------------------------
(***************************************************************************)
(* What the statements say about values: literals (types.rs), expressions  *)
(* and WHERE (parser.rs), the choice of an index (planner.rs), the keys of *)
(* an index (index.rs), and ORDER BY, LIMIT and GROUP BY (query_util.rs,   *)
(* executor.rs finalize_select), over one table of one column.  Statements *)
(* follow one another here; how sessions interleave, and what a failing    *)
(* statement leaves behind, are the subject of IndexedTable and Engine.    *)
(*                                                                         *)
(* A number keeps its width.  A text is its place in the byte order of     *)
(* texts, so that texts compare as numbers do.  A decimal is a number of   *)
(* steps of half an f64::EPSILON.  The doubles are all of them as far as   *)
(* Fine and every Coarse-th beyond, as they thin out with their size:      *)
(* literals and arithmetic are rounded to them, and neighbours below Fine  *)
(* are equal to values_equal and differ in their bits; -0.0 is left out.   *)
(* SELECT changes nothing, so its answer is an operator of the table.      *)
(***************************************************************************)
EXTENDS Integers, Sequences, FiniteSets, SequencesExt, FiniteSetsExt, Functions

CONSTANTS
    Int4Max, Int8Max,   \* i32::MAX and i64::MAX
    Unit,               \* the steps between two integers as doubles
    Fine, Coarse,       \* the doubles: see Round
    Numeral(_, _),      \* type, payload -> the text that displays the number
    NullText,           \* the text NULL
    BoolText(_),        \* the texts false and true
    Columns,            \* the columns to try: [type, nullable]
    Literals,           \* literals of the statements
    Operands,           \* numbers in an UPDATE and in the WHERE of a write
    MaxRows,            \* bound on row ids
    MaxStmts            \* bound on statements

ColumnTypes == {"INT4", "INT8", "FLOAT8", "TEXT", "VARCHAR", "BOOL", "JSON"}

ASSUME WidthAssumption ==
    /\ Int4Max \in Nat /\ Int8Max \in Nat /\ Int4Max < Int8Max /\ Unit \in Nat \ {0}
    /\ Fine \in Nat /\ Coarse \in Nat \ {0}

(* A literal has no sign.                                                  *)
ASSUME StatementAssumption ==
    /\ Columns \subseteq [type : ColumnTypes, nullable : BOOLEAN]
    /\ Literals \subseteq [kind : {"int", "dec", "text"}, v : Nat]
                          \cup [kind : {"bool"}, v : {0, 1}] \cup [kind : {"null"}, v : {0}]
    /\ Operands \subseteq [kind : {"int", "dec"}, v : Nat]
    /\ MaxRows \in Nat /\ MaxStmts \in Nat

(* Integers of one type that differ display differently, and so do the     *)
(* truth values.                                                           *)
ASSUME DisplayAssumption ==
    /\ \A m, n \in -(Int8Max + 1)..Int8Max : \A type \in {"INT4", "INT8"} :
          Numeral(type, m) = Numeral(type, n) => m = n
    /\ BoolText(TRUE) # BoolText(FALSE)

VARIABLES
    col,     \* the column: its data_type and nullable
    rows,    \* the table: row id -> Value
    next,    \* its next_id
    index,   \* whether the column has an index
    tree,    \* BTreeIndex.tree: key -> the row ids in order of insertion
    meant,   \* row id -> what its statements say it holds (history)
    lost,    \* rows that hold something else, for a reason named here (history)
    stmts

table == <<rows, next>>
queryVars == <<col, table, index, tree, meant, lost, stmts>>

-----------------------------------------------------------------------------
(* Values and literals.  The payload v is an integer whatever the type.    *)

Value(type, v) == [type |-> type, v |-> v]
Null == Value("NULL", 0)
Bool(b) == Value("BOOL", IF b THEN 1 ELSE 0)
IsNull(x) == x.type = "NULL"
IsTrue(x) == x = Bool(TRUE)

(* Two's complement of the width that has max as its largest number.       *)
Fits(n, max) == n \in -(max + 1)..max
Wrap(n, max) == ((n + max + 1) % (2 * (max + 1))) - (max + 1)

(* The double nearest to a number.                                         *)
RoundUp(n) == IF n <= Fine THEN n ELSE Coarse * ((n + (Coarse \div 2)) \div Coarse)
Round(n) == IF n < 0 THEN -RoundUp(-n) ELSE RoundUp(n)

(* from_sql_literal.  A literal has no sign; one too large for i64 is 0.   *)
FromSqlLiteral(l) ==
    CASE l.kind = "int"  -> Value("INT8", IF Fits(l.v, Int8Max) THEN l.v ELSE 0)
      [] l.kind = "dec"  -> Value("FLOAT8", Round(l.v))
      [] l.kind = "text" -> Value("TEXT", l.v)
      [] l.kind = "bool" -> Value("BOOL", l.v)
      [] l.kind = "null" -> Null

Integer(x) == x.type \in {"INT4", "INT8"}

(* coerce_to, with the pair <<FALSE, x>> for a type mismatch.  `as i32`    *)
(* keeps the low bits; VARCHAR takes any value as it is.                   *)
CoerceKeepsWide(x, type) ==
    IF IsNull(x) \/ x.type = type \/ type = "VARCHAR" THEN <<TRUE, x>>
    ELSE CASE x.type = "INT8" /\ type = "INT4"  -> <<TRUE, x>>
           [] Integer(x) /\ type = "FLOAT8"     -> <<TRUE, Value("FLOAT8", Round(Unit * x.v))>>
           [] OTHER                             -> <<FALSE, x>>

CoerceTo(x, type) ==
    IF IsNull(x) \/ x.type = type \/ type = "VARCHAR" THEN <<TRUE, x>>
    ELSE CASE x.type = "INT8" /\ type = "INT4"  -> <<TRUE, Value("INT4", Wrap(x.v, Int4Max))>>
           [] x.type = "INT4" /\ type = "INT8"  -> <<TRUE, Value("INT8", x.v)>>
           [] Integer(x) /\ type = "FLOAT8"     -> <<TRUE, Value("FLOAT8", Round(Unit * x.v))>>
           [] OTHER                             -> <<FALSE, x>>

(* to_display_string: a double without a fraction shows like an integer.   *)
Display(x) ==
    CASE IsNull(x)        -> NullText
      [] x.type = "TEXT"  -> x.v
      [] x.type = "BOOL"  -> BoolText(x.v = 1)
      [] OTHER            -> Numeral(x.type, x.v)

-----------------------------------------------------------------------------
(* Expressions.                                                            *)

Near(x, y) == x - y \in {-1, 0, 1}

(* values_equal: integers of either width, otherwise values of one type.   *)
ValuesEqualTyped(a, b) ==
    a.type = b.type /\ (IF a.type = "FLOAT8" THEN Near(a.v, b.v) ELSE a.v = b.v)

ValuesEqual(a, b) ==
    \/ Integer(a) /\ Integer(b) /\ a.v = b.v
    \/ a.type = b.type /\ a.type \in {"TEXT", "BOOL", "NULL"} /\ a.v = b.v
    \/ a.type = b.type /\ a.type = "FLOAT8" /\ Near(a.v, b.v)

(* eval_binary.  A comparison with NULL is false, not NULL; <, <=, > and   *)
(* >= are false of anything but integers; arithmetic knows these operands  *)
(* and gives NULL for others.  The release build wraps, and doubles are    *)
(* rounded.  || of texts is left out.                                      *)
Arithmetic ==
    {<<"INT4", "+", "INT4">>, <<"INT8", "+", "INT8">>, <<"INT4", "-", "INT8">>,
     <<"INT8", "*", "INT8">>, <<"FLOAT8", "+", "FLOAT8">>, <<"FLOAT8", "-", "FLOAT8">>}

Rounded(type, n) ==
    CASE type = "INT4" -> Wrap(n, Int4Max)
      [] type = "INT8" -> Wrap(n, Int8Max)
      [] type = "FLOAT8" -> Round(n)

Calculate(a, op, b) ==
    CASE op = "+" -> a + b
      [] op = "-" -> a - b
      [] op = "*" -> a * b

EvalBinary(l, op, r) ==
    LET ints  == Integer(l) /\ Integer(r)
        bools == l.type = "BOOL" /\ r.type = "BOOL"
    IN  CASE op = "="   -> Bool(~IsNull(l) /\ ~IsNull(r) /\ ValuesEqual(l, r))
          [] op = "<>"  -> Bool(~IsNull(l) /\ ~IsNull(r) /\ ~ValuesEqual(l, r))
          [] op = "<"   -> Bool(ints /\ l.v < r.v)
          [] op = "<="  -> Bool(ints /\ l.v <= r.v)
          [] op = ">"   -> Bool(ints /\ l.v > r.v)
          [] op = ">="  -> Bool(ints /\ l.v >= r.v)
          [] op = "AND" -> IF bools THEN Bool(IsTrue(l) /\ IsTrue(r)) ELSE Null
          [] op = "OR"  -> IF bools THEN Bool(IsTrue(l) \/ IsTrue(r)) ELSE Null
          [] OTHER      -> IF <<l.type, op, r.type>> \in Arithmetic
                           THEN Value(r.type, Rounded(r.type, Calculate(l.v, op, r.v)))
                           ELSE Null

Minus(x) == IF x.type \in {"INT4", "INT8", "FLOAT8"} THEN Value(x.type, -x.v) ELSE x
Not(x) == Bool(x = Bool(FALSE))

(* The WHERE clauses: none, `c op literal`, `c = -literal`, NOT of an      *)
(* equality, and c IS NULL.                                                *)
AnyRow == [form |-> "any"]
Cmp(op, l) == [form |-> "cmp", op |-> op, lit |-> l]
Signed(l) == [form |-> "signed", lit |-> l]
NotEq(l) == [form |-> "not", lit |-> l]
NullTest == [form |-> "null"]

(* eval_where.                                                             *)
EvalWhere(w, x) ==
    CASE w.form = "any"    -> TRUE
      [] w.form = "cmp"    -> IsTrue(EvalBinary(x, w.op, FromSqlLiteral(w.lit)))
      [] w.form = "signed" -> IsTrue(EvalBinary(x, "=", Minus(FromSqlLiteral(w.lit))))
      [] w.form = "not"    -> IsTrue(Not(EvalBinary(x, "=", FromSqlLiteral(w.lit))))
      [] w.form = "null"   -> IsNull(x)

-----------------------------------------------------------------------------
(* The index and the plan.                                                 *)

(* ComparableValue: integers of both widths share their keys, doubles are  *)
(* told apart by their bits.                                               *)
KeyTyped(x) == x

Key(x) == Value(IF Integer(x) THEN "Int" ELSE x.type, x.v)

(* BTreeIndex insert and remove.                                           *)
AddEntry(t, x, id) ==
    [k \in DOMAIN t \cup {Key(x)} |->
        IF k # Key(x) THEN t[k] ELSE IF k \in DOMAIN t THEN Append(t[k], id) ELSE <<id>>]

(* The elements of a sequence that are in a set, in their order.           *)
Keep(out, x, set) == IF x \in set THEN Append(out, x) ELSE out

Only(seq, set) == FoldLeft(LAMBDA out, x : Keep(out, x, set), <<>>, seq)

RemoveEntry(t, x, id) ==
    LET k    == Key(x)
        left == IF k \in DOMAIN t THEN Only(t[k], Range(t[k]) \ {id}) ELSE <<>>
    IN  IF left = <<>> THEN Restrict(t, DOMAIN t \ {k}) ELSE [t EXCEPT ![k] = left]

(* The index after a statement has come by these rows: remove_row of the   *)
(* value a row had, if it was there, and insert_row of the one it gets, if *)
(* it stays.                                                               *)
Visit(t, id, old, new) ==
    LET cut == IF id \in DOMAIN old THEN RemoveEntry(t, old[id], id) ELSE t
    IN  IF id \in DOMAIN new THEN AddEntry(cut, new[id], id) ELSE cut

Reindexed(t, ids, old, new) == FoldLeft(LAMBDA u, id : Visit(u, id, old, new), t, ids)

(* The order of a scan.                                                    *)
Ids == Only([i \in 1..(next - 1) |-> i], DOMAIN rows)

(* plan_scan: an index is used for an equality of the column and a literal *)
(* and for nothing else; a signed number is an expression.                 *)
Planned(w) == index /\ w.form = "cmp" /\ w.op = "="

Lookup(l) == LET k == Key(FromSqlLiteral(l)) IN IF k \in DOMAIN tree THEN tree[k] ELSE <<>>

(* select: the candidates of the plan, in its order, then WHERE again.     *)
Matching(w) == {id \in DOMAIN rows : EvalWhere(w, rows[id])}
FullScan(w) == Only(Ids, Matching(w))
IndexLookup(w) == Only(Lookup(w.lit), Matching(w))

Select(w) == IF Planned(w) THEN IndexLookup(w) ELSE FullScan(w)

-----------------------------------------------------------------------------
(* finalize_select.                                                        *)

(* compare_values: NULL first, a type by its own order, and values of two  *)
(* types by the texts that display them.                                   *)
Less(a, b) ==
    IF IsNull(a) \/ IsNull(b) THEN IsNull(a) /\ ~IsNull(b)
    ELSE IF a.type = b.type THEN a.v < b.v
    ELSE Display(a) < Display(b)

Precedes(i, j, asc) == IF asc THEN Less(rows[i], rows[j]) ELSE Less(rows[j], rows[i])

(* sort_rows: the stable sort of the standard library, for short slices an *)
(* insertion sort: a row moves left past the rows it precedes.             *)
Place(sorted, id, asc) ==
    LET stops == {k \in DOMAIN sorted : ~Precedes(id, sorted[k], asc)}
    IN  InsertAt(sorted, 1 + (IF stops = {} THEN 0 ELSE Max(stops)), id)

SortRows(ids, asc) == FoldLeft(LAMBDA sorted, id : Place(sorted, id, asc), <<>>, ids)

(* apply_limit_offset.                                                     *)
LimitFirst(ids, limit, offset) ==
    LET taken == SubSeq(ids, 1, Min({limit, Len(ids)}))
    IN  SubSeq(taken, offset + 1, Len(taken))

LimitOffset(ids, limit, offset) ==
    LET rest == SubSeq(ids, offset + 1, Len(ids))
    IN  SubSeq(rest, 1, Min({limit, Len(rest)}))

(* apply_group_by with GROUP BY c: rows that display alike are a group.    *)
GroupKeyNullAsZero(x) == IF IsNull(x) THEN Numeral("INT8", 0) ELSE Display(x)

GroupKey(x) == Display(x)

Groups(w) ==
    LET ids == Select(w)
    IN  {Only(ids, {i \in DOMAIN rows : GroupKey(rows[i]) = GroupKey(rows[id])}) : id \in Range(ids)}

(* eval_grouped_expr: COUNT and SUM of the group, or the value of its      *)
(* first row.                                                              *)
Number(x) == CASE Integer(x) -> Round(Unit * x.v) [] x.type = "FLOAT8" -> x.v [] OTHER -> 0

EvalGrouped(item, group) ==
    CASE item = "count" -> Value("INT8", Len(group))
      [] item = "sum"   -> Value("FLOAT8", FoldLeft(LAMBDA sum, id : Round(sum + Number(rows[id])), 0, group))
      [] item = "min"   -> rows[Head(SortRows(group, TRUE))]
      [] item = "max"   -> rows[Last(SortRows(group, TRUE))]
      [] item = "c"     -> rows[Head(group)]

GroupRow(items, group) == [k \in DOMAIN items |-> EvalGrouped(items[k], group)]

(* project_rows, of grouped rows too: the items are evaluated once more,   *)
(* where the column c is the first value of the row, COUNT is 1, and no    *)
(* other aggregate is known.                                               *)
Project(items, row) ==
    [k \in DOMAIN items |->
        CASE items[k] = "c"     -> Head(row)
          [] items[k] = "count" -> Value("INT8", 1)
          [] OTHER              -> Null]

Grouped(items, w) == {[group |-> g, row |-> Project(items, GroupRow(items, g))] : g \in Groups(w)}

-----------------------------------------------------------------------------
(* Statements that write.  What they mean is kept beside what they do: a   *)
(* token as in the statement, a signed number where the value has a sign.  *)

Token(kind, v) == [kind |-> kind, v |-> v]
Scaled(t) == IF t.kind = "int" THEN Unit * t.v ELSE t.v
Numeric(t) == t.kind \in {"int", "dec"}

(* A number the column cannot hold: `as i32` cuts it, or from_sql_literal  *)
(* could not parse it, or the arithmetic wrapped.                          *)
OutOfRange(t) ==
    t.kind = "int" /\ ~Fits(t.v, IF col.type = "INT4" THEN Int4Max ELSE Int8Max)

(* A literal that from_sql_literal reads as 0.                             *)
TooLarge(l) == l.kind = "int" /\ ~Fits(l.v, Int8Max)

QueryInit ==
    /\ col \in Columns
    /\ rows = <<>> /\ next = 1 /\ index = FALSE /\ tree = <<>>
    /\ meant = <<>> /\ lost = {} /\ stmts = 0

Statement == stmts < MaxStmts /\ stmts' = stmts + 1

(* coerce_to and validate_row let the value in.                            *)
Accepted(x) == CoerceTo(x, col.type)[1] /\ (IsNull(x) => col.nullable)
Stored(x) == CoerceTo(x, col.type)[2]

With(f, id, x) == [i \in DOMAIN f \cup {id} |-> IF i = id THEN x ELSE f[i]]

(* INSERT: values_from_insert reads literals, and any other expression, a  *)
(* number with a sign for one, as NULL.                                    *)
InsertValue(l, negative) == IF negative THEN Null ELSE FromSqlLiteral(l)

Insert(l, negative) ==
    LET x == InsertValue(l, negative)
        t == IF negative THEN Token(l.kind, -l.v) ELSE l
    IN  /\ Statement /\ next <= MaxRows /\ Accepted(x)
        /\ rows' = With(rows, next, Stored(x))
        /\ next' = next + 1
        /\ tree' = IF index THEN AddEntry(tree, Stored(x), next) ELSE tree
        /\ meant' = With(meant, next, t)
        /\ lost' = IF negative \/ OutOfRange(t) THEN lost \cup {next} ELSE lost
        /\ UNCHANGED <<col, index>>

(* UPDATE of the rows a full scan finds, with the right-hand sides literal,*)
(* -literal and c op literal.  An UPDATE that fails is not taken up here.  *)
AssignmentValue(e, x) ==
    CASE e.form = "lit" -> FromSqlLiteral(e.lit)
      [] e.form = "neg" -> Minus(FromSqlLiteral(e.lit))
      [] e.form = "op"  -> EvalBinary(x, e.op, FromSqlLiteral(e.lit))

Meaning(e, t) ==
    CASE e.form = "lit" -> e.lit
      [] e.form = "neg" -> Token(e.lit.kind, -e.lit.v)
      [] e.form = "op"  ->
            IF t.kind = "null" THEN t
            ELSE IF t.kind = "int" /\ e.lit.kind = "int"
            THEN Token("int", Calculate(t.v, e.op, e.lit.v))
            ELSE Token("dec", Calculate(Scaled(t), e.op, Scaled(e.lit)))

(* Arithmetic that eval_binary does not know: it leaves NULL.              *)
Unknown(e, x) ==
    /\ e.form = "op" /\ ~IsNull(x)
    /\ <<x.type, e.op, FromSqlLiteral(e.lit).type>> \notin Arithmetic

(* Arithmetic with a decimal that is no double: it starts from another     *)
(* number than the statements say, and the difference can grow.            *)
Inexact(t) == Numeric(t) /\ Round(Scaled(t)) # Scaled(t)

Rounds(e, x, t) == e.form = "op" /\ x.type = "FLOAT8" /\ (Inexact(t) \/ Inexact(e.lit))

Update(e, w) ==
    LET hit == Range(FullScan(w))
        value == [id \in hit |-> AssignmentValue(e, rows[id])]
        new == [id \in hit |-> Stored(value[id])]
        says == [id \in hit |-> Meaning(e, meant[id])]
    IN  /\ Statement /\ hit # {}
        /\ \A id \in hit : Accepted(value[id])
        /\ rows' = [id \in DOMAIN rows |-> IF id \in hit THEN new[id] ELSE rows[id]]
        /\ tree' = IF index THEN Reindexed(tree, FullScan(w), rows, new) ELSE tree
        /\ meant' = [id \in DOMAIN rows |-> IF id \in hit THEN says[id] ELSE meant[id]]
        /\ lost' = {id \in DOMAIN rows :
                      IF id \notin hit THEN id \in lost
                      ELSE \/ OutOfRange(says[id]) \/ TooLarge(e.lit)
                           \/ Rounds(e, rows[id], meant[id])
                           \/ e.form = "op" /\ (id \in lost \/ Unknown(e, rows[id]))}
        /\ UNCHANGED <<col, next, index>>

(* DELETE.                                                                 *)
Delete(w) ==
    LET hit == Range(FullScan(w))
    IN  /\ Statement /\ hit # {}
        /\ rows' = Restrict(rows, DOMAIN rows \ hit)
        /\ meant' = Restrict(meant, DOMAIN rows \ hit)
        /\ tree' = IF index THEN Reindexed(tree, FullScan(w), rows, <<>>) ELSE tree
        /\ lost' = lost \ hit
        /\ UNCHANGED <<col, next, index>>

(* CREATE INDEX over the rows there are, in the order of a scan.           *)
CreateIndex ==
    /\ Statement /\ ~index
    /\ index' = TRUE
    /\ tree' = Reindexed(<<>>, Ids, <<>>, rows)
    /\ UNCHANGED <<col, table, meant, lost>>

-----------------------------------------------------------------------------
Assignments ==
    {[form |-> form, lit |-> l] : form \in {"lit", "neg"}, l \in Operands}
    \cup {[form |-> "op", op |-> op, lit |-> l] : op \in {"+", "-", "*"}, l \in Operands}

Wheres == {AnyRow, NullTest} \cup UNION {{Cmp("=", l), NotEq(l)} : l \in Operands}

QueryNext ==
    \/ \E l \in Literals : Insert(l, FALSE)
    \/ \E l \in Operands : Insert(l, TRUE)
    \/ \E e \in Assignments, w \in Wheres : Update(e, w)
    \/ \E w \in Wheres : Delete(w)
    \/ CreateIndex

QuerySpec == QueryInit /\ [][QueryNext]_queryVars

-----------------------------------------------------------------------------
(* Every stored value has the type of its column, an integer fits its      *)
(* width, and NULL is where the column allows it; a VARCHAR holds any      *)
(* type.  Every row has its entry in the index.                            *)
TypeOK ==
    /\ \A id \in DOMAIN rows :
          /\ IsNull(rows[id]) => col.nullable
          /\ ~IsNull(rows[id]) => rows[id].type = col.type \/ col.type = "VARCHAR"
          /\ rows[id].type = "INT4" => Fits(rows[id].v, Int4Max)
          /\ rows[id].type = "INT8" => Fits(rows[id].v, Int8Max)
    /\ DOMAIN meant = DOMAIN rows /\ lost \subseteq DOMAIN rows
    /\ index => UNION {Range(tree[k]) : k \in DOMAIN tree} = DOMAIN rows

(* The search for the value a row was given, by that value in a literal.   *)
Search(t) == IF Numeric(t) /\ t.v < 0 THEN Signed(Token(t.kind, -t.v)) ELSE Cmp("=", t)

(* A column of doubles holds an integer literal, which equality never      *)
(* compares with a double.                                                 *)
IntegerInDouble(id) == rows[id].type = "FLOAT8" /\ meant[id].kind = "int"

(* i64::MIN, which arithmetic can make: no literal says it, because the    *)
(* number after its sign is too large.                                     *)
Unwritable(id) == meant[id] = Token("int", -(Int8Max + 1))

(* What was written is found: a row is in the answer to WHERE c = v for    *)
(* the value v its statements gave it, through literal, coercion,          *)
(* arithmetic, comparison and plan.  NULL is found by IS NULL.  The        *)
(* exceptions are an integer in a double column, i64::MIN, and the lost    *)
(* rows: integers out of range, a signed number in INSERT, arithmetic on   *)
(* types that eval_binary does not know, which stores NULL, and arithmetic *)
(* with decimals that are no doubles (1.1 + 2.2 is not 3.3).               *)
FindsWritten ==
    \A id \in DOMAIN rows \ lost :
        \/ IntegerInDouble(id) \/ Unwritable(id)
        \/ id \in Range(Select(IF meant[id].kind = "null" THEN NullTest ELSE Search(meant[id])))

(* An index answers as the table does: WHERE c = l finds the same rows by  *)
(* the index and by a full scan, once each, whatever types and widths      *)
(* literal and column have.  A double that is near the literal and has     *)
(* other bits is missed.                                                   *)
PlansAgree ==
    index => \A l \in Literals :
        LET found == IndexLookup(Cmp("=", l))
            there == Range(FullScan(Cmp("=", l)))
        IN  /\ IsInjective(found) /\ Range(found) \subseteq there
            /\ \A id \in there \ Range(found) :
                  rows[id].type = "FLOAT8" /\ rows[id].v # FromSqlLiteral(l).v

(* A VARCHAR may hold values of several types, of which compare_values     *)
(* makes no order.                                                         *)
Mixed == \E i, j \in DOMAIN rows :
    rows[i].type # rows[j].type /\ ~IsNull(rows[i]) /\ ~IsNull(rows[j])

(* ORDER BY c with LIMIT and OFFSET: the pages one after the other hold    *)
(* each row once, and no row comes after a greater one, except in a mixed  *)
(* column; of integers, the rows below a literal are those that come       *)
(* before the rows that are not below it.                                  *)
OrderedPages ==
    \A asc \in BOOLEAN, n \in 1..MaxRows :
        LET sorted == SortRows(Select(AnyRow), asc)
            pages  == [p \in 1..MaxRows |-> LimitOffset(sorted, n, n * (p - 1))]
            read   == FlattenSeq(pages)
        IN  /\ IsInjective(read) /\ Range(read) = DOMAIN rows
            /\ Mixed \/ \A i, j \in DOMAIN read : i < j => ~Precedes(read[j], read[i], asc)
            /\ asc => \A l \in Literals : \A i, j \in DOMAIN read :
                  EvalWhere(Cmp(">=", l), rows[read[i]]) /\ EvalWhere(Cmp("<", l), rows[read[j]])
                      => j < i \/ Mixed

(* Values that display alike without being equal: NULL and 'NULL', and in  *)
(* a VARCHAR 3 and '3'; and doubles that are equal without displaying      *)
(* alike.                                                                  *)
Lookalike(x, y) == x.type # y.type /\ Display(x) = Display(y)
NearDoubles(x, y) == x.type = "FLOAT8" /\ y.type = "FLOAT8" /\ x.v # y.v

(* GROUP BY c puts two rows into one group just when their values are      *)
(* equal, and each row into one group.                                     *)
GroupsByValue ==
    LET groups == Groups(AnyRow)
    IN  /\ \A id \in DOMAIN rows : Cardinality({g \in groups : id \in Range(g)}) = 1
        /\ \A i, j \in DOMAIN rows :
              \/ Lookalike(rows[i], rows[j]) \/ NearDoubles(rows[i], rows[j])
              \/ (\E g \in groups : {i, j} \subseteq Range(g)) <=> ValuesEqual(rows[i], rows[j])

-----------------------------------------------------------------------------
(* A claim the code does not keep.                                         *)

(* SELECT c, <aggregate> ... GROUP BY c reports the aggregate of each      *)
(* group, as README.md:20 has it ("GROUP BY - COUNT, SUM, AVG, MIN, MAX    *)
(* aggregates").                                                           *)
AggregatesReported ==
    \A item \in {"count", "sum", "min", "max"} : \A answer \in Grouped(<<"c", item>>, AnyRow) :
        answer.row[2] = EvalGrouped(item, answer.group)
=============================================================================
