------------------------------ MODULE MCQueries ------------------------------
(* Queries for TLC.  The places of the texts in byte order: a numeral of up *)
(* to two digits, after a sign, with the next place free for a double just  *)
(* beside an integer; then the words.                                       *)
EXTENDS Queries

Digits(n) == 2 * (IF n < 10 THEN 11 * n ELSE 11 * (n \div 10) + (n % 10) + 1)
Signs(n) == IF n < 0 THEN Digits(-n) - 1000 ELSE Digits(n)
MCNumeral(type, v) ==
    IF type = "FLOAT8" THEN Signs(v \div Unit) + (IF v % Unit = 0 THEN 0 ELSE 1) ELSE Signs(v)
MCNullText == 1000
MCBoolText(b) == IF b THEN 1003 ELSE 1002

(* 9 and 10 do not fit the small width and 16 does not fit the large one;   *)
(* 4, which is 16 quarters, and 17 quarters are two doubles that count as   *)
(* equal, 21 quarters no double, and 17 + 17 - 17 is 15; '4' and 'NULL' may *)
(* display like other values.  4 - (-4) and 10 * 4 are out of range, and    *)
(* -4 * 4 is the least number there is.                                     *)
MCLiterals ==
    {Token("int", n) : n \in {4, 9, 10, 16}} \cup {Token("dec", n) : n \in {17, 21}}
    \cup {Token("text", t) : t \in {88, 1000}} \cup {Token("bool", 1), Token("null", 0)}
MCOperands == {Token("int", 4), Token("dec", 17)}
MCColumns ==
    [type : {"INT4", "INT8", "FLOAT8", "TEXT", "VARCHAR", "BOOL", "JSON"}, nullable : {TRUE}]
    \cup {[type |-> "INT8", nullable |-> FALSE]}
=============================================================================
