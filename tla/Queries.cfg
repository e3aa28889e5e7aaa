\* One column of any type, three rows.
CONSTANTS
    Int4Max = 7
    Int8Max = 15
    Unit = 4
    Fine = 20
    Coarse = 8
    Numeral <- MCNumeral
    NullText <- MCNullText
    BoolText <- MCBoolText
    Columns <- MCColumns
    Literals <- MCLiterals
    Operands <- MCOperands
    MaxRows = 3
    MaxStmts = 4
SPECIFICATION QuerySpec
INVARIANT TypeOK
INVARIANT FindsWritten
INVARIANT PlansAgree
INVARIANT OrderedPages
INVARIANT GroupsByValue
CHECK_DEADLOCK FALSE
