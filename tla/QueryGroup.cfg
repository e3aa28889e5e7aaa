\* One column, two rows in a group.
CONSTANTS
    Int4Max = 7
    Int8Max = 15
    Unit = 4
    Fine = 20
    Coarse = 8
    Numeral <- MCNumeral
    NullText <- MCNullText
    BoolText <- MCBoolText
    Columns <- MCColumns
    Literals <- MCLiterals
    Operands <- MCOperands
    MaxRows = 3
    MaxStmts = 4
SPECIFICATION QuerySpec
INVARIANT AggregatesReported
CHECK_DEADLOCK FALSE
