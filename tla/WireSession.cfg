\* Every configuration, and sessions of up to five messages.
CONSTANTS
    Simple <- MCSimple
    Prepared <- MCPrepared
    Binds <- MCBinds
    Digits <- MCDigits
    Numbers <- MCNumbers
    MaxMessages = 5
SPECIFICATION Spec
INVARIANT Admission
INVARIANT StatusTruthful
INVARIANT ExecutesWhatWasBound
PROPERTY Answered
CHECK_DEADLOCK FALSE
