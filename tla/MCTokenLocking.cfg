SPECIFICATION Spec
CONSTANTS
    Users = {u1, u2}
    Obligators = {c1, c2}
    Amounts <- MCAmounts
    Supply = 1
    MaxLocks = 2
    MaxApproval = 1
SYMMETRY Interchangeable
INVARIANTS
    ObligationsCovered
    BooksBalance
PROPERTIES
    FrozenWhileLocked
    ImplementsStakeLedger
CHECK_DEADLOCK FALSE
