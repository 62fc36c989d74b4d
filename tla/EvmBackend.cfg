CONSTANTS
    Hevm = Hevm
    Token = Token
    Callers = {c1, c2}
    None = None
    MaxBlock = 2
    Transactions <- MCTransactions
    MaxForks = 2
    MaxSnapshots = 1
    MaxOps = 5
SPECIFICATION Spec
SYMMETRY Perms
CHECK_DEADLOCK FALSE
INVARIANTS
    Separate
    FailureKept

    
    
