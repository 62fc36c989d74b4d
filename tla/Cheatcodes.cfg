SPECIFICATION Spec
CONSTANTS
    Test = Test
    Callee = Callee
    Created = Created
    Sender = Sender
    Pranked = Pranked
    Signer = Signer
    None = None
    Logs <- MCLogs
    Suites <- MCSuites
    MaxDepth = 3
    MaxOps = 9
\* The test has ended, or its bound of steps is reached.
CHECK_DEADLOCK FALSE
INVARIANTS
    PranksEnd
    NoncesFollow
    ExpectationsMet
    RecorderSafe
