SPECIFICATION Spec
CONSTANTS
    Threads = {t1, t2}
    Kinds <- Plain
    SigningKey = FALSE
    VerifyingKey = FALSE
    MaxReceipts = 3
    MaxRestarts = 0
INVARIANTS
    ReceiptsFormOneChain
CHECK_DEADLOCK FALSE
