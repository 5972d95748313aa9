CONSTANTS
    Accounts = {a, b}
    Blocks = 2
    MaxTxs = 3
    Kinds = {"transfer", "stake", "other", "unknown"}
    MinFee = 3
    MaxSent = 1
    Fee <- TotalFees
    Successful <- Odd
SPECIFICATION Spec
CHECK_DEADLOCK FALSE
SYMMETRY Symmetry
INVARIANTS FeesAreSums SendersKnown PendingExplained
PROPERTY FailsOnlyFor
