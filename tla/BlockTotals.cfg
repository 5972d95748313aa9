CONSTANTS
    Validators = {v1, v2}
    MaxHeight = 3
    MaxUnclean = 2
    BatchSize = 2
    Runs = {r1, r2}
    Expected <- ExpectedRewards
    Minted <- MintedRewards
    Locked <- LockedAmounts
    Burnt <- MinimumFees
    Fee <- TotalFees
SPECIFICATION Spec
CHECK_DEADLOCK FALSE
SYMMETRY Symmetry
INVARIANTS NeverOverCredited TotalsComplete
PROPERTY FinalIsFinalized
