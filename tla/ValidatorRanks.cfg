CONSTANTS
    MaxValidators = 3
    MaxWeight = 2
    MinimumWeight = 1
    Seats = 1
    MaxChanges = 4
SPECIFICATION Spec
CHECK_DEADLOCK FALSE
INVARIANTS RanksOrdered ExcludedAtOnce ActiveAfterTwoRuns
