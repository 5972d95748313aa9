CONSTANTS
    GenesisHeight = 0
    MaxHeight = 2
    BatchSize = 1
    Loops = {l1, l2}
    Slots = {s1}
    MaxFaults = 1
    QuietBoot = FALSE
SPECIFICATION Spec
CHECK_DEADLOCK FALSE

INVARIANT NothingSkipped
