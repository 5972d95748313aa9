CONSTANTS
    GenesisHeight = 0
    MaxHeight = 3
    BatchSize = 1
    Loops = {l1, l2}
    Slots = {s1, s2}
    MaxFaults = 0
    QuietBoot = TRUE
SPECIFICATION Spec
CHECK_DEADLOCK FALSE
SYMMETRY Symmetry
INVARIANT OneRunAtATime
