CONSTANTS
    GenesisHeight = 0
    MaxHeight = 3
    BatchSize = 1
    Loops = {l1, l2}
    Slots = {s1, s2}
    MaxFaults = 1
    QuietBoot = FALSE
SPECIFICATION Spec
CHECK_DEADLOCK FALSE
CONSTRAINT LastBlockAlone
SYMMETRY Symmetry
INVARIANTS TypeOK WrittenOnceInOrder
