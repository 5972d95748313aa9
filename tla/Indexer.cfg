CONSTANTS
    GenesisHeight = 0
    MaxHeight = 2
    BatchSize = 1
    Loops = {l1, l2}
    Slots = {s1, s2}
    MaxFaults = 1
    QuietBoot = TRUE
SPECIFICATION FairSpec
CHECK_DEADLOCK FALSE
INVARIANTS SyncingHasOneLoop NothingSkipped
PROPERTIES KeepsLedger SyncingEnds FlagClears
