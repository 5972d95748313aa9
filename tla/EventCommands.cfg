CONSTANTS
    Holders = {a}
    Stakers = {s}
    Validators = {v, w}
    Tasks = {t1, t2}
    MaxChanges = 4
    MaxFaults = 1
SPECIFICATION FairSpec
CHECK_DEADLOCK FALSE
INVARIANTS BalanceSettles ValidatorSettles StakesSettle
PROPERTIES NeverOlder EventsEnd
