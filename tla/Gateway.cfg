CONSTANTS
    Users = {a, b}
    Pos = {b, d}
    Generator = c
    KnownNames = {a, b}
    Touched = {b, c}
    MaxOthers = 2
    MaxBoots = 2
    ListClients <- MCListClients
    ValidatorClients <- MCValidatorClients
    GeneratorLists <- MCGeneratorLists
    RequestClients <- MCRequestClients
    MaxHeight = 3
    Forms = {"a:b", "a:", ":b"}
    Take = 2
    MaxPages = 4
    Validators = {1, 2, 3, 4}
    Askers = {a1, a2}
    Tasks = {t1, t2}
    MaxChanges = 2
    MaxNodeHeight = 3
    Every = 2
    Refreshes = {r1, r2}
SPECIFICATION Spec
CHECK_DEADLOCK FALSE
INVARIANTS GenesisIn ClashNeedsOther FiltersKept NothingMissed AnswersOfOneTime WholeStakes CountsOffByChanges
PROPERTIES NeverOlder OnceReadyAlwaysReady
