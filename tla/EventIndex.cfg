CONSTANTS
    Accounts = {a, b, c}
    Blocks = 2
    MaxEvents = 3
    Types = {"transfer", "lock", "staked", "validator", "result", "initialize"}
SPECIFICATION Spec
CHECK_DEADLOCK FALSE
SYMMETRY Symmetry
INVARIANTS RowsAreTheChain DispatchedHaveRows RefreshedOnce LeftOutBehindSeenParty
