CONSTANTS
    MaxHeight = 3
    Clients <- HeightClients
    Forms = {"a:b", "a:", ":b"}
    Take = 2
    MaxPages = 2
SPECIFICATION Spec
CHECK_DEADLOCK FALSE
INVARIANT FiltersApplied
