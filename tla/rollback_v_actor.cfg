SPECIFICATION Spec
CONSTANTS
    Requests = {r1}
    Plans = {p1, p2}
    Kinds = {"plan", "task", "dry"}
    ActorChoices = {FALSE}
    StrategyChoices = {"none"}
    PoolSize = 3
    MaxOpen = 2
    MaxFaults = 0
    MaxCrashes = 0
SYMMETRY Symmetry
CHECK_DEADLOCK FALSE
INVARIANTS RecordsSettled
