SPECIFICATION FairSpec
CONSTANTS
    Requests = {r1, r2}
    Plans = {p1, p2}
    Kinds = {"plan", "task", "dry"}
    ActorChoices = {TRUE}
    StrategyChoices = {"none", "revert_commit"}
    PoolSize = 3
    MaxOpen = 2
    MaxFaults = 1
    MaxCrashes = 1
CHECK_DEADLOCK FALSE
INVARIANTS TypeOK CarriedOutOnce ExecutedIsRecorded RecordsSettled RolledBackIsExecuted
PROPERTIES RequestsEnd
