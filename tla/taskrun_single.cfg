SPECIFICATION PatientSpec
CONSTANTS
    Runs = {r1}
    NoRun = NoRun
    MaxPlans = 1
    NSteps = 3
    GateChoices = {TRUE, FALSE}
    ExecuteFrom <- WhenPending
    ResumeFrom <- WhenApproved
    CancelFrom <- WhenRunning
    PauseFrom <- Never
    ResolveFrom = {"pending"}
    ApproveVia = {"POST"}
    MaxFaults = 1
    MaxCrashes = 2
    MaxPauses = 0
CHECK_DEADLOCK FALSE
INVARIANTS AtMostOnce ApprovedPlanIsSaved
PROPERTIES RunsEnd ApprovedGoesOn
