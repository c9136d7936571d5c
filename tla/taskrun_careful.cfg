SPECIFICATION Spec
CONSTANTS
    Runs = {r1, r2}
    NoRun = NoRun
    MaxPlans = 2
    NSteps = 2
    GateChoices = {TRUE, FALSE}
    ExecuteFrom <- WhenPending
    ResumeFrom <- WhenApproved
    CancelFrom <- Anytime
    PauseFrom <- WhenRunning
    ResolveFrom = {"pending"}
    ApproveVia = {"POST", "PATCH"}
    MaxFaults = 1
    MaxCrashes = 2
    MaxPauses = 1
CHECK_DEADLOCK FALSE
INVARIANTS OpenApprovalIsResumable MemoryMatchesSaved
PROPERTIES ImplementsPlanGate GatedStepIsApproved
