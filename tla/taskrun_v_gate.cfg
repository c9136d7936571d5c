SPECIFICATION Spec
CONSTANTS
    Runs = {r1}
    NoRun = NoRun
    MaxPlans = 1
    NSteps = 2
    GateChoices = {TRUE}
    ExecuteFrom <- WhenPending
    ResumeFrom <- WhenStopped
    CancelFrom <- WhenRunning
    PauseFrom <- WhenRunning
    ResolveFrom = {"pending"}
    ApproveVia = {"PATCH"}
    MaxFaults = 0
    MaxCrashes = 1
    MaxPauses = 1
CHECK_DEADLOCK FALSE
PROPERTIES GatedStepIsApproved
