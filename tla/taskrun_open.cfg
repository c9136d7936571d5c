SPECIFICATION Spec
CONSTANTS
    Runs = {r1, r2}
    NoRun = NoRun
    MaxPlans = 1
    NSteps = 2
    GateChoices = {TRUE, FALSE}
    ExecuteFrom <- WhenPending
    ResumeFrom <- Anytime
    CancelFrom <- Never
    PauseFrom <- WhenRunning
    ResolveFrom = {"pending"}
    ApproveVia = {"PATCH"}
    MaxFaults = 1
    MaxCrashes = 1
    MaxPauses = 1
SYMMETRY Symmetry
INVARIANTS TypeOK CompletedRanAll NoStepSkipped
CHECK_DEADLOCK FALSE
