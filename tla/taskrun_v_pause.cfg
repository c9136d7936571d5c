SPECIFICATION PatientSpec
CONSTANTS
    Runs = {r1}
    NoRun = NoRun
    MaxPlans = 1
    NSteps = 2
    GateChoices = {FALSE}
    ExecuteFrom <- WhenPending
    ResumeFrom <- WhenPaused
    CancelFrom <- Never
    PauseFrom <- WhenRunning
    ResolveFrom = {"pending"}
    ApproveVia = {"PATCH"}
    MaxFaults = 0
    MaxCrashes = 0
    MaxPauses = 1
CHECK_DEADLOCK FALSE
PROPERTIES PausedGoesOn
