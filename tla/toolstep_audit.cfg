SPECIFICATION FairSpec
CONSTANTS
    url = url
    other = other
    Steps = {s1}
    Tools = {"mcp.call_tool", "mcp.list_tools", "github.create_pr", "unknown.tool"}
    StepEnvironments = {"test", "production"}
    AdminChoices = {FALSE}
    Names = {"filesystem"}
    Caps = {"read_file", "web_search"}
    Perms = {"file_access"}
    AddressesOf <- AnyUrl
    MaxRegistrations = 2
    MaxFaults = 1
    MaxCrashes = 1
CHECK_DEADLOCK FALSE
INVARIANTS TypeOK AttemptsInOrder ProductionIsApproved OnlyInterruptedIsPending SentIsRegistered StricterInProduction
PROPERTIES StepsEnd
