SPECIFICATION Spec
CONSTANTS
  Runs = {x}
  Analyses = {}
  CallChoices <- CallSets
  SkillChoices = {"none", "found", "missing"}
  MaxRoles = 0
  MaxFaults = 0
  MaxCancels = 0
  MaxCrashes = 0
  Last = 1
  Preferred = 1
  Lenient = {}
  Requests = {}
INVARIANT AfterEveryRun
CHECK_DEADLOCK FALSE
