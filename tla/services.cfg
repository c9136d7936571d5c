SPECIFICATION Spec
CONSTANTS
  Runs = {x}
  Analyses = {a1}
  CallChoices <- CallSets
  SkillChoices = {"none", "found", "missing"}
  MaxRoles = 2
  MaxFaults = 1
  MaxCancels = 1
  MaxCrashes = 1
  Last = 3
  Preferred = 2
  Lenient = {1, 2}
  Requests = {q1, q2}
INVARIANTS
  FinalizeTypeOK EventsTellOfRows LeftRunningTakesTwo OneUnannounced
  RouterTypeOK FirstThatAnswers NoProviderSkipped StatsAddUp
PROPERTIES
  RunsAndAnalysesEnd ChatsEnd
CHECK_DEADLOCK FALSE
