SPECIFICATION Spec
CONSTANTS
    exec = exec
    other = other
    rb = rb
    executor = executor
    rollback = rollback
    Callers = {exec, other, rb}
    Loggers = {executor, rollback}
    LoggerOf <- TwoLoggers
    ColdCallers = {exec, rb}
    MaxSeq = 3
INVARIANTS TypeOK RefusedByOthers TransitionHasEvent
PROPERTIES ImplementsAppendLog
