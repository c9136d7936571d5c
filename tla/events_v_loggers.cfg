SPECIFICATION Spec
CONSTANTS
    exec = exec
    other = other
    rb = rb
    executor = executor
    rollback = rollback
    Callers = {exec, rb}
    Loggers = {executor, rollback}
    LoggerOf <- TwoLoggers
    ColdCallers = {exec, rb}
    MaxSeq = 3
PROPERTIES CachedIsFree
