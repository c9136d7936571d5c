--------------------------- MODULE MCEventLogger ----------------------------
(* The instances of EventLogger for TLC. *)
EXTENDS EventLogger, TLC

CONSTANTS exec, other, rb, executor, rollback

\* Coroutines of the executor share an instance, a rollback has its own.
TwoLoggers == [c \in Callers |-> IF c = rb THEN rollback ELSE executor]
=============================================================================
