----------------------------- MODULE MCTaskRun -----------------------------
(* Instances of TaskRun for TLC. *)
EXTENDS TaskRun, TLC

\* A request that is sent in any status, as curl or the CLI can.
Anytime == Statuses

\* Requests as the web console and the CLI's approve offer them: a task is
\* executed when it is created, resumed when approved or paused, cancelled or
\* paused while it shows running.
WhenPending == {"pending"}
WhenRunning == {"running"}
WhenApproved == {"approved"}
WhenPaused == {"paused"}
WhenStopped == {"approved", "paused"}
Never == {}

Symmetry == Permutations(Runs)
=============================================================================
