------------------------------- MODULE TaskRun -------------------------------
(***************************************************************************)
(* One task, from the API request that starts it to its final status: the  *)
(* coroutines TaskExecutor.run starts for it, the rows of the database they *)
(* share with the API server, and the class-level dictionaries of the      *)
(* runtime process, which a restart forgets.                               *)
(*                                                                         *)
(* A step of a coroutine is one await: the statement it waits for and the  *)
(* Python code up to the next await.  Event-log inserts are not state here *)
(* (module EventLogger has them); that they can raise is the Fault action. *)
(***************************************************************************)
EXTENDS Naturals, Sequences

CONSTANTS
    Runs,         \* slots for coroutines of TaskExecutor.run alive at once
    NoRun,        \* no entry in _running_tasks
    MaxPlans,     \* bound: plans generate_plan may return
    NSteps,       \* steps of every plan
    GateChoices,  \* values of "plan.requires_approval and env != test"
    ExecuteFrom, ResumeFrom, CancelFrom, PauseFrom,
                  \* task statuses in which clients send each request
                  \* (neither server looks at the status)
    ResolveFrom,  \* approval statuses in which clients resolve an approval
    ApproveVia,   \* the approve routes the clients use: "POST", "PATCH"
    MaxFaults, MaxCrashes, MaxPauses
                  \* bounds: exceptions, runtime crashes, pause requests

Statuses == {"pending", "planning", "awaiting_approval", "approved",
             "running", "paused", "completed", "failed", "cancelled"}

Resolutions == {"pending", "approved", "rejected"}

ASSUME RunsAssumption == NoRun \notin Runs
ASSUME SizeAssumption == MaxPlans \in Nat \ {0} /\ NSteps \in Nat \ {0}
ASSUME ClientAssumption ==
    /\ GateChoices \subseteq BOOLEAN
    /\ ExecuteFrom \cup ResumeFrom \cup CancelFrom \cup PauseFrom
         \subseteq Statuses
    /\ ResolveFrom \subseteq Resolutions
    /\ ApproveVia \subseteq {"POST", "PATCH"}
ASSUME BudgetAssumption ==
    MaxFaults \in Nat /\ MaxCrashes \in Nat /\ MaxPauses \in Nat

Plans == 1..MaxPlans
Steps == 1..NSteps

\* A plan and how many of its steps have been done: what workflow_states,
\* _pending_plans and a coroutine all carry.
Cursor == [plan : Plans, step : 0..NSteps]
None   == [plan |-> 0, step |-> 0]

VARIABLES
    \* PostgreSQL
    status,    \* tasks.status
    saved,     \* the active workflow_states rows, oldest first
    approval,  \* the approvals row of each plan, or "none"
    \* the runtime process
    pending,   \* _pending_plans[task]
    paused,    \* task in _paused_tasks
    running,   \* the coroutine in _running_tasks[task]
    up,        \* the runtime answers
    run,       \* the coroutines
    \* requests that have a second half to do
    inflight,
    \* plans and their execution
    nplans,    \* plans generated
    gated,     \* the plan asked for approval
    done,      \* successful executions of each step: 0, 1, or 2 for more
    left       \* what is left of the bounds

dbVars   == <<status, saved, approval>>
memVars  == <<pending, paused, running, up>>
planVars == <<nplans, gated, done>>
vars     == <<dbVars, memVars, run, inflight, planVars, left>>

\* Where a coroutine is, named for the await it is about to make.
TryPC == {"planning", "generate", "gate", "saveDelete", "saveInsert",
          "record", "lastLog", "start", "check", "pauseDelete",
          "pauseInsert", "pausedWrite", "tool", "retry", "failing",
          "cancelled", "complete", "clear"}
PC    == {"idle", "posted", "load", "resume", "handler", "handled", "stopping"}
           \cup TryPC

\* row: the task came from the runtime's own SELECT, with a UUID object as id.
RunState == [pc : PC, at : Cursor \cup {None}, row : BOOLEAN]
Idle     == [pc |-> "idle", at |-> None, row |-> FALSE]
Stopping == [pc |-> "stopping", at |-> None, row |-> FALSE]

\* What a request that was answered halfway still has to do; at most one of
\* each kind is in flight.
Calls == {"cancel", "pause", "approve", "approveResume", "reject", "resume"}

Init ==
    /\ status = "pending" /\ saved = <<>>
    /\ approval = [p \in Plans |-> "none"]
    /\ pending = None /\ paused = FALSE /\ running = NoRun /\ up = TRUE
    /\ run = [r \in Runs |-> Idle]
    /\ inflight = {}
    /\ nplans = 0
    /\ gated = [p \in Plans |-> FALSE]
    /\ done = [p \in Plans |-> [s \in Steps |-> 0]]
    /\ left = [faults |-> MaxFaults, crashes |-> MaxCrashes,
               pauses |-> MaxPauses]

-----------------------------------------------------------------------------
(* Starting a coroutine *)

Goto(r, label) == run' = [run EXCEPT ![r].pc = label]

\* The coroutine returns: run's finally pops whatever is registered.
Finish(r) == run' = [run EXCEPT ![r] = Idle] /\ running' = NoRun

\* The part of run before its first await: a plan kept in memory is popped and
\* resumed, otherwise workflow_states is read.
Enter(r, row) ==
    IF pending # None
    THEN /\ run' = [run EXCEPT ![r] =
                      [pc |-> "resume", at |-> pending, row |-> row]]
         /\ pending' = None
         /\ running' = r
    ELSE /\ run' = [run EXCEPT ![r] =
                      [pc |-> "load", at |-> None, row |-> row]]
         /\ UNCHANGED <<pending, running>>

\* POST /api/tasks/:id/execute up to its fetch of the runtime.
Execute(r) ==
    /\ run[r].pc = "idle" /\ status \in ExecuteFrom
    /\ status' = "running"
    /\ Goto(r, "posted")
    /\ UNCHANGED <<saved, approval, memVars, inflight, planVars, left>>

ExecuteArrives(r) ==
    /\ run[r].pc = "posted" /\ up
    /\ Enter(r, FALSE)
    /\ UNCHANGED <<dbVars, paused, up, inflight, planVars, left>>

ExecuteUnreachable(r) ==
    /\ run[r].pc = "posted" /\ ~up
    /\ status' = "failed"
    /\ run' = [run EXCEPT ![r] = Idle]
    /\ UNCHANGED <<saved, approval, memVars, inflight, planVars, left>>

\* POST /api/tasks/:id/resume, forwarded to the runtime's /resume.
Resume(r) ==
    /\ run[r].pc = "idle" /\ up /\ status \in ResumeFrom
    /\ Enter(r, TRUE)
    /\ UNCHANGED <<dbVars, paused, up, inflight, planVars, left>>

\* The call PATCH /api/approvals/:id makes after approving; its failure is
\* swallowed.
ResumeCall(r) ==
    /\ "resume" \in inflight /\ up /\ run[r].pc = "idle"
    /\ inflight' = inflight \ {"resume"}
    /\ Enter(r, TRUE)
    /\ UNCHANGED <<dbVars, paused, up, planVars, left>>

ResumeCallLost ==
    /\ "resume" \in inflight /\ ~up
    /\ inflight' = inflight \ {"resume"}
    /\ UNCHANGED <<dbVars, memVars, run, planVars, left>>

-----------------------------------------------------------------------------
(* TaskExecutor.run and _execute_task up to the first tool *)

\* load_state returns the latest active row.
Load(r) ==
    /\ run[r].pc = "load"
    /\ running' = r
    /\ IF saved = <<>>
       THEN Goto(r, "planning")
       ELSE run' = [run EXCEPT ![r].pc = "resume",
                               ![r].at = saved[Len(saved)]]
    /\ UNCHANGED <<dbVars, pending, paused, up, inflight, planVars, left>>

BeginPlanning(r) ==
    /\ run[r].pc = "planning"
    /\ status' = "planning"
    /\ Goto(r, "generate")
    /\ UNCHANGED <<saved, approval, memVars, inflight, planVars, left>>

\* Mutant: the plan's requires_approval is not looked at.
GeneratePlanUngated(r) ==
    /\ run[r].pc = "generate" /\ ~run[r].row /\ nplans < MaxPlans
    /\ nplans' = nplans + 1
    /\ \E g \in GateChoices : gated' = [gated EXCEPT ![nplans + 1] = g]
    /\ run' = [run EXCEPT ![r].pc = "start",
                          ![r].at = [plan |-> nplans + 1, step |-> 0]]
    /\ UNCHANGED <<dbVars, memVars, inflight, done, left>>

\* generate_plan, and the plan-level approval check.
GeneratePlan(r) ==
    /\ run[r].pc = "generate" /\ ~run[r].row /\ nplans < MaxPlans
    /\ nplans' = nplans + 1
    /\ \E g \in GateChoices :
         /\ gated' = [gated EXCEPT ![nplans + 1] = g]
         /\ run' = [run EXCEPT ![r].pc = IF g THEN "gate" ELSE "start",
                               ![r].at = [plan |-> nplans + 1, step |-> 0]]
    /\ UNCHANGED <<dbVars, memVars, inflight, done, left>>

\* AgentPlan.task_id is a str: a task read by the runtime's own SELECT has a
\* UUID object there, and building the plan raises.
GeneratePlanRaises(r) ==
    /\ run[r].pc = "generate" /\ run[r].row
    /\ Goto(r, "handler")
    /\ UNCHANGED <<dbVars, memVars, inflight, planVars, left>>

StartRunning(r) ==
    /\ run[r].pc = "start"
    /\ status' = "running"
    /\ Goto(r, "check")
    /\ UNCHANGED <<saved, approval, memVars, inflight, planVars, left>>

\* Mutant: the status is the one _resume writes.
ResumeAsResumed(r) ==
    /\ run[r].pc = "resume"
    /\ status' = "resumed"
    /\ Goto(r, "check")
    /\ UNCHANGED <<saved, approval, memVars, inflight, planVars, left>>

\* Mutant: the row is consumed as the copy in memory is.
ResumeConsumes(r) ==
    /\ run[r].pc = "resume"
    /\ status' = "running" /\ saved' = <<>>
    /\ Goto(r, "check")
    /\ UNCHANGED <<approval, memVars, inflight, planVars, left>>

ResumeWithState(r) ==
    /\ run[r].pc = "resume"
    /\ status' = "running"
    /\ Goto(r, "check")
    /\ UNCHANGED <<saved, approval, memVars, inflight, planVars, left>>

-----------------------------------------------------------------------------
(* The plan-level approval gate of _execute_task *)

\* Mutant: the approval is requested before the plan is saved.
RequestBeforeSaving(r) ==
    /\ run[r].pc = "gate"
    /\ status' = "awaiting_approval"
    /\ approval' = [approval EXCEPT ![run[r].at.plan] = "pending"]
    /\ Goto(r, "saveDelete")
    /\ UNCHANGED <<saved, memVars, inflight, planVars, left>>

\* Mutant: the plan is kept in memory before it is saved.
RememberBeforeSaving(r) ==
    /\ run[r].pc = "gate"
    /\ status' = "awaiting_approval"
    /\ pending' = run[r].at
    /\ Goto(r, "saveDelete")
    /\ UNCHANGED <<saved, approval, paused, running, up, inflight, planVars,
                   left>>

AwaitApproval(r) ==
    /\ run[r].pc = "gate"
    /\ status' = "awaiting_approval"
    /\ Goto(r, "saveDelete")
    /\ UNCHANGED <<saved, approval, memVars, inflight, planVars, left>>

\* save_state deletes, then inserts, in two statements of their own.
SaveDelete(r) ==
    /\ run[r].pc \in {"saveDelete", "pauseDelete"}
    /\ saved' = <<>>
    /\ Goto(r, IF run[r].pc = "saveDelete" THEN "saveInsert"
                                           ELSE "pauseInsert")
    /\ UNCHANGED <<status, approval, memVars, inflight, planVars, left>>

SavePlanState(r) ==
    /\ run[r].pc = "saveInsert"
    /\ saved' = Append(saved, run[r].at)
    /\ pending' = run[r].at
    /\ Goto(r, "record")
    /\ UNCHANGED <<status, approval, paused, running, up, inflight,
                   planVars, left>>

\* Mutant: no return after the request; the plan is executed at once.
RequestAndGoOn(r) ==
    /\ run[r].pc = "record"
    /\ approval' = [approval EXCEPT ![run[r].at.plan] = "pending"]
    /\ Goto(r, "start")
    /\ UNCHANGED <<status, saved, memVars, inflight, planVars, left>>

CreateApprovalRecord(r) ==
    /\ run[r].pc = "record"
    /\ approval' = [approval EXCEPT ![run[r].at.plan] = "pending"]
    /\ Goto(r, "lastLog")
    /\ UNCHANGED <<status, saved, memVars, inflight, planVars, left>>

\* The last event of a coroutine that waits (for an approval, or paused) or
\* failed, and its return.
ReturnLogged(r) ==
    /\ run[r].pc \in {"lastLog", "handled"}
    /\ Finish(r)
    /\ UNCHANGED <<dbVars, pending, paused, up, inflight, planVars, left>>

-----------------------------------------------------------------------------
(* WorkflowEngine.execute_plan *)

\* Mutant: the loop ends one step early.
CheckStepEarly(r) ==
    /\ run[r].pc = "check"
    /\ Goto(r, IF run[r].at.step + 1 = NSteps THEN "complete"
               ELSE IF status = "cancelled" THEN "cancelled"
               ELSE IF paused THEN "pauseDelete"
               ELSE "tool")
    /\ UNCHANGED <<dbVars, memVars, inflight, planVars, left>>

\* The top of the loop: cancelled is read from the database, paused from
\* memory; after the last step neither is looked at.
CheckStep(r) ==
    /\ run[r].pc = "check"
    /\ Goto(r, IF run[r].at.step = NSteps THEN "complete"
               ELSE IF status = "cancelled" THEN "cancelled"
               ELSE IF paused THEN "pauseDelete"
               ELSE "tool")
    /\ UNCHANGED <<dbVars, memVars, inflight, planVars, left>>

\* Mutant: the step about to run is saved as done (current_step for
\* current_step - 1).
SavePausedAhead(r) ==
    /\ run[r].pc = "pauseInsert"
    /\ saved' = Append(saved, [run[r].at EXCEPT !.step = @ + 1])
    /\ Goto(r, "pausedWrite")
    /\ UNCHANGED <<status, approval, memVars, inflight, planVars, left>>

SavePausedState(r) ==
    /\ run[r].pc = "pauseInsert"
    /\ saved' = Append(saved, run[r].at)
    /\ Goto(r, "pausedWrite")
    /\ UNCHANGED <<status, approval, memVars, inflight, planVars, left>>

\* Mutant: a step that succeeds at its retry is not counted.
ToolSucceedsUncounted(r) ==
    LET p == run[r].at.plan
        s == run[r].at.step + 1
    IN  /\ run[r].pc \in {"tool", "retry"}
        /\ done' = [done EXCEPT ![p][s] = IF @ = 2 THEN 2 ELSE @ + 1]
        /\ run' = [run EXCEPT ![r].pc = "check",
                       ![r].at.step = IF run[r].pc = "retry" THEN @ ELSE s]
        /\ UNCHANGED <<dbVars, memVars, inflight, nplans, gated, left>>

\* _execute_step with its tool handler succeeding, at the first attempt or at
\* the retry.
ToolSucceeds(r) ==
    LET p == run[r].at.plan
        s == run[r].at.step + 1
    IN  /\ run[r].pc \in {"tool", "retry"}
        /\ done' = [done EXCEPT ![p][s] = IF @ = 2 THEN 2 ELSE @ + 1]
        /\ run' = [run EXCEPT ![r].pc = "check", ![r].at.step = s]
        /\ UNCHANGED <<dbVars, memVars, inflight, nplans, gated, left>>

\* Mutant: a failed retry is retried again, without a limit.
ToolFailsForever(r) ==
    /\ \/ run[r].pc = "tool" /\ Goto(r, "retry")
       \/ run[r].pc = "retry" /\ Goto(r, "tool")
    /\ UNCHANGED <<dbVars, memVars, inflight, planVars, left>>

\* The tool is unknown, denied by the policy, or fails; whether the step is
\* retried is the plan's retry_on_failure.
ToolFails(r) ==
    /\ \/ run[r].pc = "tool" /\ Goto(r, "retry")
       \/ run[r].pc \in {"tool", "retry"} /\ Goto(r, "failing")
    /\ UNCHANGED <<dbVars, memVars, inflight, planVars, left>>

-----------------------------------------------------------------------------
(* _finalize_execution *)

FinalizePaused(r) ==
    /\ run[r].pc = "pausedWrite"
    /\ status' = "paused"
    /\ Goto(r, "lastLog")
    /\ UNCHANGED <<saved, approval, memVars, inflight, planVars, left>>

\* The status is written, then (a memory, eval and log update later)
\* clear_state runs.
FinalStatus == [failing |-> "failed", cancelled |-> "cancelled",
                complete |-> "completed"]

FinalizeStatus(r) ==
    /\ run[r].pc \in {"failing", "cancelled", "complete"}
    /\ status' = FinalStatus[run[r].pc]
    /\ Goto(r, "clear")
    /\ UNCHANGED <<saved, approval, memVars, inflight, planVars, left>>

ClearState(r) ==
    /\ run[r].pc = "clear"
    /\ saved' = <<>>
    /\ Finish(r)
    /\ UNCHANGED <<status, approval, pending, paused, up, inflight, planVars,
                   left>>

-----------------------------------------------------------------------------
(* Exceptions: a database error, a duplicate event sequence, a failing      *)
(* memory, skill or eval update.                                            *)

\* Inside the try of _execute_task or _resume_with_state.
FaultCaught(r) ==
    /\ left.faults > 0 /\ run[r].pc \in TryPC
    /\ left' = [left EXCEPT !.faults = @ - 1]
    /\ Goto(r, "handler")
    /\ UNCHANGED <<dbVars, memVars, inflight, planVars>>

\* Outside it: in the transition to running that precedes the try of
\* _resume_with_state, before or after its UPDATE, or in the handler itself.
FaultEscapes(r) ==
    /\ left.faults > 0 /\ run[r].pc \in {"resume", "handler", "handled"}
    /\ left' = [left EXCEPT !.faults = @ - 1]
    /\ status' \in {status} \cup (IF run[r].pc = "resume" THEN {"running"}
                                                          ELSE {})
    /\ Finish(r)
    /\ UNCHANGED <<saved, approval, pending, paused, up, inflight, planVars>>

\* load_state raises before anything is registered.
FaultInLoad(r) ==
    /\ left.faults > 0 /\ run[r].pc = "load"
    /\ left' = [left EXCEPT !.faults = @ - 1]
    /\ run' = [run EXCEPT ![r] = Idle]
    /\ UNCHANGED <<dbVars, memVars, inflight, planVars>>

Handler(r) ==
    /\ run[r].pc = "handler"
    /\ status' = "failed"
    /\ Goto(r, "handled")
    /\ UNCHANGED <<saved, approval, memVars, inflight, planVars, left>>

-----------------------------------------------------------------------------
(* Cancel, pause, and their fallbacks when the runtime does not answer *)

\* TaskExecutor.cancel cancels the registered coroutine and deregisters it;
\* the status is written by a statement of its own.
Cancel ==
    /\ up /\ status \in CancelFrom /\ "cancel" \notin inflight
    /\ run' = [r \in Runs |-> IF r = running THEN Stopping ELSE run[r]]
    /\ running' = NoRun
    /\ inflight' = inflight \cup {"cancel"}
    /\ UNCHANGED <<dbVars, pending, paused, up, planVars, left>>

\* CancelledError reaches the coroutine at its await, and run's finally pops
\* whatever is registered by then.
Stop(r) ==
    /\ run[r].pc = "stopping"
    /\ Finish(r)
    /\ UNCHANGED <<dbVars, pending, paused, up, inflight, planVars, left>>

Pause ==
    /\ up /\ status \in PauseFrom /\ "pause" \notin inflight
    /\ running # NoRun /\ left.pauses > 0
    /\ left' = [left EXCEPT !.pauses = @ - 1]
    /\ paused' = TRUE
    /\ inflight' = inflight \cup {"pause"}
    /\ UNCHANGED <<dbVars, pending, running, up, run, planVars>>

\* The UPDATE of the runtime, or of the API server if the runtime died first.
CancelWrite ==
    /\ "cancel" \in inflight
    /\ status' = "cancelled"
    /\ inflight' = inflight \ {"cancel"}
    /\ UNCHANGED <<saved, approval, memVars, run, planVars, left>>

PauseWrite ==
    /\ "pause" \in inflight
    /\ status' = "paused"
    /\ inflight' = inflight \ {"pause"}
    /\ UNCHANGED <<saved, approval, memVars, run, planVars, left>>

CancelUnreachable ==
    /\ ~up /\ status \in CancelFrom
    /\ status' = "cancelled"
    /\ UNCHANGED <<saved, approval, memVars, run, inflight, planVars, left>>

PauseUnreachable ==
    /\ ~up /\ status \in PauseFrom /\ left.pauses > 0
    /\ left' = [left EXCEPT !.pauses = @ - 1]
    /\ status' = "paused"
    /\ UNCHANGED <<saved, approval, memVars, run, inflight, planVars>>

-----------------------------------------------------------------------------
(* The approval routes: the approval row, then the task, in two statements. *)
(* Neither looks at what the approval or the task is.                       *)

Approve(p) ==
    /\ approval[p] \in ResolveFrom
    /\ approval' = [approval EXCEPT ![p] = "approved"]
    /\ \E via \in ApproveVia :
         LET call == IF via = "PATCH" THEN "approveResume" ELSE "approve"
         IN  call \notin inflight /\ inflight' = inflight \cup {call}
    /\ UNCHANGED <<status, saved, memVars, run, planVars, left>>

\* Mutant: the task's status is not updated.
ApproveWriteNothing ==
    /\ \E call \in inflight \cap {"approve", "approveResume"} :
         inflight' = inflight \ {call}
    /\ UNCHANGED <<dbVars, memVars, run, planVars, left>>

\* Only PATCH then asks the runtime to resume.
ApproveWrite ==
    /\ \/ /\ "approve" \in inflight
          /\ inflight' = inflight \ {"approve"}
       \/ /\ "approveResume" \in inflight
          /\ inflight' = (inflight \ {"approveResume"}) \cup {"resume"}
    /\ status' = "approved"
    /\ UNCHANGED <<saved, approval, memVars, run, planVars, left>>

Reject(p) ==
    /\ approval[p] \in ResolveFrom /\ "reject" \notin inflight
    /\ approval' = [approval EXCEPT ![p] = "rejected"]
    /\ inflight' = inflight \cup {"reject"}
    /\ UNCHANGED <<status, saved, memVars, run, planVars, left>>

RejectWrite ==
    /\ "reject" \in inflight
    /\ inflight' = inflight \ {"reject"}
    /\ status' = "failed"
    /\ UNCHANGED <<saved, approval, memVars, run, planVars, left>>

-----------------------------------------------------------------------------
(* The runtime process *)

Crash ==
    /\ up /\ left.crashes > 0
    /\ left' = [left EXCEPT !.crashes = @ - 1]
    /\ up' = FALSE
    /\ pending' = None /\ paused' = FALSE /\ running' = NoRun
    /\ run' = [r \in Runs |-> IF run[r].pc = "posted" THEN run[r] ELSE Idle]
    /\ UNCHANGED <<dbVars, inflight, planVars>>

\* lifespan: nothing is recovered.
Restart ==
    /\ ~up
    /\ up' = TRUE
    /\ UNCHANGED <<dbVars, pending, paused, running, run, inflight, planVars,
                   left>>

-----------------------------------------------------------------------------

\* What the event loop runs once an await is answered.
Coroutine(r) ==
    \/ ExecuteArrives(r) \/ ExecuteUnreachable(r)
    \/ Load(r) \/ BeginPlanning(r) \/ GeneratePlan(r) \/ GeneratePlanRaises(r)
    \/ StartRunning(r) \/ ResumeWithState(r)
    \/ AwaitApproval(r) \/ SaveDelete(r) \/ SavePlanState(r)
    \/ CreateApprovalRecord(r) \/ ReturnLogged(r)
    \/ CheckStep(r) \/ SavePausedState(r) \/ ToolSucceeds(r) \/ ToolFails(r)
    \/ FinalizePaused(r) \/ FinalizeStatus(r) \/ ClearState(r) \/ Handler(r)
    \/ Stop(r)

Fault(r) == FaultCaught(r) \/ FaultEscapes(r) \/ FaultInLoad(r)

Client ==
    \/ \E r \in Runs : Execute(r) \/ Resume(r)
    \/ Cancel \/ Pause \/ CancelUnreachable \/ PauseUnreachable
    \/ \E p \in Plans : Approve(p) \/ Reject(p)

\* The second half of a request that was answered or given up.
Server ==
    \/ CancelWrite \/ PauseWrite \/ ApproveWrite \/ RejectWrite
    \/ ResumeCallLost
    \/ \E r \in Runs : ResumeCall(r)

Next ==
    \/ \E r \in Runs : Coroutine(r) \/ Fault(r)
    \/ Client \/ Server \/ Crash \/ Restart

Spec == Init /\ [][Next]_vars

\* The event loop resumes every coroutine whose await was answered, and
\* database, model and tools answer; requests finish; the process is restarted.
\* Clients, faults and crashes are never obliged to happen.
Fairness ==
    /\ \A r \in Runs : WF_vars(Coroutine(r))
    /\ WF_vars(CancelWrite) /\ WF_vars(PauseWrite)
    /\ WF_vars(ApproveWrite) /\ WF_vars(RejectWrite)
    /\ WF_vars(ResumeCallLost \/ \E r \in Runs : ResumeCall(r))
    /\ WF_vars(Restart)

FairSpec == Spec /\ Fairness

\* A client that keeps asking for a stopped task to be resumed.
PatientSpec == FairSpec /\ \A r \in Runs : WF_vars(Resume(r))

-----------------------------------------------------------------------------
(* Properties *)

TypeOK ==
    /\ status \in Statuses
    /\ saved \in Seq(Cursor)
    /\ approval \in [Plans -> Resolutions \cup {"none"}]
    /\ pending \in Cursor \cup {None}
    /\ paused \in BOOLEAN
    /\ running \in Runs \cup {NoRun}
    /\ up \in BOOLEAN
    /\ run \in [Runs -> RunState]
    /\ inflight \subseteq Calls
    /\ nplans \in 0..MaxPlans
    /\ gated \in [Plans -> BOOLEAN]
    /\ done \in [Plans -> [Steps -> 0..2]]
    /\ left \in [faults : Nat, crashes : Nat, pauses : Nat]

\* A coroutine past plan generation or loading has a cursor; it calls a tool
\* only for a step the plan has, and completes only after the last one.
WithPlan == PC \ {"idle", "posted", "load", "planning", "generate", "handler",
                  "handled", "stopping"}

ControlOK ==
    \A r \in Runs :
        /\ run[r].pc \in WithPlan => run[r].at \in Cursor
        /\ run[r].pc \in {"tool", "retry"} => run[r].at.step < NSteps
        /\ run[r].pc = "complete" => run[r].at.step = NSteps

\* Every step before the cursor has been executed.
Reached(c) == \A t \in 1..c.step : done[c.plan][t] > 0

\* Wherever a cursor is kept, it is not ahead of what was executed.
CursorsReached ==
    /\ \A r \in Runs : Reached(run[r].at)
    /\ \A i \in 1..Len(saved) : Reached(saved[i])
    /\ Reached(pending)

\* Steps run in plan order: no pause, resume, retry, crash or second coroutine
\* makes a plan jump over a step (what execute_plan and the current_step that
\* save_state persists must agree on).
NoStepSkipped ==
    \A p \in Plans, s \in Steps :
        done[p][s] > 0 => \A t \in 1..s : done[p][t] > 0

\* tasks.status says completed only when every step of some plan of the task
\* was executed successfully.
CompletedRanAll ==
    status = "completed" => \E p \in Plans : \A s \in Steps : done[p][s] > 0

\* An approval still open in the queue can be acted upon: its plan is in
\* workflow_states, before its first step, whatever crashed in the meantime
\* (the order of save_state and _create_approval_record).
OpenApprovalIsResumable ==
    \A p \in Plans : approval[p] = "pending" =>
        saved = <<[plan |-> p, step |-> 0]>>

\* The plan kept in memory for a resume in the same process is the one a
\* restarted process would load.
MemoryMatchesSaved == pending # None => saved = <<pending>>

\* No step of a plan is executed successfully twice.
AtMostOnce == \A p \in Plans, s \in Steps : done[p][s] < 2

\* The task implements the gate: see PlanGate.
Gate == INSTANCE PlanGate WITH performed <- done
ImplementsPlanGate == Gate!Spec

\* A step of a plan that asked for approval starts only when its approval
\* record says approved (the gate of _execute_task across every way to run).
GatedStepIsApproved ==
    [][\A p \in Plans : done'[p] # done[p] /\ gated[p] =>
            approval[p] = "approved"]_vars

Executed(p) == \A s \in Steps : done[p][s] > 0

\* Faults and crashes, which nothing repairs by itself.
Interrupted == left.faults < MaxFaults \/ left.crashes < MaxCrashes

\* An approved plan is executed, unless the task fails or is cancelled, or a
\* fault or a crash came in between (approvals are resumed by a client).
ApprovedGoesOn ==
    \A p \in Plans : approval[p] = "approved" ~>
        (Executed(p) \/ status \in {"failed", "cancelled"} \/ Interrupted)

\* A task that was paused goes on when its resume is asked for again and again.
PausedGoesOn ==
    paused ~> (status \in {"failed", "cancelled"} \/ \E p \in Plans : Executed(p))

\* A coroutine that was started ends, and its slot in _running_tasks with it.
RunsEnd == \A r \in Runs : run[r].pc # "idle" ~> run[r].pc = "idle"

\* An approved plan that is not finished stays in workflow_states, whatever
\* crashes or raises while it is executed: the row outlives the copy in memory.
ApprovedPlanIsSaved ==
    \A p \in Plans :
        approval[p] = "approved" /\ ~Executed(p)
            /\ status \notin {"failed", "cancelled"}
            => \E i \in 1..Len(saved) : saved[i].plan = p

=============================================================================
