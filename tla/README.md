# TLA+ models of CtalosAgent

CtalosAgent runs tasks for its users: an API server (Fastify) keeps tasks,
approvals, sessions and rollbacks in PostgreSQL, an agent runtime (FastAPI,
asyncio) plans a task, asks for approval where a policy says so, executes the
plan's tools and records every step as an event. This directory holds TLA+
modules of that behaviour, TLC configurations that check them on small
instances, and TLAPS proofs of the results that matter most for every value of
the constants. `PROJECT.json` maps every definition to the lines it models.

## The system

| Part | State it keeps | Operations | Talks to |
|---|---|---|---|
| API server, task and approval routes | `tasks.status`, `approvals` | execute, cancel, pause, resume, approve, reject, PATCH | PostgreSQL; the runtime over HTTP, fire-and-forget |
| Runtime handlers (`main.py`) | the connection pool (10), `app.state` | one per route; `/execute` starts a background coroutine | executor, services |
| Task executor | `_running_tasks`, `_paused_tasks`, `_pending_plans` (memory, shared by all coroutines) | run, resume with state, cancel, pause, finalise, rollback of a task | workflow engine, event logger, memory, skill, eval, rollback services |
| Workflow engine | `workflow_states` rows | generate_plan, execute_plan, save / load / clear state | provider router, policy engine, tools, event logger |
| Event logger | one sequence cache per instance; `task_events`, `task_state_transitions`, `tool_calls` | log, log_state_transition, log_tool_call | PostgreSQL |
| Rollback service | `rollback_plans`, `rollback_executions` | dry run, execute | the pool, event logger, `tasks` |
| Policy engine, tool registry | static tables, the gateway | evaluate, check_tool_permission | called by the workflow engine |
| MCP gateway | servers, tool manifests, HTTP clients (memory) | register, list, call | tools |
| Subagent manager | `subagents` | create, execute, multi-perspective analysis | provider router, an event logger of its own |
| Provider router | providers, statistics (memory) | chat with fallback, health checks, statistics | LLM services |
| Memory, skill, evaluation services | `memories`, `skills`, `eval_runs` | what a completed run leaves behind | called by the task executor |
| Replay service | `replay_sessions` | create and replay a session, debug a call, export | PostgreSQL |
| Sessions, audit, auth, other routes | tables of their own | CRUD | PostgreSQL |
| Web console, CLI | none | the clients | API server |

What is hard in it:

* a task is worked on by several actors that share rows and dictionaries
  without a lock or a transaction: the coroutines of `run`, the API server's
  routes, a second runtime request for the same task;
* the statements of one operation are autocommitted one by one, and a crash or
  an exception falls between any two of them;
* `asyncio` cancellation raises at the await the coroutine is suspended in;
* notifications from the API server to the runtime are sent once and their
  failure is swallowed;
* caches (sequence numbers, HTTP clients, plans waiting for approval) outlive
  what they were read from;
* connections of a bounded pool are held while another is requested.

`PROJECT.json` lists each of these at its line, with the properties that are
about it.

## Modules

| Module | What it is |
|---|---|
| `PlanGate` | abstract: a plan is drafted, becomes ready or awaits an approval, and only a ready or approved plan is executed |
| `TaskRun` | one task: the executor's coroutines, the engine's step loop, the routes, the runtime's crashes and restarts |
| `MCTaskRun` | its instances: which requests clients send in which status |
| `TaskRunProofs` | type correctness, step order, meaning of `completed` |
| `TaskGateProofs` | the approval gate: the refinement of `PlanGate`, open approvals, saved plans, no step twice |
| `AppendLog` | abstract: a log to which the next number is appended |
| `EventLogger` | sequence numbers: cache, `SELECT MAX`, unique constraint, several coroutines and instances |
| `MCEventLogger`, `EventLoggerProofs` | instances and proofs |
| `PolicyEngine` | the decisions of `evaluate` and `check_tool_permission`, and the tool registry's table |
| `PolicyEngineProofs` | production is the strictest environment |
| `ToolStep` | extends `PolicyEngine`: `_execute_step` and its retry, the rows it leaves, the MCP gateway its tools call |
| `MCToolStep`, `ToolStepProofs` | instance and proofs |
| `Rollback` | rollbacks of a task: routes, executor loop, `execute_rollback`, the pool |
| `MCRollback`, `RollbackProofs` | its instances, and proofs about its records |
| `Finalize` | what a completed run still has to do (artifact, rollback plan, status, memories, skill, evaluation), the handler around it, and a subagent analysis of the same task |
| `ProviderRouter` | the providers, the fallback of a chat, the health checks, the counters |
| `MCServices`, `FinalizeProofs`, `ProviderRouterProofs` | an instance of both, and their proofs |

`ToolStep` composes the policy with the step. Otherwise the modules share tables
but not steps: what `EventLogger` shows about refused inserts reaches `TaskRun`,
`ToolStep` and `Rollback` as an exception at an await, and the awaits of
`ToolStep` are the one action `ToolSucceeds` or `ToolFails` of `TaskRun`.
`Finalize` opens the action `FinalizeStatus` of `TaskRun` into its statements and
has the event numbers of `EventLogger` with the taking of a number and its INSERT
in one step; that is where two of the interacting parts, a run and an analysis,
are in one module. Otherwise each is checked alone.

### TaskRun

One step is one await: the statement a coroutine waits for together with the
Python code up to the next await, which the event loop runs without
interruption. `run[r].pc` names the await that comes next; `run[r].at` is the
coroutine's plan and the number of steps done. `status`, `saved`, `approval` are
PostgreSQL; `pending`, `paused`, `running` are `_pending_plans`,
`_paused_tasks` and `_running_tasks` for the task, which `Crash` empties.
`inflight` holds the second halves of requests that do more than one thing: a
route that updated `approvals` and has still to update `tasks`, a resume call on
its way to the runtime.

| Actions | Code |
|---|---|
| `Execute`, `ExecuteArrives`, `ExecuteUnreachable`, `Enter`, `Load` | `POST /api/tasks/:id/execute`, `/execute`, `TaskExecutor.run` |
| `Resume`, `ResumeCall`, `ResumeCallLost`, `ResumeWithState` | the resume routes, `run` with a plan found |
| `BeginPlanning`, `GeneratePlan`, `GeneratePlanRaises`, `StartRunning`, `AwaitApproval`, `SaveDelete`, `SavePlanState`, `CreateApprovalRecord`, `ReturnLogged` | `_execute_task`, `generate_plan`, `save_state` |
| `CheckStep`, `ToolSucceeds`, `ToolFails`, `SavePausedState` | `execute_plan`, `_execute_step` |
| `FinalizePaused`, `FinalizeStatus`, `ClearState` | `_finalize_execution` |
| `FaultCaught`, `FaultEscapes`, `FaultInLoad`, `Handler`, `Stop` | exceptions, the `except` clauses, `CancelledError` |
| `Cancel`, `CancelWrite`, `Pause`, `PauseWrite`, `Approve`, `ApproveWrite`, `Reject`, `RejectWrite` | the routes and `cancel`, `pause` |
| `Crash`, `Restart` | the process, `lifespan` |

What is abstracted: a plan is a number with `NSteps` steps; a tool call is a
success, a failure or an exception; `_finalize_execution` writes the final
status twice in a row (`_transition`, then `_update_task`), one write in the
model; the same holds for the handler that writes `failed`. `Finalize` has these
writes, and all others of the finalisation, one by one. A cancelled
statement has either been executed or not; statements under way when the
process dies are decided before the next process starts. The constants
`ExecuteFrom`, `ResumeFrom`, `CancelFrom`, `PauseFrom` are the statuses in which
clients send a request: the servers never look, so each instance chooses its
clients. Those of `taskrun_open` resume a task whatever its status; they execute
pending tasks, pause running ones and answer approvals by PATCH. `done` counts the successes the executor
saw; the effect of a tool whose call was cut by a crash is not counted.

Left out because the code cannot reach it: `_resume` (nothing calls it), the
tool-approval branch of `_finalize_execution` (it looks for a key that
`execute_plan` never sets, and no registered tool has the risk `critical`).
Left out although it can be reached: `PATCH /api/tasks/:id`, which may write any
status, and the rollback statuses, which `Rollback` has.

### EventLogger

A coroutine takes a number and inserts it. With a warm cache there is no await
in between; with a cold one it awaits `SELECT MAX(sequence)` first
(`Miss`, `SelectMax`, `Reload`). `Insert` is refused when the number is taken
(`UNIQUE(task_id, sequence)`) and the caller gets the exception.
`RecordTransition` is the second insert of `log_state_transition`. `Stop` is a
cancellation at any await, `Restart` a new process with empty caches.
`LoggerOf` says which instance each coroutine logs through: each service makes
its own. `ColdCallers` are the coroutines that may be the first to use an
instance after a start.

### PolicyEngine and ToolStep

`PolicyEngine` has no state: `Forced` is the four branches of `evaluate` that
require an approval whatever the risk, `Mode` and `Evaluate` its result,
`RegisteredTools`, `OnApproval`, `RiskOf` and `Compensated` the columns of the
registry's table, `CheckToolPermission` what `_execute_step` asks. A plan step is
always of the operation `execute`. `_execute_step` reads of the decision only
whether an approval is required: no mode of `RISK_MODE_MAP` is `read_only`, so
that nothing is denied, and no registered tool is `critical`, so that what needs
an approval in production is approved by the engine itself.

In `ToolStep` one coroutine executes one step: `Begin` chooses the tool, the
task's environment and creator and, for an MCP tool, the arguments. Each label
is an await: `ask` and `grant` (the events of the approval), `announce`
(`tool.called`), `record` (INSERT INTO `tool_calls`), `call` and `reply` (the
handler), `settle` (its UPDATE), `report` (`tool.result`), `retry`
(`task.retrying`, after which `_execute_step` starts again). `Statement` is what
all but the handler have in common. A tool that is not registered (the planner's
model may name any) fails in `Starts` before anything is recorded. `rows`,
`granted`, `announced` and `called` are what the step left in `tool_calls` and
`task_events` and how often its handler was called. `Raise` is an exception of a
statement, which ends the step; one of the handler is a failure, as the code
catches it. `Stop` is a cancellation and `Crash` the end of the process, with the
statement under way executed or not. Which coroutines run together does not
matter to a step: they share the gateway only, which `Route` and `Register`
change at any time.

The gateway: `servers` and `clients` are `_servers` and `_clients`; a client is
the URL it was made with. `call_tool` has its checks and its request in one
uninterrupted piece of code (`CallServer`, `Post`). A server over stdio is
simulated by the code, an unsupported transport is a failure of a call and an
empty list of tools. Over the routes `trusted` is never set and `is_active`
always, and no caller of `call_tool` names an environment: the risk check, which
needs `production`, is passed, and so are the manifests it would read.
`known` and `sent` are history: the URLs a name was registered with since the
process started, and the requests sent under the present registration.

### Rollback

A request rolls back one plan, or every unexecuted plan of the task one after
the other (`SelectPlans` ... `Return`, then `Transition` and
`WriteRolledBack`). `execute_rollback` holds a connection from
`AcquireConnection` to its return; its two events each need a second one, which
the guard `Available` says. Borrowing a connection for one statement is
collapsed to the same guard. `strategy` is the plan's column, which nothing
changes: asyncpg gives `plan_data` as a string, so that the six strategies that
read it (`ReadsPlan`) raise, and the manual compensation, which is what `none`,
`composite` and unknown ones end in, returns. A dry run (`Preview`) reads it as
well and changes nothing. `alone` is history: the requests during which no other
was open. `user` says whether `executed_by` is
the id of a user: the routes' default is not (`admin`, `system`), and the UPDATE
that carries it raises. The early return for a plan that does not exist and
`create_rollback_plan`, which nothing calls, are left out.

### Finalize

A run of `Finalize` starts where `execute_plan` returned `completed`. `pc[r]` is
its next statement, in the order of `After`; `EventOf` says which of them are
events and `StatusOf` which write `tasks`. An exception goes to the first
statement of the handler (`Raises`), which logs the transition, writes `failed`
twice and logs the failure; one of the handler leaves the run (`escaped`). Both
callers, `_execute_task` and `_resume_with_state`, have this handler.

| Actions | Code |
|---|---|
| `Log`, `WriteStatus`, `GenerateArtifact`, `CreateRollbackPlan`, `RecordEval`, `ClearState`, `StatementFails` | `_finalize_execution`, `_transition`, `_update_task`, the handlers |
| `CreateMemory` | `update_after_task`: one row for what happened, two if a tool was called, one for each failed call |
| `NoSkill`, `ProposeUpdate`, `ExtractSop` | the skill update, which raises whenever the task has a skill |
| `NextRole`, `CreateSubagent`, `AnnounceSubagent`, `ExecuteSubagent`, `AnalysisFails` | `run_multi_perspective_analysis`, `create_subagent`, `execute_subagent` |
| `CancelRequest`, `CancelWrites`, `CancelLogs`, `Crash` | `cancel`, the process |

The skill update never reaches its writes: asyncpg gives JSONB columns as text,
so `payload.get` raises at the first `tool.result` event; without one, `json` is
not imported in `skill_service.py` and the fallback calls `get` of the text of
`input_schema`; without the skill's row, `extract_sop` meets the text of the
`memory.updated` event just logged. `execute_subagent` sends its first UPDATE
over a connection it has released, which raises outside its `try`.

Events are numbered by two loggers, the executor's and the subagent manager's
(`Number`, `Logs`, `Refused`); the executor's cache is warm, as it has logged the
run so far. `memories`, `rows` and `subagents` are the rows written, `announced`
the events. The content of the rows, the scores of the evaluation and the
embedding of a memory, which is computed after its row and swallows every
exception, are left out.

### ProviderRouter

Providers are numbers by their place in `_init_providers`, 0 is the mock that is
there when no other is configured. A request takes the provider whose turn it is
(`Turn`: the default first, then list order; a health check in list order; a named
one alone), awaits it and counts the outcome in one piece of code without an
await: `Answer`, `Fail` (error status, timeout, unreadable body) or `Unusable`,
where the reply was counted before a null field raised and the except clause
counts it again, as an error. `Lenient` are the providers where that can happen.
`Abandon` is the cancellation of the task whose planner waits.
`failed` and `replied` are the history of a request. `_with_retry` is never
called, so that a provider is asked once.

## Runs

Passing runs:

| Run | Instance | Shows |
|---|---|---|
| `taskrun_open` | 2 coroutines, a pause, resumes in any status, 1 fault, 1 crash | `TypeOK`; `CompletedRanAll`: `completed` means that a plan ran to its end; `NoStepSkipped`: no plan jumps over a step |
| `taskrun_careful` | 2 coroutines, 2 plans, clients that execute pending and resume approved tasks, cancels at any time, a pause, 2 crashes, 1 fault | `OpenApprovalIsResumable`, `MemoryMatchesSaved`, `GatedStepIsApproved`, refinement of `PlanGate` |
| `taskrun_single` | 1 coroutine at a time, no pause, 3 steps, approvals through POST, a client that resumes, 2 crashes, 1 fault | `AtMostOnce`, `ApprovedPlanIsSaved`, `RunsEnd`, `ApprovedGoesOn` |
| `events_many` | 3 coroutines, 2 instances, one cold coroutine for each, restarts | refinement of `AppendLog`, `RefusedByOthers`, `TransitionHasEvent`, `TypeOK` |
| `toolstep_audit` | one step of any of 4 tools, test and production, a server registered twice with either of 2 URLs, 1 raising statement, 1 crash, cancels | `AttemptsInOrder`, `ProductionIsApproved`, `OnlyInterruptedIsPending`, `SentIsRegistered`, `StricterInProduction`, `StepsEnd`, `TypeOK` |
| `rollback_records` | 2 requests of any of the three routes on 2 plans, a strategy that works and one that raises, actors that are users, 1 raising statement, 1 crash, fewer open rollbacks than connections | `CarriedOutOnce`, `ExecutedIsRecorded`, `RecordsSettled`, `RolledBackIsExecuted`, `RequestsEnd`, `TypeOK` |
| `services` | behaviours of `Finalize`: a run without and with (failed) tool calls, no skill, a skill and a missing one, an analysis of up to 2 roles, 1 failing statement, 1 cancel, 1 crash; behaviours of `ProviderRouter`: every set of 3 providers, 2 requests of any kind | `EventsTellOfRows`: no event tells of a missing row; `LeftRunningTakesTwo`: one exception does not leave the task running; `OneUnannounced`, `FinalizeTypeOK`, `RunsAndAnalysesEnd`; `FirstThatAnswers`, `NoProviderSkipped`, `StatsAddUp`, `RouterTypeOK`, `ChatsEnd` |

Runs that are expected to find a violation; each is a place where the code and
what is said about it disagree (`findings` in `PROJECT.json` quotes both):

| Run | Property | What happens |
|---|---|---|
| `taskrun_v_gate` | `GatedStepIsApproved` | a resume of a task shown as paused runs a plan nobody approved |
| `taskrun_v_pause` | `PausedGoesOn` | a resumed task finds itself paused, for ever |
| `events_v_loggers` | `CachedIsFree` | an instance whose cache was loaded before another one logged gives a number that is in the table, which the INSERT is then refused for |
| `rollback_v_actor` | `RecordsSettled` | an execution stays `running` because its actor is not a UUID: the UPDATE to completed and then that of the except clause are refused |
| `finalize_v_skill` | `AfterEveryRun` | a completed run of a task with a skill ends as failed, without its evaluation |

### What the instances leave out on purpose

A property is checked where the code keeps it. These are the promises that fail
once the instance is widened; the models contain each of the behaviours:

* a pause sent during the last step, or written after the coroutine cleared its
  state, leaves a task `paused` with nothing to resume (`pause`);
* `cancelled` is not final: a pause, an approval or a finalisation whose
  statement was on its way overwrites it (nobody compares the old status);
* `completed` may become `failed`, when memory, skill or evaluation bookkeeping
  raises after the status was written (`_finalize_execution`);
* `POST /approve` does not call the runtime, so that without a client that
  resumes the task stays `approved`, and so does the task of a `PATCH` whose
  resume call met a runtime that was down, although the comment there says it
  will resume; `ApprovedGoesOn` assumes such a client;
* a crash between the DELETE and the INSERT of `save_state` loses the plan of a
  resumed task that is being paused; hence no pause in `taskrun_single`;
* when a paused task is resumed, or with two coroutines, a step may succeed twice:
  nothing records which steps were executed except the cursor that is saved at a
  pause;
* two coroutines that find the same sequence cache empty take the same number,
  and the later one sets the cache back, so that lost numbers are given again, out
  of order; hence one cold coroutine for each instance in `events_many`;
* an event refused after a plan was marked executed turns the completed
  execution into a failed one, and a statement that raises in the except clause
  leaves one running; hence `ExecutedIsRecorded` and `RecordsSettled` speak of
  the states up to the first raising statement;
* two task-level rollbacks that overlap carry the same plan out twice, and so
  does one after a crash between the two updates; hence `CarriedOutOnce` counts
  requests that were alone, before a crash;
* an exception inside the handler, which logs before it writes, leaves the task
  `running` with nobody working on it; `LeftRunningTakesTwo` says what it takes;
* no subagent leaves `pending`, and a completed run of a task with a skill never
  reaches its evaluation;
* a step that is cancelled or dies during its call leaves its `tool_calls` row
  `pending`, and no code settles it later; `OnlyInterruptedIsPending` is about
  the steps that end by themselves;
* a server registered again with another URL is still called at the old one, by
  the client kept under its name; `SentIsRegistered` asks for a URL the process
  was given at some time;
* outside production a `critical` tool would be asked for less than a `high` one
  (its base mode is `admin_full_access`); no such tool is registered;
* a task-level rollback moves the task to `rolled_back` even if every plan
  failed; `RolledBackIsExecuted` excepts it by name;
* as many open rollbacks as connections wait for each other for ever.

### Bounds

Two coroutines are enough for every race of `TaskRun`: the state they share is
one value each (a row, a dictionary entry), and a third writer is an API route.
Two plans are needed only where a second planning may meet the first one's rows
(`taskrun_careful`); two steps give a first, a last and a boundary between,
three steps one that is neither. `MaxFaults`, `MaxCrashes`, `MaxPauses` bound how
often the environment interferes; one fault or crash reaches each gap between
two statements, the second one a failed recovery. `MaxSeq` bounds the event
numbers; each coroutine can log and be refused between two others. In `Rollback` two requests on
two plans give a repeated, a concurrent and a task-level rollback; `PoolSize` is
10 in the code and 3 here, in both cases compared with the number of
open requests only. `Finalize` has one run and one analysis, whose two roles give
a first subagent and one after it; what two finalisations of one task do to each
other is two coroutines in `TaskRun`, and the proofs are for any number. Three
providers give one before, one behind and the default in the middle of the list.
`services` shows one of the two modules in each behaviour, since they share no
state. `ToolStep` needs one step, since steps meet in the gateway
only; its four tools are one that needs an approval in production, the two of
the gateway and one that is not registered; two registrations let a client
outlive the one it was made for, and one capability is listed by the default
server, the other is not. Deadlock is not checked in `TaskRun`, `ToolStep`,
`Rollback` and `MCServices`, where the system stops when its clients do; it is in `EventLogger`.

### Fairness

`FairSpec` of `TaskRun` assumes weak fairness of every coroutine (the event loop
resumes a coroutine whose await is answered, and the database, the model and the
tools do answer), of the second halves of requests, and of restarts. Clients,
faults and crashes are never obliged to happen. `PatientSpec`, used in
`taskrun_single` and `taskrun_v_pause`, adds a client that keeps asking for a
resume in the statuses in which it resumes at all. `FairSpec` of `ToolStep`
assumes weak fairness of each step once begun: the database and the tools
answer; `Begin`, routes, exceptions and cancels may never happen. `FairSpec` of
`Rollback` assumes weak fairness of each request's step: the pool serves its
waiters in order, and a connection that is available goes to one of them.
`FinalizeSpec` assumes it of each run, each analysis and the second half of a
cancel: here too the database answers, which is an assumption (`create_pool` sets
no `command_timeout`). `RouterSpec` assumes it of each request once made: the HTTP
clients have a timeout of 60 seconds, so that every call of a provider ends.

## Proofs

`TaskRunProofs` proves, for any number of coroutines, plans and steps and any
clients:

* `TypeCorrect`: `TypeOK` and `ControlOK`; the latter ties a coroutine's place
  to its cursor (a tool is called only for a step the plan has, `complete` is
  reached only after the last one), without which neither half is inductive;
* `StepsInOrder`: `NoStepSkipped`. It is not inductive: a coroutine may go on
  from any copy of a cursor. The invariant `ProgressInv` adds that every cursor
  in a coroutine, in `workflow_states` or in `_pending_plans` is not ahead of what
  was executed; every action but a successful tool call only copies cursors
  (`CoroutineCopies`, `OthersCopy`), and that one moves one by one;
* `CompletedIsComplete`: `CompletedRanAll`, from the same invariant.

`TaskGateProofs` proves what holds for restricted clients; the restrictions are
hypotheses of the theorems, on the constants that say in which statuses clients
send what, and each instance of `TaskRun` chooses its own. `CarefulClients` execute
pending tasks, resume approved ones and resolve pending approvals; they cancel and
pause whenever they like, any number of coroutines may run, and the runtime may
crash, fail and restart as often as it may at all. For them:

* `OpenApprovalsResumable`, `MemoryIsSaved`, `GatedStepsApproved`: the invariant
  `GateInv` says that a task is planned once, whatever is retried or resumed
  (`OnlyFirst`), and follows that plan from its first await on. Until the approval
  is recorded only the coroutine that asks for it has begun (`Alone`); until it is
  given the plan's row stays (`Asked`), nothing that starts a coroutine is on its
  way and no step was done (`Unapproved`); the copy in memory is that row's
  (`Remembered`); and `PlaceOK` says what a coroutine may rely on at each await.
  `taskrun_v_gate` shows that `GatedStepsApproved` needs its hypothesis;
* `TaskImplementsGate`: with `Gate == INSTANCE PlanGate WITH performed <- done`,
  every step of `TaskRun` is a step of `PlanGate` or changes nothing of it; the
  step order comes from `ProgressInv`, the approval from `GateInv`.

`SingleClients` moreover have one coroutine at a time (`OneCoroutine`) and
approve through POST, which does not itself resume. For them
`ExecutedAtMostOnce` proves `AtMostOnce`: a coroutine that has begun has
executed exactly the steps before its cursor (`OnceOf`), a task is approved only
before its first step, and so no cursor left behind by a cancelled, paused or
crashed coroutine is picked up again (`OnceInv`). That the coroutine in
`_running_tasks`, which a cancel ends, is one that has begun is `Registered`,
which holds for any clients. `QuietClients` do not pause either; for them
`ApprovedStaysSaved` proves `ApprovedPlanIsSaved`: the row of an approved plan
goes only when the plan is executed or its task failed or was cancelled
(`SavedInv`).

`EventLoggerProofs` proves, for any coroutines and instances, `TypeCorrect` and
`TransitionsAnnounced`. What it proves of the numbers needs a hypothesis on the
behaviour, `[]OneLoads`: no two coroutines load the cache of one instance at the
same time. The code does not guarantee it (two coroutines of a task that both
start cold after a restart do it), and TLC shows that without it `RefusedByOthers`
and `CallerOrder` fail; `events_many` has it by its `ColdCallers`
(`ColdCallersLoadAlone`). In those behaviours `OwnNumbersAccepted` shows that only
another instance can have taken a refused number: the numbers an instance gave
out are distinct and below its cache, which only the loading coroutine sets, to
the maximum of the table, while nobody else uses it. In the same behaviours
`EventsInOrder` shows that a coroutine's accepted events are numbered in the order
it logged them, and `LogIsAppendOnly` that the table implements `AppendLog`
(`Log == INSTANCE AppendLog WITH log <- events`) whatever instances write it: an
accepted number is fresh and above all earlier ones of its coroutine.

`PolicyEngineProofs` proves `ProductionIsStrictest` for every input (each branch of
`Forced` that holds in an environment holds in one that escalates more, if not
the same branch then the score), and `AskedInProduction`: there every tool asks
whoever is not an administrator, and six tools ask administrators too.
`StricterAlways` of `ToolStepProofs` adds the table: no tool is asked for less in
production than elsewhere.

`ToolStepProofs` proves, for any steps, tools, servers and bounds, `TypeCorrect`,
`AttemptsAreOrdered`, `ProductionAlwaysApproved`, `EndedIsSettled` and
`OnlyRegisteredCalled`. The invariant of a step counts, for every label, what the
present attempt has left so far (`Counted`), says which rows are final
(`Settled`) and that approvals run ahead of rows from the announcement on
(`Approved`); a tool that is not registered leaves nothing (`UnknownOK`).
`StatementKeeps` is the one lemma for all statements, executed or cut. For the
gateway, every client and every HTTP registration holds a URL in `known`
(`GatewayOK`), which is why a client that outlives its registration still has
one.

`RollbackProofs` proves, for any requests, plans and pool, `TypeCorrect` and
`RolledBackMeansExecuted` and `ExecutedAlwaysRecorded`: as long as no statement
raised, the execution of a plan is completed before the plan is marked, and
nothing but the except clause, which is then entered by a strategy only, before
the completion, touches it again. When the actor is a user (`ActorChoices =
{TRUE}`), `AnsweredIsSettled`: an execution is `running` only while its request is
between its creation and its end. With at most one raising statement
(`MaxFaults \in {0, 1}`) and until a crash, `CarriedOutAtMostOnce`: of the plans a
request has still to do only the one it is at has a record (`OneBegun`), a
completed plan is marked unless its request is about to mark it or to write it
failed (`MarkedOf`), and so what a request that is alone selects was not completed
by an earlier one (`ClaimOf`). With `MaxOpen < PoolSize`, `ConnectionAlwaysLeft`: a
request is never kept waiting for a connection by the others that hold one.

`FinalizeProofs` proves, for any number of runs, analyses, roles and tool calls,
`FinalizeTypeCorrect`, `EventsAlwaysTellOfRows`, `AtMostOneUnannounced` and, if
there is a run at all, `RunningTakesTwo`. The
type invariant needs to know that a run never has more memories than it has to
write (`MadeSoFar`) and an analysis a role left where it creates one
(`RolesLeft`). `EventsTellOfRows` is not inductive: `RowsInv` says, for each place
of a run, which rows are written by then (`Written`), which events are not there
yet (`Unsaid`), and what those that are there tell of (`Told`); a step then either
writes the next row or announces one that is written, and everything else, a
cancel or a crash between them included, only stops the run. `NewestOnly` says
that the one subagent without an event is the last one created.
`LeftRunningTakesTwo` counts faults and events of subagents at the end only; its
invariant `TwoInv` accounts for every exception when it is raised. The numbers in
use split into a set `O` of the executor's, none above its cache, and the others,
of which there are no more than events of subagents (each is new, `Fresh`). When
the executor's next number is taken, it is one of the others, and the cache passes
it, once; so faults used plus numbers of others that the cache has passed
(`Costs`) grow with every exception, and a run in the handler has cost one, one
that escaped it two (`PaidFor`), unless the status is written already. The
argument covers crashes, which end the runs, and stops at a cancellation.

`ProviderRouterProofs` proves, for any number of providers and any finite set of
requests, `RouterTypeCorrect`, `FirstAnswers`, `NoneSkipped` and
`StatsAlwaysAddUp`. The invariant follows the walk of a request: no provider twice
(`NoneTwice`), every provider failed, replied, awaited or still to come
(`WholeWalk`), those that failed a chat exactly the ones before its turn
(`InOrder`). That the counters are sums over requests uses the facts about
cardinality, one provider and one request at a time.

Every invariant and every action property of a passing run is thus a theorem as
well, under the hypotheses named above, and so are both refinements. What stays with TLC is liveness (`RunsEnd`,
`ApprovedGoesOn`, `StepsEnd`, `RequestsEnd`, `RunsAndAnalysesEnd`, `ChatsEnd`), which
needs fairness and ENABLED, out of the prover's reach, and the runs that are
expected to find a violation.

## Plan

Done: `TaskRun`, `EventLogger`, `PolicyEngine`, `ToolStep`, `Rollback`, `Finalize`
and `ProviderRouter` with their abstractions, runs and the proofs above. Next, in
this order:

1. The web console as a client of `TaskRun` with a stale view: it polls every
   three seconds and offers cancel and pause for a task shown as running, resume
   for one shown as paused.
2. A task created from a session (three statements) and `PATCH /api/tasks/:id`,
   which may write any status.

## Not modelled

* The replay service: `create_replay_session` reads `replay_type.value`, but the
  route passes a string, so that it raises before its INSERT; no session exists
  and the replay loop cannot be reached. Debugging a call and the audit trail
  only read.
* The rest of the skill service: `update_skill` names a column no migration
  creates and passes a word to a UUID column, `rollback_skill` is not called.
* The scores of the evaluation, embeddings, token sums and latencies: arithmetic
  that no modelled step depends on.
* Sessions, authentication and the read-only routes: single statements, or
  none.
* Tool adapters and the HTTP calls of the language models (I/O): one of a few
  outcomes where they are called.
* Redaction, encryption, logging, settings and schemas: pure conversions and
  declarations.
* The web console and the CLI, which are the clients of the models.
