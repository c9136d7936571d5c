------------------------------ MODULE Finalize ------------------------------
(***************************************************************************)
(* What task_executor.py does once a plan has run to its end: artifact,      *)
(* rollback plan, status, memories, skill, evaluation, each announced by an  *)
(* event.  Any exception goes to the handler around the run, which writes    *)
(* the task failed; an exception of the handler escapes.  A subagent          *)
(* analysis of the same task logs through an EventLogger of its own, whose   *)
(* numbers collide with the executor's.                                      *)
(*                                                                          *)
(* A cached number is taken and inserted in one step here; EventLogger.tla   *)
(* has the steps in between.                                                 *)
(***************************************************************************)
EXTENDS Naturals, Sequences, FiniteSets

CONSTANTS
    Runs,         \* runs of the task whose plan has just completed
    Analyses,     \* POST /tasks/:id/subagents/analyze
    CallChoices,  \* tool calls of a run: how many succeeded, how many failed
    SkillChoices, \* its skill_id: "none", or a row that is "found" or "missing"
    MaxRoles,     \* bound: subagents of an analysis
    MaxFaults,    \* bound: database statements that fail
    MaxCancels,   \* bound: requests to cancel the task
    MaxCrashes    \* bound: crashes of the process

Calls == [ok : Nat, failed : Nat]
ASSUME CallsAssumption == CallChoices \subseteq Calls
ASSUME SkillsAssumption == SkillChoices \subseteq {"none", "found", "missing"}
ASSUME BoundsAssumption == {MaxRoles, MaxFaults, MaxCancels, MaxCrashes} \subseteq Nat

Loggers == {"executor", "subagents"}

VARIABLES
    task,      \* row of tasks: status, and whether result is the final one
    rows,      \* rows written for a run: <<table, run>>
    memories,  \* rows of memories with this source_task_id, per run, by type
    subagents, \* rows of subagents: <<analysis, number>>, all of them pending
    used,      \* sequence numbers in task_events, from the first event here on
    announced, \* those events: <<type, run or subagent>>
    cache,     \* _sequence_cache[task_id] of each logger
    warm,      \* the loggers that have an entry there
    pc,        \* next statement of each run
    run,       \* what each run knows: its calls, its skill
    request,   \* each analysis: next statement, subagents wanted, created
    cancel,    \* next statement of executor.cancel
    left       \* bounds not used up

logVars      == <<used, announced, cache, warm>>
rowVars      == <<task, rows, memories, subagents>>
runVars      == <<pc, run>>
finalizeVars == <<rowVars, logVars, runVars, request, cancel, left>>

FinalizeInit ==
    /\ task = [status |-> "running", result |-> FALSE]
    /\ rows = {} /\ subagents = {}
    /\ memories = [r \in Runs |-> <<>>]
    /\ used = {} /\ announced = {}
    /\ cache = [l \in Loggers |-> 0] /\ warm = {"executor"}
    /\ pc = [r \in Runs |-> "artifact"]
    /\ run \in [Runs -> [calls : CallChoices, skill : SkillChoices]]
    /\ request \in [Analyses -> [pc : {"begin"}, roles : 0..MaxRoles, n : {0}]]
    /\ cancel = "none"
    /\ left = [faults |-> MaxFaults, cancels |-> MaxCancels, crashes |-> MaxCrashes]

-----------------------------------------------------------------------------
(* The order of the statements *)

\* _finalize_execution; the statement after a log, and what the log says.
EventOf == [artifact_event  |-> "artifact.created",
            plan_event      |-> "rollback_plan.created",
            completed_event |-> "to completed",
            memory_event    |-> "memory.updated",
            eval_event      |-> "eval.completed",
            task_event      |-> "task.completed",
            failed_event    |-> "to failed",
            failure_event   |-> "task.failed"]

StatusOf == [completed_status |-> "completed", completed_update |-> "completed",
             failed_status    |-> "failed",    failed_update    |-> "failed"]

After == [artifact         |-> "artifact_event",  artifact_event   |-> "plan",
          plan             |-> "plan_event",      plan_event       |-> "completed_event",
          completed_event  |-> "completed_status",
          completed_status |-> "completed_update", completed_update |-> "memories",
          memories         |-> "memory_event",    memory_event     |-> "skill",
          skill            |-> "eval",            eval             |-> "eval_event",
          eval_event       |-> "task_event",      task_event       |-> "clear",
          clear            |-> "completed",
          failed_event     |-> "failed_status",   failed_status    |-> "failed_update",
          failed_update    |-> "failure_event",   failure_event    |-> "failed"]

Handler == {"failed_event", "failed_status", "failed_update", "failure_event"}
RunEnd  == {"completed", "failed", "escaped", "cancelled", "lost"}
RequestEnd == {"answered", "raised", "lost"}

Advances(r) == pc' = [pc EXCEPT ![r] = After[@]]

\* Mutant: no handler around the run.
EscapesAtOnce(r) == pc' = [pc EXCEPT ![r] = "escaped"]

\* An exception: of the run, to its handler; of the handler, to the client.
Raises(r) == pc' = [pc EXCEPT ![r] = IF @ \in Handler THEN "escaped" ELSE "failed_event"]

FaultUsed == left.faults > 0 /\ left' = [left EXCEPT !.faults = @ - 1]

-----------------------------------------------------------------------------
(* EventLogger.log: a logger with no entry loads MAX(sequence) first.  The    *)
(* cache moves on whatever becomes of the INSERT.                            *)

Newest    == IF used = {} THEN 0 ELSE CHOOSE m \in used : \A n \in used : n <= m
Number(l) == (IF l \in warm THEN cache[l] ELSE Newest) + 1

TakesNumber(l) == /\ cache' = [cache EXCEPT ![l] = Number(l)]
                  /\ warm' = warm \cup {l}

Logs(l, type, x) ==
    /\ TakesNumber(l)
    /\ Number(l) \notin used
    /\ used' = used \cup {Number(l)}
    /\ announced' = announced \cup {<<type, x>>}

\* UNIQUE(task_id, sequence) refuses a number the other logger has used.
Refused(l) ==
    /\ TakesNumber(l)
    /\ Number(l) \in used
    /\ UNCHANGED <<used, announced>>

LogFails(l) == TakesNumber(l) /\ FaultUsed /\ UNCHANGED <<used, announced>>

-----------------------------------------------------------------------------
(* The run *)

Log(r) ==
    /\ pc[r] \in DOMAIN EventOf
    /\ \/ Logs("executor", EventOf[pc[r]], r) /\ Advances(r) /\ UNCHANGED left
       \/ Refused("executor") /\ Raises(r) /\ UNCHANGED left
       \/ LogFails("executor") /\ Raises(r)
    /\ UNCHANGED <<rowVars, run, request, cancel>>

Inserts(r, table) ==
    /\ rows' = rows \cup {<<table, r>>}
    /\ Advances(r)
    /\ UNCHANGED <<task, memories, subagents, logVars, run, request, cancel, left>>

GenerateArtifact(r)   == pc[r] = "artifact" /\ Inserts(r, "artifacts")
CreateRollbackPlan(r) == pc[r] = "plan" /\ Inserts(r, "rollback_plans")
RecordEval(r)         == pc[r] = "eval" /\ Inserts(r, "eval_runs")

\* _update_task_status inside _transition, then _update_task, which also
\* writes the result: the final one, or {}.
WriteStatus(r) ==
    /\ pc[r] \in DOMAIN StatusOf
    /\ task' = [status |-> StatusOf[pc[r]],
                result |-> IF pc[r] = "completed_update" THEN TRUE
                           ELSE IF pc[r] = "failed_update" THEN FALSE
                           ELSE task.result]
    /\ Advances(r)
    /\ UNCHANGED <<rows, memories, subagents, logVars, run, request, cancel, left>>

\* The memories update_after_task makes of a run, in its order: what happened,
\* the tools and their success rate if there were any, a pitfall per failure.
MemoriesOf(r) ==
    LET c == run[r].calls
    IN  <<"episodic">>
        \o (IF c.ok + c.failed > 0 THEN <<"semantic", "performance">> ELSE <<>>)
        \o [i \in 1..c.failed |-> "procedural"]

\* Mutant: the loop over the failed calls stops one short.
CreateAllButLast(r) ==
    LET made == Len(memories[r])
    IN  /\ pc[r] = "memories"
        /\ memories' = [memories EXCEPT ![r] = Append(@, MemoriesOf(r)[made + 1])]
        /\ IF made + 2 >= Len(MemoriesOf(r)) THEN Advances(r) ELSE UNCHANGED pc
        /\ UNCHANGED <<task, rows, subagents, logVars, run, request, cancel, left>>

\* create_memory, each row committed by itself.  Its embedding is computed
\* after the row and swallows every exception.
CreateMemory(r) ==
    LET made == Len(memories[r])
    IN  /\ pc[r] = "memories"
        /\ memories' = [memories EXCEPT ![r] = Append(@, MemoriesOf(r)[made + 1])]
        /\ IF made + 1 = Len(MemoriesOf(r)) THEN Advances(r) ELSE UNCHANGED pc
        /\ UNCHANGED <<task, rows, subagents, logVars, run, request, cancel, left>>

NoSkill(r) ==
    /\ pc[r] = "skill" /\ run[r].skill = "none"
    /\ Advances(r)
    /\ UNCHANGED <<rowVars, run, logVars, request, cancel, left>>

\* Mutant: propose_update is tried until it succeeds.
RetriesUpdate(r) ==
    /\ pc[r] = "skill" /\ run[r].skill = "found"
    /\ UNCHANGED finalizeVars

\* propose_update of a skill that exists: a tool.result event has a text for
\* payload and payload.get raises; without one, the model's answer meets a
\* missing import, and so does the fallback the text of input_schema.
ProposeUpdate(r) ==
    /\ pc[r] = "skill" /\ run[r].skill = "found"
    /\ Raises(r)
    /\ UNCHANGED <<rowVars, run, logVars, request, cancel, left>>

\* Without the skill's row propose_update returns None, and extract_sop raises
\* at the memory.updated event just logged, whose payload is a text too.
ExtractSop(r) ==
    /\ pc[r] = "skill" /\ run[r].skill = "missing"
    /\ Raises(r)
    /\ UNCHANGED <<rowVars, run, logVars, request, cancel, left>>

ClearState(r) ==
    /\ pc[r] = "clear"
    /\ Advances(r)
    /\ UNCHANGED <<rowVars, run, logVars, request, cancel, left>>

\* Any statement but a log can fail; it has no effect then.
StatementFails(r) ==
    /\ pc[r] \in DOMAIN After \ DOMAIN EventOf
    /\ FaultUsed
    /\ Raises(r)
    /\ UNCHANGED <<rowVars, run, logVars, request, cancel>>

Run(r) == \/ Log(r) \/ WriteStatus(r) \/ ClearState(r)
          \/ GenerateArtifact(r) \/ CreateRollbackPlan(r) \/ RecordEval(r)
          \/ CreateMemory(r)
          \/ NoSkill(r) \/ ProposeUpdate(r) \/ ExtractSop(r)

-----------------------------------------------------------------------------
(* Subagents *)

Goes(a, where) == request' = [request EXCEPT ![a].pc = where]

\* Mutant: one subagent more than there are roles.
OneRoleMore(a) ==
    /\ request[a].pc = "begin"
    /\ Goes(a, IF request[a].n <= request[a].roles THEN "insert" ELSE "execute")
    /\ UNCHANGED <<rowVars, logVars, runVars, cancel, left>>

\* run_multi_perspective_analysis: create every subagent, then execute the
\* first; with no roles there is only the synthesis, which cannot raise.
NextRole(a) ==
    /\ request[a].pc = "begin"
    /\ Goes(a, IF request[a].n < request[a].roles THEN "insert"
               ELSE IF request[a].roles = 0 THEN "answered" ELSE "execute")
    /\ UNCHANGED <<rowVars, logVars, runVars, cancel, left>>

CreateSubagent(a) ==
    /\ request[a].pc = "insert"
    /\ subagents' = subagents \cup {<<a, request[a].n + 1>>}
    /\ request' = [request EXCEPT ![a].pc = "event", ![a].n = @ + 1]
    /\ UNCHANGED <<task, rows, memories, logVars, runVars, cancel, left>>

\* Mutant: a refused event is ignored and the next subagent created.
AnnounceOrSkip(a) ==
    LET log == Logs("subagents", "subagent.created", <<a, request[a].n>>)
    IN  /\ request[a].pc = "event"
        /\ \/ log /\ UNCHANGED left
           \/ Refused("subagents") /\ UNCHANGED left
           \/ LogFails("subagents")
        /\ Goes(a, "begin")
        /\ UNCHANGED <<rowVars, runVars, cancel>>

AnnounceSubagent(a) ==
    LET log == Logs("subagents", "subagent.created", <<a, request[a].n>>)
    IN  /\ request[a].pc = "event"
        /\ \/ log /\ Goes(a, "begin") /\ UNCHANGED left
           \/ Refused("subagents") /\ Goes(a, "raised") /\ UNCHANGED left
           \/ LogFails("subagents") /\ Goes(a, "raised")
        /\ UNCHANGED <<rowVars, runVars, cancel>>

\* execute_subagent reads the row, then uses the connection it has already
\* released: the UPDATE to running raises, outside the try, and the rows stay
\* as they were created.
ExecuteSubagent(a) ==
    /\ request[a].pc = "execute"
    /\ Goes(a, "raised")
    /\ UNCHANGED <<rowVars, logVars, runVars, cancel, left>>

AnalysisFails(a) ==
    /\ request[a].pc \in {"insert", "execute"}
    /\ FaultUsed
    /\ Goes(a, "raised")
    /\ UNCHANGED <<rowVars, logVars, runVars, cancel>>

Analysis(a) == NextRole(a) \/ CreateSubagent(a) \/ AnnounceSubagent(a) \/ ExecuteSubagent(a)

-----------------------------------------------------------------------------
(* Cancellation and crash *)

\* executor.cancel: the coroutine registered for the task, if one still runs,
\* gets CancelledError where it waits; status and event are written after.
CancelRequest ==
    /\ cancel = "none" /\ left.cancels > 0
    /\ left' = [left EXCEPT !.cancels = @ - 1]
    /\ \/ \E r \in Runs : /\ pc[r] \notin RunEnd
                          /\ pc' = [pc EXCEPT ![r] = "cancelled"]
       \/ (\A r \in Runs : pc[r] \in RunEnd) /\ UNCHANGED pc
    /\ cancel' = "status"
    /\ UNCHANGED <<rowVars, logVars, run, request>>

CancelWrites ==
    /\ cancel = "status"
    /\ task' = [task EXCEPT !.status = "cancelled"]
    /\ cancel' = "event"
    /\ UNCHANGED <<rows, memories, subagents, logVars, runVars, request, left>>

CancelLogs ==
    /\ cancel = "event"
    /\ \/ Logs("executor", "task.cancelled", "task") /\ UNCHANGED left
       \/ Refused("executor") /\ UNCHANGED left
       \/ LogFails("executor")
    /\ cancel' = "none"
    /\ UNCHANGED <<rowVars, runVars, request>>

Crash ==
    /\ left.crashes > 0
    /\ left' = [left EXCEPT !.crashes = @ - 1]
    /\ pc' = [r \in Runs |-> IF pc[r] \in RunEnd THEN pc[r] ELSE "lost"]
    /\ request' = [a \in Analyses |->
         IF \/ request[a].pc \in RequestEnd
            \/ request[a].pc = "begin" /\ request[a].n = 0
         THEN request[a] ELSE [request[a] EXCEPT !.pc = "lost"]]
    /\ cancel' = "none"
    /\ warm' = {}
    /\ UNCHANGED <<rowVars, used, announced, cache, run>>

FinalizeNext ==
    \/ \E r \in Runs : Run(r) \/ StatementFails(r)
    \/ \E a \in Analyses : Analysis(a) \/ AnalysisFails(a)
    \/ CancelRequest \/ CancelWrites \/ CancelLogs
    \/ Crash

\* Each coroutine goes on while the process lives: asyncio runs what is ready,
\* and the database is assumed to answer (the pool sets no command_timeout).
FinalizeFairness ==
    /\ \A r \in Runs : WF_finalizeVars(Run(r))
    /\ \A a \in Analyses : WF_finalizeVars(Analysis(a))
    /\ WF_finalizeVars(CancelWrites \/ CancelLogs)

FinalizeSpec == FinalizeInit /\ [][FinalizeNext]_finalizeVars /\ FinalizeFairness

-----------------------------------------------------------------------------
(* Properties *)

Statuses == {"running", "completed", "failed", "cancelled"}
MemoryTypes == {"episodic", "semantic", "performance", "procedural"}
RequestPC == {"begin", "insert", "event", "execute"} \cup RequestEnd

\* The values the variables may have.
FinalizeTypeOK ==
    /\ task \in [status : Statuses, result : BOOLEAN]
    /\ rows \subseteq {"artifacts", "rollback_plans", "eval_runs"} \X Runs
    /\ memories \in [Runs -> Seq(MemoryTypes)]
    /\ subagents \subseteq Analyses \X (1..MaxRoles)
    /\ used \subseteq Nat \ {0} /\ IsFiniteSet(used)
    /\ cache \in [Loggers -> Nat] /\ warm \subseteq Loggers
    /\ pc \in [Runs -> DOMAIN After \cup RunEnd]
    /\ run \in [Runs -> [calls : CallChoices, skill : SkillChoices]]
    /\ request \in [Analyses -> [pc : RequestPC, roles : 0..MaxRoles, n : 0..MaxRoles]]
    /\ cancel \in {"none", "status", "event"}
    /\ left \in [faults : 0..MaxFaults, cancels : 0..MaxCancels,
                 crashes : 0..MaxCrashes]

\* An event never tells of a row that is not there, through faults, refused
\* numbers, cancellation and crashes: replay, audit and the console read the
\* events and look the rows up.  task.completed tells of all of a run's rows,
\* a memory for each of its failed calls among them.
EventsTellOfRows ==
    /\ \A r \in Runs :
         /\ <<"artifact.created", r>> \in announced => <<"artifacts", r>> \in rows
         /\ <<"rollback_plan.created", r>> \in announced
              => <<"rollback_plans", r>> \in rows
         /\ <<"memory.updated", r>> \in announced => memories[r] = MemoriesOf(r)
         /\ <<"eval.completed", r>> \in announced => <<"eval_runs", r>> \in rows
         /\ <<"task.completed", r>> \in announced =>
              /\ {"artifacts", "rollback_plans", "eval_runs"} \X {r} \subseteq rows
              /\ memories[r] = MemoriesOf(r)
              /\ run[r].skill = "none"
    /\ \A a \in Analyses, n \in 1..MaxRoles :
         <<"subagent.created", <<a, n>>>> \in announced => <<a, n>> \in subagents

\* A task is not left running for ever by one exception, wherever it falls: it
\* takes a second one, inside the handler.  An event of a subagent can cause
\* one too, by taking a number of the executor's logger.
LeftRunningTakesTwo ==
    LET taken == {e \in announced : e[1] = "subagent.created"}
    IN  /\ \A r \in Runs : pc[r] \in {"completed", "failed", "escaped"}
        /\ left.cancels = MaxCancels
        /\ (MaxFaults - left.faults) + Cardinality(taken) < 2
        => task.status \in {"completed", "failed"}

\* create_subagent stops an analysis at the first event that is refused: at
\* most one of its rows has no event.
OneUnannounced ==
    \A a \in Analyses :
        Cardinality({n \in 1..MaxRoles :
            /\ <<a, n>> \in subagents
            /\ <<"subagent.created", <<a, n>>>> \notin announced}) <= 1

\* Every run ends and every analysis is answered, with a result or an error.
FinalizeEnds ==
    /\ \A r \in Runs : <>(pc[r] \in RunEnd)
    /\ \A a \in Analyses : <>(request[a].pc \in RequestEnd)

\* enterprise-agent-spec.md, line 50: every task that ends triggers the
\* memory update, the iteration of its skill and the evaluation.
AfterEveryRun ==
    \A r \in Runs : pc[r] \in {"completed", "failed", "escaped"} =>
        /\ memories[r] = MemoriesOf(r)
        /\ <<"eval_runs", r>> \in rows
=============================================================================
