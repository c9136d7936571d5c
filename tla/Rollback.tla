------------------------------ MODULE Rollback ------------------------------
(***************************************************************************)
(* Rollbacks of one task.  A request rolls back one plan                    *)
(* (POST /rollback-plans/:id/execute) or every plan of the task that is not *)
(* executed yet (POST /tasks/:id/rollback), or only previews one            *)
(* (.../dry-run).  execute_rollback keeps one connection of the pool for    *)
(* all of its statements, and the event logger borrows a second one for     *)
(* each event.                                                              *)
(*                                                                         *)
(* A step of a request is one await.  A connection that is taken and given  *)
(* back around a single statement only has to be there when it executes.    *)
(***************************************************************************)
EXTENDS Naturals, FiniteSets

CONSTANTS
    Requests,        \* rollback requests; each is made once
    Plans,           \* the rollback_plans rows of the task
    Kinds,           \* the routes the clients use: "plan", "task", "dry"
    ActorChoices,    \* values of "executed_by is the id of a user"
    StrategyChoices, \* values of rollback_plans.strategy
    PoolSize,        \* max_size of the connection pool
    MaxOpen,         \* bound: requests open at once
    MaxFaults, MaxCrashes
                     \* bounds: statements that raise, runtime crashes

ASSUME RequestsAssumption == IsFiniteSet(Requests) /\ IsFiniteSet(Plans)
ASSUME ChoiceAssumption ==
    /\ Kinds \subseteq {"plan", "task", "dry"}
    /\ ActorChoices \subseteq BOOLEAN
ASSUME PoolAssumption == PoolSize \in Nat \ {0} /\ MaxOpen \in Nat
ASSUME FaultAssumption == MaxFaults \in Nat /\ MaxCrashes \in Nat

VARIABLES
    \* PostgreSQL
    strategy,   \* rollback_plans.strategy, which no statement changes
    executed,   \* rollback_plans.executed
    record,     \* rollback_executions.status: of a request, for a plan
    task,       \* tasks.status: rolled_back, or what it was
    \* the runtime
    req,        \* the requests
    left,       \* what is left of the bounds
    alone       \* history: no other request was open while this one was

dbVars  == <<executed, record, task>>
history == <<strategy, alone>>
vars    == <<dbVars, history, req, left>>

\* The strategies whose function reads the plan's data first: plan is a JSONB
\* column, a text to asyncpg, and plan_data.get raises.  _manual_compensation,
\* for "composite", "none" and any other, does not read it.
ReadsPlan == {"reverse_sql", "revert_commit", "revert_document",
              "recall_message", "revert_skill", "restore_file"}

\* Where a request is, named for the await it is about to make.
\* In execute_rollback, before its try, in it, and in its except:
Before  == {"insert", "announce"}
Try     == {"complete", "mark", "roll", "report"}
Holding == Before \cup Try \cup {"failing", "preview"}
\* Outside execute_rollback:
Outside == {"select", "acquire", "transition", "transitioned"}
Answered == {"done", "raised"}
Ended   == Answered \cup {"lost"}
PC      == {"idle"} \cup Outside \cup Holding \cup Ended

\* todo: the plans still to roll back, the current one included.
Request == [pc : PC, todo : SUBSET Plans, user : BOOLEAN,
            kind : {"plan", "task", "dry"}]

Init ==
    /\ executed = [p \in Plans |-> FALSE]
    /\ record = [r \in Requests |-> [p \in Plans |-> "none"]]
    /\ task = "other"
    /\ strategy \in [Plans -> StrategyChoices]
    /\ alone = [r \in Requests |-> TRUE]
    /\ req = [r \in Requests |->
                [pc |-> "idle", todo |-> {}, user |-> FALSE, kind |-> "plan"]]
    /\ left = [faults |-> MaxFaults, crashes |-> MaxCrashes]

Open == {r \in Requests : req[r].pc \in PC \ ({"idle"} \cup Ended)}

\* The requests that keep a connection while they wait for another.
Holders == {r \in Requests : req[r].pc \in Holding}

\* The pool has a connection to lend.
Available == Cardinality(Holders) < PoolSize

Goto(r, label) == req' = [req EXCEPT ![r].pc = label]

-----------------------------------------------------------------------------
(* The routes, and TaskExecutor.execute_rollback around its plans *)

Ask(r) ==
    /\ req[r].pc = "idle" /\ Cardinality(Open) < MaxOpen
    /\ \E kind \in Kinds, user \in ActorChoices, p \in Plans :
         req' = [req EXCEPT ![r] =
                   [pc   |-> IF kind = "task" THEN "select" ELSE "acquire",
                    todo |-> IF kind = "task" THEN {} ELSE {p},
                    user |-> user, kind |-> kind]]
    /\ alone' = [s \in Requests |->
                   IF s = r THEN Open = {} ELSE alone[s] /\ s \notin Open]
    /\ UNCHANGED <<dbVars, strategy, left>>

\* Mutant: executed is not looked at.
SelectAllPlans(r) ==
    /\ req[r].pc = "select" /\ Available
    /\ req' = [req EXCEPT ![r].pc = "acquire", ![r].todo = Plans]
    /\ UNCHANGED <<dbVars, history, left>>

\* The plans of the task not executed yet; without any there is nothing to do.
SelectPlans(r) ==
    LET plans == {p \in Plans : ~executed[p]}
    IN  /\ req[r].pc = "select" /\ Available
        /\ req' = [req EXCEPT ![r].pc = IF plans = {} THEN "done" ELSE "acquire",
                              ![r].todo = plans]
        /\ UNCHANGED <<dbVars, history, left>>

\* After execute_rollback returned, whatever it returned.
Return(r, p) ==
    LET rest == req[r].todo \ {p}
    IN  req' = [req EXCEPT ![r].todo = rest,
                           ![r].pc = IF rest # {} THEN "acquire"
                                     ELSE IF req[r].kind = "task" THEN "transition"
                                     ELSE "done"]

\* _transition: the event, then the status.
Transition(r) ==
    /\ req[r].pc = "transition" /\ Available
    /\ Goto(r, "transitioned")
    /\ UNCHANGED <<dbVars, history, left>>

WriteRolledBack(r) ==
    /\ req[r].pc = "transitioned" /\ Available
    /\ task' = "rolled_back"
    /\ Goto(r, "done")
    /\ UNCHANGED <<executed, record, history, left>>

-----------------------------------------------------------------------------
(* RollbackService.execute_rollback and dry_run_rollback *)

\* The plan that is rolled back; the first request to have several takes them
\* in any order, and stays with the one it began.
Current(r, p) ==
    /\ p \in req[r].todo
    /\ \A q \in req[r].todo : record[r][q] = "running" => q = p

AcquireConnection(r) ==
    /\ req[r].pc = "acquire" /\ Available
    /\ Goto(r, IF req[r].kind = "dry" THEN "preview" ELSE "insert")
    /\ UNCHANGED <<dbVars, history, left>>

\* dry_run_rollback only reads; it reads the plan's data too.
Preview(r, p) ==
    /\ req[r].pc = "preview" /\ p \in req[r].todo
    /\ req' = [req EXCEPT ![r].todo = {},
                 ![r].pc = IF strategy[p] \in ReadsPlan THEN "raised" ELSE "done"]
    /\ UNCHANGED <<dbVars, history, left>>

CreateExecution(r, p) ==
    /\ req[r].pc = "insert" /\ Current(r, p)
    /\ record' = [record EXCEPT ![r][p] = "running"]
    /\ Goto(r, "announce")
    /\ UNCHANGED <<executed, task, history, left>>

\* The rollback.executed event, then the strategy, which may raise.
RunStrategy(r, p) ==
    /\ req[r].pc = "announce" /\ Available /\ Current(r, p)
    /\ Goto(r, IF strategy[p] \in ReadsPlan THEN "failing" ELSE "complete")
    /\ UNCHANGED <<dbVars, history, left>>

\* Mutant: the plan is marked before the execution is completed.
MarkFirst(r, p) ==
    /\ req[r].pc = "complete" /\ Current(r, p)
    /\ IF executed[p]
       THEN /\ record' = [record EXCEPT ![r][p] = "completed"]
            /\ Goto(r, "mark")
            /\ UNCHANGED executed
       ELSE /\ executed' = [executed EXCEPT ![p] = TRUE]
            /\ UNCHANGED <<record, req>>
    /\ UNCHANGED <<task, history, left>>

\* Mutant: the task is updated before the plan is marked.
CompleteAndRoll(r, p) ==
    /\ req[r].pc = "complete" /\ Current(r, p) /\ req[r].user
    /\ record' = [record EXCEPT ![r][p] = "completed"]
    /\ task' = "rolled_back"
    /\ Goto(r, "mark")
    /\ UNCHANGED <<executed, history, left>>

\* executed_by is a column of type UUID that references users.
CompleteExecution(r, p) ==
    /\ req[r].pc = "complete" /\ Current(r, p)
    /\ IF req[r].user
       THEN /\ record' = [record EXCEPT ![r][p] = "completed"]
            /\ Goto(r, "mark")
       ELSE /\ Goto(r, "failing")
            /\ UNCHANGED record
    /\ UNCHANGED <<executed, task, history, left>>

\* From here on the plan of the execution is the completed one.
Completed(r, p) == p \in req[r].todo /\ record[r][p] = "completed"

MarkExecuted(r, p) ==
    /\ req[r].pc = "mark" /\ Completed(r, p)
    /\ executed' = [executed EXCEPT ![p] = TRUE]
    /\ Goto(r, "roll")
    /\ UNCHANGED <<record, task, history, left>>

UpdateTask(r) ==
    /\ req[r].pc = "roll"
    /\ task' = "rolled_back"
    /\ Goto(r, "report")
    /\ UNCHANGED <<executed, record, history, left>>

\* The task.state_changed event, and the return.
Report(r, p) ==
    /\ req[r].pc = "report" /\ Available /\ Completed(r, p)
    /\ Return(r, p)
    /\ UNCHANGED <<dbVars, history, left>>

\* Mutant: the except clause writes a status of its own.
FailUnknown(r, p) ==
    /\ req[r].pc = "failing" /\ p \in req[r].todo
    /\ record[r][p] \in {"running", "completed"}
    /\ record' = [record EXCEPT ![r][p] = "error"]
    /\ Return(r, p)
    /\ UNCHANGED <<executed, task, history, left>>

\* Mutant: the except clause answers without updating the execution.
FailSilently(r, p) ==
    /\ req[r].pc = "failing" /\ p \in req[r].todo
    /\ record[r][p] \in {"running", "completed"}
    /\ Return(r, p)
    /\ UNCHANGED <<dbVars, history, left>>

\* Mutant: the except clause tries the strategy again.
FailTriesAgain(r, p) ==
    /\ req[r].pc = "failing" /\ Current(r, p)
    /\ Goto(r, "announce")
    /\ UNCHANGED <<dbVars, history, left>>

\* The except clause: it may have been reached after the execution completed.
FailExecution(r, p) ==
    /\ req[r].pc = "failing" /\ p \in req[r].todo
    /\ record[r][p] \in {"running", "completed"}
    /\ IF req[r].user
       THEN /\ record' = [record EXCEPT ![r][p] = "failed"]
            /\ Return(r, p)
       ELSE /\ Goto(r, "raised")
            /\ UNCHANGED record
    /\ UNCHANGED <<executed, task, history, left>>

-----------------------------------------------------------------------------
(* A statement raises (the database, or a refused event number), the runtime *)
(* crashes: nothing looks at the executions it left behind.                  *)

Fault(r) ==
    /\ left.faults > 0 /\ req[r].pc \in PC \ ({"idle"} \cup Ended)
    /\ left' = [left EXCEPT !.faults = @ - 1]
    /\ Goto(r, IF req[r].pc \in Try THEN "failing" ELSE "raised")
    /\ UNCHANGED <<dbVars, history>>

Crash ==
    /\ left.crashes > 0
    /\ left' = [left EXCEPT !.crashes = @ - 1]
    /\ req' = [r \in Requests |->
                 IF r \in Open THEN [req[r] EXCEPT !.pc = "lost"]
                               ELSE req[r]]
    /\ UNCHANGED <<dbVars, history>>

-----------------------------------------------------------------------------

Step(r) ==
    \/ SelectPlans(r) \/ Transition(r) \/ WriteRolledBack(r)
    \/ AcquireConnection(r) \/ UpdateTask(r)
    \/ \E p \in Plans :
         \/ Preview(r, p)
         \/ CreateExecution(r, p) \/ RunStrategy(r, p)
         \/ CompleteExecution(r, p) \/ MarkExecuted(r, p)
         \/ Report(r, p) \/ FailExecution(r, p)

Next == (\E r \in Requests : Ask(r) \/ Step(r) \/ Fault(r)) \/ Crash

Spec == Init /\ [][Next]_vars

\* The database answers, and the pool serves its waiters.
FairSpec == Spec /\ \A r \in Requests : WF_vars(Step(r))

-----------------------------------------------------------------------------
(* Properties *)

TypeOK ==
    /\ executed \in [Plans -> BOOLEAN]
    /\ record \in [Requests ->
                     [Plans -> {"none", "running", "completed", "failed"}]]
    /\ task \in {"other", "rolled_back"}
    /\ strategy \in [Plans -> StrategyChoices]
    /\ alone \in [Requests -> BOOLEAN]
    /\ req \in [Requests -> Request]
    /\ left \in [faults : 0..MaxFaults, crashes : 0..MaxCrashes]

\* As long as no statement raises, a plan marked executed has the execution
\* that carried it out in rollback_executions (execute_rollback's two updates,
\* and its except clause), whatever other requests and crashes do.
ExecutedIsRecorded ==
    left.faults = MaxFaults =>
        \A p \in Plans : executed[p] =>
            \E r \in Requests : record[r][p] = "completed"

\* As long as no statement raises, an execution whose request was answered is
\* not left running: whatever the strategy does, one of the two updates ends it.
RecordsSettled ==
    left.faults = MaxFaults =>
        \A r \in Requests, p \in Plans :
            req[r].pc \in Answered => record[r][p] # "running"

\* A task shown as rolled back has a plan that was carried out, unless a
\* task-level rollback ended: that one moves the task when all its plans failed.
RolledBackIsExecuted ==
    task = "rolled_back" =>
        \/ \E p \in Plans : executed[p]
        \/ \E r \in Requests : req[r].kind = "task" /\ req[r].pc = "done"

\* Task-level rollbacks carry out a plan at most once when no other rollback is
\* open while they are (the filter on executed when the plans are selected),
\* even if one statement raises: an execution whose plan could not be marked
\* is written failed.  A crash between the two updates can repeat it.
CarriedOutOnce ==
    left.crashes = MaxCrashes =>
        \A p \in Plans :
            Cardinality({r \in Requests : /\ req[r].kind = "task" /\ alone[r]
                                          /\ record[r][p] = "completed"}) < 2

\* The pool can lend a connection: no set of rollbacks keeps all of them while
\* each waits for one more (execute_rollback and EventLogger.log).
ConnectionLeft == Available

\* A rollback request is answered.
RequestsEnd ==
    \A r \in Requests : req[r].pc # "idle" ~> req[r].pc \in Ended
=============================================================================
