--------------------------- MODULE TaskRunProofs ---------------------------
(***************************************************************************)
(* Theorems about TaskRun, for any number of coroutines, plans and steps    *)
(* and any clients.                                                        *)
(***************************************************************************)
EXTENDS TaskRun, TLAPS

TypeInv == TypeOK /\ ControlOK

LEMMA ConstantFacts ==
    /\ NoRun \notin Runs
    /\ MaxPlans \in Nat \ {0} /\ NSteps \in Nat \ {0}
    /\ GateChoices \subseteq BOOLEAN
    /\ MaxFaults \in Nat /\ MaxCrashes \in Nat /\ MaxPauses \in Nat
BY RunsAssumption, SizeAssumption, ClientAssumption, BudgetAssumption

LEMMA IdleFacts ==
    /\ Idle \in RunState
    /\ Idle.pc = "idle" /\ Idle.at = None
    /\ Stopping \in RunState
    /\ Stopping.pc = "stopping" /\ Stopping.at = None
    /\ "idle" \notin WithPlan /\ "stopping" \notin WithPlan
BY DEF Idle, Stopping, RunState, PC, WithPlan, TryPC

LEMMA InitTyped == Init => TypeInv
<1> SUFFICES ASSUME Init PROVE TypeInv
  OBVIOUS
<1>1. run \in [Runs -> RunState] /\ ControlOK
  BY IdleFacts DEF Init, ControlOK
<1>2. status \in Statuses /\ saved \in Seq(Cursor) /\ pending \in Cursor \cup {None}
  BY DEF Init, Statuses
<1>3. approval \in [Plans -> Resolutions \cup {"none"}] /\ gated \in [Plans -> BOOLEAN]
  BY DEF Init
<1>4. done \in [Plans -> [Steps -> 0..2]] /\ nplans \in 0..MaxPlans
  BY ConstantFacts DEF Init
<1>5. left \in [faults : Nat, crashes : Nat, pauses : Nat]
  BY ConstantFacts DEF Init
<1> QED
  BY <1>1, <1>2, <1>3, <1>4, <1>5 DEF TypeInv, TypeOK, Init

\* What changing one coroutine needs in order to keep the types.
LEMMA RunUpdate ==
    ASSUME TypeInv, NEW r \in Runs, NEW c \in RunState,
           run' = [run EXCEPT ![r] = c],
           c.pc \in WithPlan => c.at \in Cursor,
           c.pc \in {"tool", "retry"} => c.at.step < NSteps,
           c.pc = "complete" => c.at.step = NSteps
    PROVE  run' \in [Runs -> RunState] /\ ControlOK'
BY DEF TypeInv, TypeOK, ControlOK

\* The instances of it the actions use.
LEMMA GotoTyped ==
    ASSUME TypeInv, NEW r \in Runs, NEW label \in PC, Goto(r, label),
           label \in WithPlan => run[r].pc \in WithPlan,
           label \in {"tool", "retry"} => run[r].at.step < NSteps,
           label = "complete" => run[r].at.step = NSteps
    PROVE  run' \in [Runs -> RunState] /\ ControlOK'
<1> DEFINE c == [run[r] EXCEPT !.pc = label]
<1>1. run[r] \in RunState
  BY DEF TypeInv, TypeOK
<1>2. c \in RunState /\ c.pc = label /\ c.at = run[r].at
  BY <1>1 DEF RunState
<1>3. run' = [run EXCEPT ![r] = c]
  BY DEF Goto
<1>4. label \in WithPlan => c.at \in Cursor
  BY <1>2 DEF TypeInv, ControlOK
<1> HIDE DEF c
<1> QED
  BY <1>2, <1>3, <1>4, RunUpdate

LEMMA FinishTyped ==
    ASSUME TypeInv, NEW r \in Runs, run' = [run EXCEPT ![r] = Idle]
    PROVE  run' \in [Runs -> RunState] /\ ControlOK'
BY IdleFacts, RunUpdate

LEMMA EnterTyped ==
    ASSUME TypeInv, NEW r \in Runs, NEW row \in BOOLEAN, Enter(r, row)
    PROVE  /\ run' \in [Runs -> RunState] /\ ControlOK'
           /\ pending' \in Cursor \cup {None}
           /\ running' \in Runs \cup {NoRun}
<1>1. CASE pending # None
  <2> DEFINE c == [pc |-> "resume", at |-> pending, row |-> row]
  <2>1. pending \in Cursor
    BY <1>1 DEF TypeInv, TypeOK
  <2>2. c \in RunState /\ c.pc = "resume" /\ c.at = pending
    BY <2>1 DEF RunState, PC
  <2>3. run' = [run EXCEPT ![r] = c] /\ pending' = None /\ running' = r
    BY <1>1 DEF Enter
  <2> HIDE DEF c
  <2> QED
    BY <2>1, <2>2, <2>3, RunUpdate
<1>2. CASE pending = None
  <2> DEFINE c == [pc |-> "load", at |-> None, row |-> row]
  <2>1. c \in RunState /\ c.pc = "load"
    BY DEF RunState, PC
  <2>2. run' = [run EXCEPT ![r] = c] /\ UNCHANGED <<pending, running>>
    BY <1>2 DEF Enter
  <2>3. "load" \notin WithPlan
    BY DEF WithPlan
  <2> HIDE DEF c
  <2> QED
    BY <2>1, <2>2, <2>3, RunUpdate DEF TypeInv, TypeOK
<1> QED
  BY <1>1, <1>2

LEMMA LabelFacts ==
    /\ WithPlan \subseteq PC /\ TryPC \subseteq PC
    /\ {"idle", "posted", "load", "planning", "generate", "handler", "handled",
     "stopping"} \subseteq PC
    /\ \A l \in {"idle", "posted", "load", "planning", "generate", "handler",
                 "handled", "stopping"} : l \notin WithPlan
    /\ {"resume", "gate", "saveDelete", "saveInsert", "record", "lastLog",
        "start", "check", "pauseDelete", "pauseInsert", "pausedWrite", "tool",
        "retry", "failing", "cancelled", "complete", "clear"} = WithPlan
BY DEF PC, TryPC, WithPlan

-----------------------------------------------------------------------------
(* Every action keeps the types. *)

LEMMA StartTyped ==
    ASSUME TypeInv, NEW r \in Runs,
           \/ Execute(r) \/ ExecuteArrives(r) \/ ExecuteUnreachable(r)
           \/ Resume(r) \/ ResumeCall(r)
    PROVE  TypeInv'
<1>1. CASE Execute(r)
  <2>1. run' \in [Runs -> RunState] /\ ControlOK'
    BY <1>1, GotoTyped, LabelFacts DEF Execute
  <2> QED
    BY <1>1, <2>1 DEF Execute, TypeInv, TypeOK, dbVars, memVars, planVars, Statuses
<1>2. CASE ExecuteArrives(r)
  <2>1. /\ run' \in [Runs -> RunState] /\ ControlOK'
        /\ pending' \in Cursor \cup {None} /\ running' \in Runs \cup {NoRun}
    BY <1>2, EnterTyped DEF ExecuteArrives
  <2> QED
    BY <1>2, <2>1 DEF ExecuteArrives, TypeInv, TypeOK, dbVars, planVars
<1>3. CASE ExecuteUnreachable(r)
  <2>1. run' \in [Runs -> RunState] /\ ControlOK'
    BY <1>3, FinishTyped DEF ExecuteUnreachable
  <2> QED
    BY <1>3, <2>1
       DEF ExecuteUnreachable, TypeInv, TypeOK, memVars, planVars, Statuses
<1>4. CASE Resume(r)
  <2>1. /\ run' \in [Runs -> RunState] /\ ControlOK'
        /\ pending' \in Cursor \cup {None} /\ running' \in Runs \cup {NoRun}
    BY <1>4, EnterTyped DEF Resume
  <2> QED
    BY <1>4, <2>1 DEF Resume, TypeInv, TypeOK, dbVars, planVars
<1>5. CASE ResumeCall(r)
  <2>1. /\ run' \in [Runs -> RunState] /\ ControlOK'
        /\ pending' \in Cursor \cup {None} /\ running' \in Runs \cup {NoRun}
    BY <1>5, EnterTyped DEF ResumeCall
  <2> QED
    BY <1>5, <2>1 DEF ResumeCall, TypeInv, TypeOK, dbVars, planVars
<1> QED
  BY <1>1, <1>2, <1>3, <1>4, <1>5

LEMMA PlanTyped ==
    ASSUME TypeInv, NEW r \in Runs,
           \/ Load(r) \/ BeginPlanning(r) \/ GeneratePlan(r)
           \/ GeneratePlanRaises(r) \/ StartRunning(r) \/ ResumeWithState(r)
    PROVE  TypeInv'
<1>1. CASE Load(r)
  <2>1. CASE saved = <<>>
    <3>1. run' \in [Runs -> RunState] /\ ControlOK'
      BY <1>1, <2>1, GotoTyped, LabelFacts DEF Load
    <3> QED
      BY <1>1, <3>1 DEF Load, TypeInv, TypeOK, dbVars, planVars
  <2>2. CASE saved # <<>>
    <3> DEFINE c == [run[r] EXCEPT !.pc = "resume", !.at = saved[Len(saved)]]
    <3>1. saved[Len(saved)] \in Cursor
      BY <2>2 DEF TypeInv, TypeOK
    <3>2. run[r] \in RunState /\ "resume" \in PC
      BY LabelFacts DEF TypeInv, TypeOK
    <3>3. c \in RunState /\ c.pc = "resume" /\ c.at = saved[Len(saved)]
      BY <3>1, <3>2 DEF RunState
    <3>4. run' = [run EXCEPT ![r] = c]
      BY <1>1, <2>2 DEF Load
    <3> HIDE DEF c
    <3>5. run' \in [Runs -> RunState] /\ ControlOK'
      BY <3>1, <3>3, <3>4, RunUpdate
    <3> QED
      BY <1>1, <3>5 DEF Load, TypeInv, TypeOK, dbVars, planVars
  <2> QED
    BY <2>1, <2>2
<1>2. CASE BeginPlanning(r)
  <2>1. run' \in [Runs -> RunState] /\ ControlOK'
    BY <1>2, GotoTyped, LabelFacts DEF BeginPlanning
  <2> QED
    BY <1>2, <2>1 DEF BeginPlanning, TypeInv, TypeOK, dbVars, memVars, planVars, Statuses
<1>3. CASE GeneratePlan(r)
  <2>1. PICK g \in GateChoices :
           /\ gated' = [gated EXCEPT ![nplans + 1] = g]
           /\ run' = [run EXCEPT ![r].pc = IF g THEN "gate" ELSE "start",
                                 ![r].at = [plan |-> nplans + 1, step |-> 0]]
    BY <1>3 DEF GeneratePlan
  <2> DEFINE c == [run[r] EXCEPT !.pc = IF g THEN "gate" ELSE "start",
                                 !.at = [plan |-> nplans + 1, step |-> 0]]
  <2>2. nplans + 1 \in Plans /\ g \in BOOLEAN
    <3>1. nplans \in 0..MaxPlans /\ nplans < MaxPlans
      BY <1>3 DEF GeneratePlan, TypeInv, TypeOK
    <3> QED
      BY <3>1, ConstantFacts DEF Plans
  <2>3. [plan |-> nplans + 1, step |-> 0] \in Cursor
    BY <2>2, ConstantFacts DEF Cursor
  <2>4. run[r] \in RunState /\ {"gate", "start"} \subseteq PC
    BY LabelFacts DEF TypeInv, TypeOK
  <2>5. /\ c \in RunState /\ c.at = [plan |-> nplans + 1, step |-> 0]
        /\ c.pc \in {"gate", "start"}
    BY <2>3, <2>4 DEF RunState
  <2>6. run' = [run EXCEPT ![r] = c]
    BY <2>1
  <2> HIDE DEF c
  <2>7. run' \in [Runs -> RunState] /\ ControlOK'
    BY <2>3, <2>5, <2>6, RunUpdate
  <2>8. gated' \in [Plans -> BOOLEAN] /\ nplans' \in 0..MaxPlans
    <3>1. gated \in [Plans -> BOOLEAN] /\ nplans' = nplans + 1
      BY <1>3 DEF GeneratePlan, TypeInv, TypeOK
    <3>2. nplans' \in 0..MaxPlans
      BY <2>2, <3>1, ConstantFacts DEF Plans
    <3> QED
      BY <2>1, <2>2, <3>1, <3>2
  <2>9. UNCHANGED <<dbVars, memVars, inflight, done, left>>
    BY <1>3 DEF GeneratePlan
  <2> QED
    BY <2>7, <2>8, <2>9 DEF TypeInv, TypeOK, dbVars, memVars
<1>4. CASE GeneratePlanRaises(r)
  <2>1. run' \in [Runs -> RunState] /\ ControlOK'
    BY <1>4, GotoTyped, LabelFacts DEF GeneratePlanRaises
  <2> QED
    BY <1>4, <2>1 DEF GeneratePlanRaises, TypeInv, TypeOK, dbVars, memVars, planVars, Statuses
<1>5. CASE StartRunning(r)
  <2>1. run' \in [Runs -> RunState] /\ ControlOK'
    BY <1>5, GotoTyped, LabelFacts DEF StartRunning
  <2> QED
    BY <1>5, <2>1 DEF StartRunning, TypeInv, TypeOK, dbVars, memVars, planVars, Statuses
<1>6. CASE ResumeWithState(r)
  <2>1. run' \in [Runs -> RunState] /\ ControlOK'
    BY <1>6, GotoTyped, LabelFacts DEF ResumeWithState
  <2> QED
    BY <1>6, <2>1 DEF ResumeWithState, TypeInv, TypeOK, dbVars, memVars, planVars, Statuses
<1> QED
  BY <1>1, <1>2, <1>3, <1>4, <1>5, <1>6

LEMMA GateTyped ==
    ASSUME TypeInv, NEW r \in Runs,
           \/ AwaitApproval(r) \/ SaveDelete(r) \/ SavePlanState(r)
           \/ CreateApprovalRecord(r) \/ ReturnLogged(r)
    PROVE  TypeInv'
<1>1. CASE AwaitApproval(r)
  <2>1. run' \in [Runs -> RunState] /\ ControlOK'
    BY <1>1, GotoTyped, LabelFacts DEF AwaitApproval
  <2> QED
    BY <1>1, <2>1 DEF AwaitApproval, TypeInv, TypeOK, dbVars, memVars, planVars, Statuses
<1>2. CASE SaveDelete(r)
  <2>1. run' \in [Runs -> RunState] /\ ControlOK'
    BY <1>2, GotoTyped, LabelFacts DEF SaveDelete
  <2>2. saved' \in Seq(Cursor)
    BY <1>2 DEF SaveDelete
  <2> QED
    BY <1>2, <2>1, <2>2 DEF SaveDelete, TypeInv, TypeOK, memVars, planVars
<1>3. CASE SavePlanState(r)
  <2>1. run' \in [Runs -> RunState] /\ ControlOK'
    BY <1>3, GotoTyped, LabelFacts DEF SavePlanState
  <2>2. run[r].at \in Cursor
    BY <1>3, LabelFacts DEF SavePlanState, TypeInv, ControlOK
  <2>3. saved' \in Seq(Cursor) /\ pending' \in Cursor
    BY <1>3, <2>2 DEF SavePlanState, TypeInv, TypeOK
  <2> QED
    BY <1>3, <2>1, <2>3 DEF SavePlanState, TypeInv, TypeOK, planVars
<1>4. CASE CreateApprovalRecord(r)
  <2>1. run' \in [Runs -> RunState] /\ ControlOK'
    BY <1>4, GotoTyped, LabelFacts DEF CreateApprovalRecord
  <2> QED
    BY <1>4, <2>1
       DEF CreateApprovalRecord, TypeInv, TypeOK, memVars, planVars, Resolutions
<1>5. CASE ReturnLogged(r)
  <2>1. run' \in [Runs -> RunState] /\ ControlOK'
    BY <1>5, FinishTyped DEF ReturnLogged, Finish
  <2> QED
    BY <1>5, <2>1 DEF ReturnLogged, Finish, TypeInv, TypeOK, dbVars, planVars
<1> QED
  BY <1>1, <1>2, <1>3, <1>4, <1>5

LEMMA ExecuteTyped ==
    ASSUME TypeInv, NEW r \in Runs,
           \/ CheckStep(r) \/ SavePausedState(r) \/ ToolSucceeds(r)
           \/ ToolFails(r)
    PROVE  TypeInv'
<1>1. CASE CheckStep(r)
  <2>1. run[r].at \in Cursor
    BY <1>1, LabelFacts DEF CheckStep, TypeInv, ControlOK
  <2>2. run[r].at.step \in 0..NSteps
    BY <2>1 DEF Cursor
  <2>3. run[r].at.step # NSteps => run[r].at.step < NSteps
    BY <2>2, ConstantFacts
  <2>4. run' \in [Runs -> RunState] /\ ControlOK'
    BY <1>1, <2>3, GotoTyped, LabelFacts DEF CheckStep
  <2> QED
    BY <1>1, <2>4 DEF CheckStep, TypeInv, TypeOK, dbVars, memVars, planVars
<1>2. CASE SavePausedState(r)
  <2>1. run' \in [Runs -> RunState] /\ ControlOK'
    BY <1>2, GotoTyped, LabelFacts DEF SavePausedState
  <2>2. run[r].at \in Cursor
    BY <1>2, LabelFacts DEF SavePausedState, TypeInv, ControlOK
  <2>3. saved' \in Seq(Cursor)
    BY <1>2, <2>2 DEF SavePausedState, TypeInv, TypeOK
  <2> QED
    BY <1>2, <2>1, <2>3 DEF SavePausedState, TypeInv, TypeOK, memVars, planVars
<1>3. CASE ToolSucceeds(r)
  <2> DEFINE p == run[r].at.plan
             s == run[r].at.step + 1
             c == [run[r] EXCEPT !.pc = "check", !.at.step = s]
  <2>1. run[r].at \in Cursor /\ run[r].at.step < NSteps
    BY <1>3, LabelFacts DEF ToolSucceeds, TypeInv, ControlOK
  <2>2. p \in Plans /\ s \in Steps /\ s \in 0..NSteps
    BY <2>1, ConstantFacts DEF Cursor, Steps
  <2>3. run[r] \in RunState /\ "check" \in PC
    BY LabelFacts DEF TypeInv, TypeOK
  <2>4. [run[r].at EXCEPT !.step = s] \in Cursor
    BY <2>1, <2>2 DEF Cursor
  <2>5. c = [[run[r] EXCEPT !.pc = "check"] EXCEPT !.at = [run[r].at EXCEPT !.step = s]]
    BY <2>3 DEF RunState
  <2>6. c \in RunState /\ c.pc = "check" /\ c.at \in Cursor
    BY <2>3, <2>4, <2>5 DEF RunState
  <2>7. run' = [run EXCEPT ![r] = c]
    BY <1>3 DEF ToolSucceeds
  <2> HIDE DEF c
  <2>8. run' \in [Runs -> RunState] /\ ControlOK'
    BY <2>6, <2>7, RunUpdate
  <2>9. done' \in [Plans -> [Steps -> 0..2]]
    <3> DEFINE n == IF done[p][s] = 2 THEN 2 ELSE done[p][s] + 1
    <3>1. done \in [Plans -> [Steps -> 0..2]]
      BY DEF TypeInv, TypeOK
    <3>2. n \in 0..2
      BY <2>2, <3>1
    <3>3. done' = [done EXCEPT ![p][s] = n]
      BY <1>3 DEF ToolSucceeds
    <3> HIDE DEF n, p, s
    <3> QED
      BY <2>2, <3>1, <3>2, <3>3
  <2>10. UNCHANGED <<dbVars, memVars, inflight, nplans, gated, left>>
    BY <1>3 DEF ToolSucceeds
  <2> HIDE DEF p, s
  <2> QED
    BY <2>8, <2>9, <2>10 DEF TypeInv, TypeOK, dbVars, memVars
<1>4. CASE ToolFails(r)
  <2>1. run[r].pc = "tool" => run[r].at.step < NSteps
    BY DEF TypeInv, ControlOK
  <2>2. run' \in [Runs -> RunState] /\ ControlOK'
    BY <1>4, <2>1, GotoTyped, LabelFacts DEF ToolFails
  <2> QED
    BY <1>4, <2>2 DEF ToolFails, TypeInv, TypeOK, dbVars, memVars, planVars
<1> QED
  BY <1>1, <1>2, <1>3, <1>4

LEMMA EndTyped ==
    ASSUME TypeInv, NEW r \in Runs,
           \/ FinalizePaused(r) \/ FinalizeStatus(r) \/ ClearState(r)
           \/ Handler(r) \/ Stop(r) \/ Fault(r)
    PROVE  TypeInv'
<1>1. CASE FinalizePaused(r)
  <2>1. run' \in [Runs -> RunState] /\ ControlOK'
    BY <1>1, GotoTyped, LabelFacts DEF FinalizePaused
  <2> QED
    BY <1>1, <2>1
       DEF FinalizePaused, TypeInv, TypeOK, dbVars, memVars, planVars, Statuses
<1>2. CASE FinalizeStatus(r)
  <2>1. run' \in [Runs -> RunState] /\ ControlOK'
    BY <1>2, GotoTyped, LabelFacts DEF FinalizeStatus
  <2>2. status' \in Statuses
    BY <1>2 DEF FinalizeStatus, FinalStatus, Statuses
  <2> QED
    BY <1>2, <2>1, <2>2 DEF FinalizeStatus, TypeInv, TypeOK, memVars, planVars
<1>3. CASE ClearState(r)
  <2>1. run' \in [Runs -> RunState] /\ ControlOK'
    BY <1>3, FinishTyped DEF ClearState, Finish
  <2>2. saved' \in Seq(Cursor)
    BY <1>3 DEF ClearState
  <2> QED
    BY <1>3, <2>1, <2>2 DEF ClearState, Finish, TypeInv, TypeOK, planVars
<1>4. CASE Handler(r)
  <2>1. run' \in [Runs -> RunState] /\ ControlOK'
    BY <1>4, GotoTyped, LabelFacts DEF Handler
  <2> QED
    BY <1>4, <2>1
       DEF Handler, Finish, TypeInv, TypeOK, dbVars, memVars, planVars, Statuses
<1>5. CASE Fault(r)
  <2>1. left' \in [faults : Nat, crashes : Nat, pauses : Nat]
    <3>1. left.faults > 0 /\ left' = [left EXCEPT !.faults = @ - 1]
      BY <1>5 DEF Fault, FaultCaught, FaultEscapes, FaultInLoad
    <3>2. left \in [faults : Nat, crashes : Nat, pauses : Nat]
      BY DEF TypeInv, TypeOK
    <3>3. left.faults \in Nat /\ left.faults - 1 \in Nat
      BY <3>1, <3>2
    <3> QED
      BY <3>1, <3>2, <3>3
  <2>2. run' \in [Runs -> RunState] /\ ControlOK'
    BY <1>5, GotoTyped, FinishTyped, LabelFacts
       DEF Fault, FaultCaught, FaultEscapes, FaultInLoad, Finish
  <2>3. UNCHANGED <<saved, approval, pending, paused, up, inflight, planVars>>
    BY <1>5 DEF Fault, FaultCaught, FaultEscapes, FaultInLoad, dbVars, memVars
  <2>5. status' \in Statuses
    BY <1>5 DEF Fault, FaultCaught, FaultEscapes, FaultInLoad, dbVars, Statuses,
                TypeInv, TypeOK
  <2>4. running' \in Runs \cup {NoRun}
    BY <1>5 DEF Fault, FaultCaught, FaultEscapes, FaultInLoad, Finish, memVars,
                TypeInv, TypeOK
  <2> QED
    BY <2>1, <2>2, <2>3, <2>4, <2>5 DEF TypeInv, TypeOK, planVars
<1>6. CASE Stop(r)
  <2>1. run' \in [Runs -> RunState] /\ ControlOK'
    BY <1>6, FinishTyped DEF Stop, Finish
  <2> QED
    BY <1>6, <2>1 DEF Stop, Finish, TypeInv, TypeOK, dbVars, planVars
<1> QED
  BY <1>1, <1>2, <1>3, <1>4, <1>5, <1>6

\* Actions that stop several coroutines at once.
LEMMA KillTyped ==
    ASSUME TypeInv, NEW S, NEW c \in {Idle, Stopping},
           run' = [r \in Runs |-> IF r \in S THEN c ELSE run[r]]
    PROVE  run' \in [Runs -> RunState] /\ ControlOK'
<1>1. \A r \in Runs : run'[r] = c \/ run'[r] = run[r]
  OBVIOUS
<1>2. run' \in [Runs -> RunState]
  BY IdleFacts DEF TypeInv, TypeOK
<1>3. ControlOK'
  BY <1>1, IdleFacts DEF TypeInv, ControlOK
<1> QED
  BY <1>2, <1>3

LEMMA RequestTyped ==
    ASSUME TypeInv,
           \/ Cancel \/ Pause \/ CancelWrite \/ PauseWrite
           \/ CancelUnreachable \/ PauseUnreachable \/ ApproveWrite \/ RejectWrite
           \/ \E p \in Plans : Approve(p) \/ Reject(p)
    PROVE  TypeInv'
<1>1. CASE Cancel
  <2>1. run' = [r \in Runs |-> IF r \in {running} THEN Stopping ELSE run[r]]
    BY <1>1 DEF Cancel
  <2>2. run' \in [Runs -> RunState] /\ ControlOK'
    BY <2>1, KillTyped
  <2> QED
    BY <1>1, <2>2 DEF Cancel, Calls, TypeInv, TypeOK, dbVars, planVars
<1>2. CASE Pause \/ PauseUnreachable
  <2>1. left' \in [faults : Nat, crashes : Nat, pauses : Nat]
    <3>1. left.pauses > 0 /\ left' = [left EXCEPT !.pauses = @ - 1]
      BY <1>2 DEF Pause, PauseUnreachable
    <3>2. left \in [faults : Nat, crashes : Nat, pauses : Nat]
      BY DEF TypeInv, TypeOK
    <3>3. left.pauses \in Nat /\ left.pauses - 1 \in Nat
      BY <3>1, <3>2
    <3> QED
      BY <3>1, <3>2, <3>3
  <2> QED
    BY <1>2, <2>1 DEF Pause, PauseUnreachable, Calls, TypeInv, TypeOK, ControlOK,
                      dbVars, memVars, planVars, Statuses
<1>3. CASE CancelWrite \/ PauseWrite \/ CancelUnreachable
  BY <1>3 DEF CancelWrite, PauseWrite, CancelUnreachable, TypeInv, TypeOK,
              ControlOK, memVars, planVars, Statuses
<1>4. CASE \E p \in Plans : Approve(p) \/ Reject(p)
  <2> PICK p \in Plans : Approve(p) \/ Reject(p)
    BY <1>4
  <2>1. approval' \in [Plans -> Resolutions \cup {"none"}]
    BY DEF Approve, Reject, TypeInv, TypeOK, Resolutions
  <2>2. inflight' \subseteq Calls
    BY DEF Approve, Reject, TypeInv, TypeOK, Calls
  <2> QED
    BY <2>1, <2>2 DEF Approve, Reject, TypeInv, TypeOK, ControlOK, memVars, planVars
<1>5. CASE ApproveWrite \/ RejectWrite
  <2>1. inflight' \subseteq Calls /\ status' \in Statuses
    BY <1>5 DEF ApproveWrite, RejectWrite, TypeInv, TypeOK, Calls, Statuses
  <2> QED
    BY <1>5, <2>1 DEF ApproveWrite, RejectWrite, TypeInv, TypeOK, ControlOK,
                      memVars, planVars
<1> QED
  BY <1>1, <1>2, <1>3, <1>4, <1>5

LEMMA ProcessTyped ==
    ASSUME TypeInv, Crash \/ Restart
    PROVE  TypeInv'
<1>1. CASE Crash
  <2> DEFINE S == {r \in Runs : run[r].pc # "posted"}
  <2>1. run' = [r \in Runs |-> IF r \in S THEN Idle ELSE run[r]]
    BY <1>1 DEF Crash
  <2> HIDE DEF S
  <2>2. run' \in [Runs -> RunState] /\ ControlOK'
    BY <2>1, KillTyped
  <2>3. left' \in [faults : Nat, crashes : Nat, pauses : Nat]
    <3>1. left.crashes > 0 /\ left' = [left EXCEPT !.crashes = @ - 1]
      BY <1>1 DEF Crash
    <3>2. left \in [faults : Nat, crashes : Nat, pauses : Nat]
      BY DEF TypeInv, TypeOK
    <3>3. left.crashes \in Nat /\ left.crashes - 1 \in Nat
      BY <3>1, <3>2
    <3> QED
      BY <3>1, <3>2, <3>3
  <2> QED
    BY <1>1, <2>2, <2>3 DEF Crash, TypeInv, TypeOK, dbVars, planVars
<1>2. CASE Restart
  BY <1>2 DEF Restart, TypeInv, TypeOK, ControlOK, dbVars, planVars
<1> QED
  BY <1>1, <1>2

LEMMA StepTyped == TypeInv /\ [Next]_vars => TypeInv'
<1> SUFFICES ASSUME TypeInv, [Next]_vars PROVE TypeInv'
  OBVIOUS
<1>1. ASSUME NEW r \in Runs, Coroutine(r) \/ Fault(r)
      PROVE  TypeInv'
  BY <1>1, StartTyped, PlanTyped, GateTyped, ExecuteTyped, EndTyped DEF Coroutine
<1>2. CASE Client
  BY <1>2, StartTyped, RequestTyped DEF Client
<1>3. CASE Server
  <2>1. CASE CancelWrite \/ PauseWrite \/ ApproveWrite \/ RejectWrite
    BY <2>1, RequestTyped
  <2>2. CASE ResumeCallLost
    BY <2>2 DEF ResumeCallLost, TypeInv, TypeOK, ControlOK, dbVars, memVars, planVars
  <2>3. ASSUME NEW r \in Runs, ResumeCall(r)
        PROVE  TypeInv'
    BY <2>3, StartTyped
  <2> QED
    BY <1>3, <2>1, <2>2, <2>3 DEF Server
<1>4. CASE Crash \/ Restart
  BY <1>4, ProcessTyped
<1>5. CASE UNCHANGED vars
  BY <1>5 DEF vars, TypeInv, TypeOK, ControlOK, dbVars, memVars, planVars
<1> QED
  BY <1>1, <1>2, <1>3, <1>4, <1>5 DEF Next

\* Types, and the position every coroutine is in when it reaches an await.
THEOREM TypeCorrect == Spec => [](TypeOK /\ ControlOK)
<1>1. Init => TypeInv
  BY InitTyped
<1>2. TypeInv /\ [Next]_vars => TypeInv'
  BY StepTyped
<1> QED
  BY <1>1, <1>2, PTL DEF Spec, TypeInv

-----------------------------------------------------------------------------
(* Steps run in order.  Executing a step moves one cursor by one; every     *)
(* other action only copies cursors between memory, database and coroutines. *)

\* A cursor that exists in the current state, or points before the first step.
Known(c) ==
    \/ c.step = 0
    \/ c = pending
    \/ \E i \in 1..Len(saved) : c = saved[i]
    \/ \E r \in Runs : c = run[r].at

CopiesCursors ==
    /\ done' = done
    /\ \A r \in Runs : Known(run'[r].at)
    /\ \A i \in 1..Len(saved') : Known(saved'[i])
    /\ Known(pending')

\* The part of CopiesCursors that concerns the variables a step leaves alone.
LEMMA KeptCursors ==
    ASSUME TypeInv
    PROVE  /\ \A r \in Runs : Known(run[r].at)
           /\ \A i \in 1..Len(saved) : Known(saved[i])
           /\ Known(pending) /\ Known(None)
BY DEF Known, None

LEMMA GotoCopies ==
    ASSUME TypeInv, NEW r \in Runs, NEW label, Goto(r, label)
    PROVE  \A q \in Runs : run'[q].at = run[q].at
BY DEF Goto, TypeInv, TypeOK, RunState

LEMMA FinishCopies ==
    ASSUME TypeInv, NEW r \in Runs, run' = [run EXCEPT ![r] = Idle]
    PROVE  \A q \in Runs : Known(run'[q].at)
BY KeptCursors, IdleFacts DEF TypeInv, TypeOK

LEMMA EnterCopies ==
    ASSUME TypeInv, NEW r \in Runs, NEW row, Enter(r, row)
    PROVE  /\ \A q \in Runs : Known(run'[q].at)
           /\ Known(pending')
<1> USE KeptCursors
<1>1. CASE pending # None
  <2>1. run' = [run EXCEPT ![r] = [pc |-> "resume", at |-> pending, row |-> row]]
        /\ pending' = None
    BY <1>1 DEF Enter
  <2>2. \A q \in Runs : run'[q].at = pending \/ run'[q] = run[q]
    BY <2>1 DEF TypeInv, TypeOK
  <2> QED
    BY <2>1, <2>2
<1>2. CASE pending = None
  <2>1. run' = [run EXCEPT ![r] = [pc |-> "load", at |-> None, row |-> row]]
        /\ pending' = pending
    BY <1>2 DEF Enter
  <2>2. \A q \in Runs : run'[q].at = None \/ run'[q] = run[q]
    BY <2>1 DEF TypeInv, TypeOK
  <2> QED
    BY <2>1, <2>2
<1> QED
  BY <1>1, <1>2

LEMMA AppendCopies ==
    ASSUME TypeInv, NEW r \in Runs, saved' = Append(saved, run[r].at),
           run[r].at \in Cursor
    PROVE  \A i \in 1..Len(saved') : Known(saved'[i])
<1>1. saved \in Seq(Cursor)
  BY DEF TypeInv, TypeOK
<1> TAKE i \in 1..Len(saved')
<1>2. CASE i \in 1..Len(saved)
  <2>1. saved'[i] = saved[i]
    BY <1>1, <1>2
  <2> QED
    BY <1>2, <2>1, KeptCursors
<1>3. CASE i = Len(saved) + 1
  <2>1. saved'[i] = run[r].at
    BY <1>1, <1>3
  <2> QED
    BY <2>1, KeptCursors
<1> QED
  BY <1>1, <1>2, <1>3

LEMMA CoroutineCopies ==
    ASSUME TypeInv, NEW r \in Runs, Coroutine(r) \/ Fault(r), ~ToolSucceeds(r)
    PROVE  CopiesCursors
<1>1. CASE Execute(r) \/ BeginPlanning(r) \/ GeneratePlanRaises(r)
           \/ StartRunning(r) \/ ResumeWithState(r) \/ AwaitApproval(r)
           \/ CheckStep(r) \/ FinalizeStatus(r) \/ ToolFails(r) \/ FaultCaught(r)
           \/ CreateApprovalRecord(r) \/ FinalizePaused(r) \/ Handler(r)
  <2>1. PICK label : Goto(r, label)
    BY <1>1 DEF Execute, BeginPlanning, GeneratePlanRaises, StartRunning,
                ResumeWithState, AwaitApproval, CheckStep, FinalizeStatus,
                ToolFails, FaultCaught, CreateApprovalRecord,
                FinalizePaused, Handler
  <2>2. UNCHANGED <<saved, pending, done>>
    BY <1>1 DEF Execute, BeginPlanning, GeneratePlanRaises, StartRunning,
                ResumeWithState, AwaitApproval, CheckStep, FinalizeStatus,
                ToolFails, FaultCaught, CreateApprovalRecord,
                FinalizePaused, Handler, dbVars, memVars, planVars
  <2> QED
    BY <2>1, <2>2, GotoCopies, KeptCursors DEF CopiesCursors, Known
<1>2. CASE ExecuteArrives(r)
  BY <1>2, EnterCopies, KeptCursors
     DEF ExecuteArrives, CopiesCursors, dbVars, planVars
<1>3. CASE ExecuteUnreachable(r) \/ FaultEscapes(r) \/ FaultInLoad(r)
           \/ ReturnLogged(r) \/ Stop(r)
  <2>1. run' = [run EXCEPT ![r] = Idle] /\ UNCHANGED <<saved, pending, done>>
    BY <1>3 DEF ExecuteUnreachable, FaultEscapes, FaultInLoad,
                ReturnLogged, Stop, Finish,
                dbVars, memVars, planVars
  <2> QED
    BY <2>1, FinishCopies, KeptCursors DEF CopiesCursors, Known
<1>4. CASE ClearState(r)
  <2>1. run' = [run EXCEPT ![r] = Idle] /\ saved' = <<>> /\ UNCHANGED <<pending, done>>
    BY <1>4 DEF ClearState, Finish, planVars
  <2>2. \A q \in Runs : Known(run'[q].at)
    BY <2>1, FinishCopies
  <2>3. 1..Len(saved') = {}
    BY <2>1
  <2> QED
    BY <2>1, <2>2, <2>3, KeptCursors DEF CopiesCursors
<1>5. CASE Load(r)
  <2>1. UNCHANGED <<saved, pending, done>>
    BY <1>5 DEF Load, dbVars, planVars
  <2>2. \A q \in Runs : Known(run'[q].at)
    <3>1. CASE saved = <<>>
      BY <1>5, <3>1, GotoCopies, KeptCursors DEF Load, Known
    <3>2. CASE saved # <<>>
      <4>1. Len(saved) \in 1..Len(saved)
        BY <3>2 DEF TypeInv, TypeOK
      <4>2. \A q \in Runs : run'[q].at = IF q = r THEN saved[Len(saved)] ELSE run[q].at
        BY <1>5, <3>2 DEF Load, TypeInv, TypeOK, RunState
      <4> QED
        BY <4>1, <4>2, KeptCursors
    <3> QED
      BY <3>1, <3>2
  <2> QED
    BY <2>1, <2>2, KeptCursors DEF CopiesCursors
<1>6. CASE GeneratePlan(r)
  <2>1. UNCHANGED <<saved, pending, done>>
    BY <1>6 DEF GeneratePlan, dbVars, memVars
  <2>2. \A q \in Runs : run'[q].at = IF q = r THEN [plan |-> nplans + 1, step |-> 0]
                                              ELSE run[q].at
    BY <1>6 DEF GeneratePlan, TypeInv, TypeOK, RunState
  <2>3. Known([plan |-> nplans + 1, step |-> 0])
    BY DEF Known
  <2>4. \A q \in Runs : Known(run'[q].at)
    BY <2>2, <2>3, KeptCursors
  <2> QED
    BY <2>1, <2>4, KeptCursors DEF CopiesCursors
<1>7. CASE SaveDelete(r)
  <2>1. PICK label : Goto(r, label)
    BY <1>7 DEF SaveDelete
  <2>2. saved' = <<>> /\ UNCHANGED <<pending, done>>
    BY <1>7 DEF SaveDelete, memVars, planVars
  <2> QED
    BY <2>1, <2>2, GotoCopies, KeptCursors DEF CopiesCursors, Known
<1>8. CASE SavePlanState(r) \/ SavePausedState(r)
  <2>1. PICK label : Goto(r, label)
    BY <1>8 DEF SavePlanState, SavePausedState
  <2>2. /\ saved' = Append(saved, run[r].at)
        /\ pending' \in {pending, run[r].at} /\ done' = done
    BY <1>8 DEF SavePlanState, SavePausedState, memVars, planVars
  <2>3. run[r].at \in Cursor
    BY <1>8, LabelFacts DEF SavePlanState, SavePausedState, TypeInv, ControlOK
  <2>4. \A i \in 1..Len(saved') : Known(saved'[i])
    BY <2>2, <2>3, AppendCopies
  <2> QED
    BY <2>1, <2>2, <2>4, GotoCopies, KeptCursors DEF CopiesCursors
<1> QED
  BY <1>1, <1>2, <1>3, <1>4, <1>5, <1>6, <1>7, <1>8 DEF Coroutine, Fault

LEMMA OthersCopy ==
    ASSUME TypeInv, Client \/ Server \/ Crash \/ Restart \/ UNCHANGED vars
    PROVE  CopiesCursors
<1>1. ASSUME NEW r \in Runs, Execute(r)
      PROVE  CopiesCursors
  <2>1. Goto(r, "posted") /\ UNCHANGED <<saved, pending, done>>
    BY <1>1 DEF Execute, memVars, planVars
  <2> QED
    BY <2>1, GotoCopies, KeptCursors DEF CopiesCursors, Known
<1>2. ASSUME NEW r \in Runs, Resume(r) \/ ResumeCall(r)
      PROVE  CopiesCursors
  BY <1>2, EnterCopies, KeptCursors
     DEF Resume, ResumeCall, CopiesCursors, dbVars, planVars
<1>3. CASE Cancel
  <2>1. \A q \in Runs : run'[q] = Stopping \/ run'[q] = run[q]
    BY <1>3 DEF Cancel
  <2>2. UNCHANGED <<saved, pending, done>>
    BY <1>3 DEF Cancel, dbVars, planVars
  <2> QED
    BY <2>1, <2>2, IdleFacts, KeptCursors DEF CopiesCursors
<1>4. CASE Crash
  <2>1. \A q \in Runs : run'[q] = Idle \/ run'[q] = run[q]
    BY <1>4 DEF Crash
  <2>2. UNCHANGED <<saved, done>> /\ pending' = None
    BY <1>4 DEF Crash, dbVars, planVars
  <2> QED
    BY <2>1, <2>2, IdleFacts, KeptCursors DEF CopiesCursors
<1>5. CASE \/ Pause \/ CancelUnreachable \/ PauseUnreachable \/ CancelWrite
           \/ PauseWrite \/ ApproveWrite \/ RejectWrite \/ ResumeCallLost
           \/ Restart \/ UNCHANGED vars
           \/ \E p \in Plans : Approve(p) \/ Reject(p)
  <2>1. UNCHANGED <<run, saved, pending, done>>
    BY <1>5 DEF Pause, CancelUnreachable, PauseUnreachable, CancelWrite,
                PauseWrite, ApproveWrite, RejectWrite, ResumeCallLost, Restart,
                Approve, Reject,
                vars, dbVars, memVars, planVars
  <2> QED
    BY <2>1, KeptCursors DEF CopiesCursors
<1> QED
  BY <1>1, <1>2, <1>3, <1>4, <1>5 DEF Client, Server

-----------------------------------------------------------------------------
(* The inductive invariant: no cursor, wherever it is kept, is ahead of what *)
(* was executed.  NoStepSkipped and CompletedRanAll are not inductive alone. *)

ProgressInv == CursorsReached /\ NoStepSkipped /\ CompletedRanAll

\* Reached, for an explicit table of executions.
ReachedIn(d, c) == \A t \in 1..c.step : d[c.plan][t] > 0

LEMMA KnownReached ==
    ASSUME TypeInv, CursorsReached, NEW c, Known(c)
    PROVE  ReachedIn(done, c)
<1>1. CASE c.step = 0
  BY <1>1 DEF ReachedIn
<1>2. CASE c = pending \/ \E i \in 1..Len(saved) : c = saved[i]
  BY <1>2 DEF CursorsReached, Reached, ReachedIn
<1>3. CASE \E r \in Runs : c = run[r].at
  BY <1>3 DEF CursorsReached, Reached, ReachedIn
<1> QED
  BY <1>1, <1>2, <1>3 DEF Known

LEMMA CopiesKeep ==
    ASSUME TypeInv, CursorsReached, NoStepSkipped, CopiesCursors
    PROVE  CursorsReached' /\ NoStepSkipped'
<1>1. \A r \in Runs : ReachedIn(done, run'[r].at)
  BY KnownReached DEF CopiesCursors
<1>2. \A i \in 1..Len(saved') : ReachedIn(done, saved'[i])
  BY KnownReached DEF CopiesCursors
<1>3. ReachedIn(done, pending')
  BY KnownReached DEF CopiesCursors
<1>4. done' = done
  BY DEF CopiesCursors
<1> QED
  BY <1>1, <1>2, <1>3, <1>4
     DEF CursorsReached, Reached, ReachedIn, NoStepSkipped

\* What executing a step does to the table of executions.
LEMMA DoneGrows ==
    ASSUME TypeInv, NEW r \in Runs, ToolSucceeds(r)
    PROVE  /\ run[r].at.plan \in Plans /\ run[r].at.step + 1 \in Steps
           /\ done'[run[r].at.plan][run[r].at.step + 1] > 0
           /\ \A p \in Plans, s \in Steps : done[p][s] > 0 => done'[p][s] > 0
           /\ \A p \in Plans, s \in Steps :
                done'[p][s] > 0 =>
                  \/ done[p][s] > 0
                  \/ p = run[r].at.plan /\ s = run[r].at.step + 1
<1> DEFINE p == run[r].at.plan
           s == run[r].at.step + 1
<1>1. run[r].at \in Cursor /\ run[r].at.step < NSteps
  BY DEF ToolSucceeds, TypeInv, ControlOK, WithPlan, PC, TryPC
<1>2. p \in Plans /\ s \in Steps
  BY <1>1, ConstantFacts DEF Cursor, Steps
<1>3. done \in [Plans -> [Steps -> 0..2]]
  BY DEF TypeInv, TypeOK
<1>4. done' = [done EXCEPT ![p][s] = IF @ = 2 THEN 2 ELSE @ + 1]
  BY DEF ToolSucceeds
<1> HIDE DEF p, s
<1>5. \A q \in Plans, t \in Steps :
        done'[q][t] = IF q = p /\ t = s
                      THEN IF done[q][t] = 2 THEN 2 ELSE done[q][t] + 1
                      ELSE done[q][t]
  BY <1>2, <1>3, <1>4
<1>6. \A q \in Plans, t \in Steps : done[q][t] \in 0..2
  BY <1>3
<1>7. done'[p][s] > 0
  BY <1>2, <1>5, <1>6
<1>8. \A q \in Plans, t \in Steps : done[q][t] > 0 => done'[q][t] > 0
  BY <1>5, <1>6
<1> QED
  BY <1>2, <1>5, <1>7, <1>8 DEF p, s

LEMMA CursorRange ==
    ASSUME NEW c \in Cursor \cup {None}, NEW t \in 1..c.step
    PROVE  c.plan \in Plans /\ t \in Steps
BY ConstantFacts DEF Cursor, None, Steps

LEMMA ToolSucceedsKeeps ==
    ASSUME TypeInv, CursorsReached, NoStepSkipped,
           NEW r \in Runs, ToolSucceeds(r)
    PROVE  CursorsReached' /\ NoStepSkipped'
<1> DEFINE p == run[r].at.plan
           s == run[r].at.step + 1
<1>1. run' = [run EXCEPT ![r].pc = "check", ![r].at.step = s]
      /\ UNCHANGED <<saved, pending>>
  BY DEF ToolSucceeds, dbVars, memVars
<1>2. \A c \in Cursor \cup {None} : ReachedIn(done, c) => ReachedIn(done', c)
  BY DoneGrows, CursorRange DEF ReachedIn
<1>3. \A q \in Runs : /\ run[q].at \in Cursor \cup {None}
                      /\ ReachedIn(done, run[q].at)
  BY DEF TypeInv, TypeOK, RunState, CursorsReached, Reached, ReachedIn
<1>4. \A q \in Runs : ReachedIn(done', run'[q].at)
  <2> TAKE q \in Runs
  <2>1. CASE q # r
    <3>1. run'[q] = run[q]
      BY <1>1, <2>1 DEF TypeInv, TypeOK
    <3> QED
      BY <1>2, <1>3, <3>1
  <2>2. CASE q = r
    <3>1. run'[q].at.plan = p /\ run'[q].at.step = s
      BY <1>1, <2>2 DEF TypeInv, TypeOK, RunState, Cursor, None
    <3>2. ReachedIn(done', run[q].at)
      BY <1>2, <1>3
    <3>3. s - 1 = run[r].at.step
      BY <1>3 DEF Cursor, None
    <3>4. \A t \in 1..(s - 1) : done'[p][t] > 0
      BY <2>2, <3>2, <3>3 DEF ReachedIn
    <3>5. done'[p][s] > 0 /\ s \in Nat
      BY DoneGrows DEF Steps
    <3> QED
      BY <3>1, <3>4, <3>5 DEF ReachedIn
  <2> QED
    BY <2>1, <2>2
<1>5. \A i \in 1..Len(saved') : ReachedIn(done', saved'[i])
  <2>1. \A i \in 1..Len(saved) : saved[i] \in Cursor
    BY DEF TypeInv, TypeOK
  <2>2. \A i \in 1..Len(saved) : ReachedIn(done, saved[i])
    BY DEF CursorsReached, Reached, ReachedIn
  <2> QED
    BY <1>1, <1>2, <2>1, <2>2
<1>6. ReachedIn(done', pending')
  BY <1>1, <1>2 DEF TypeInv, TypeOK, CursorsReached, Reached, ReachedIn
<1>7. NoStepSkipped'
  <2> SUFFICES ASSUME NEW q \in Plans, NEW t \in Steps, done'[q][t] > 0,
                      NEW u \in 1..t
               PROVE  done'[q][u] > 0
    BY DEF NoStepSkipped
  <2>1. u \in Steps
    BY ConstantFacts DEF Steps
  <2>2. CASE done[q][t] > 0
    BY <2>1, <2>2, DoneGrows DEF NoStepSkipped
  <2>3. CASE q = p /\ t = s
    <3>1. CASE u = s
      BY <2>3, <3>1, DoneGrows
    <3>2. CASE u # s
      <4>1. s - 1 = run[r].at.step /\ u \in 1..(s - 1)
        BY <2>3, <3>2, DoneGrows, <1>3 DEF Steps, Cursor, None
      <4> QED
        BY <1>3, <2>1, <2>3, <4>1, DoneGrows DEF ReachedIn
    <3> QED
      BY <3>1, <3>2
  <2> QED
    BY <2>2, <2>3, DoneGrows
<1> QED
  BY <1>4, <1>5, <1>6, <1>7 DEF CursorsReached, Reached, ReachedIn

\* completed is written by one statement only, of a coroutine that is past
\* its last step.
LEMMA WhoCompletes ==
    ASSUME TypeInv, [Next]_vars, status' = "completed", status # "completed"
    PROVE  \E r \in Runs : FinalizeStatus(r) /\ run[r].pc = "complete"
<1>1. ASSUME NEW r \in Runs, Coroutine(r) \/ Fault(r), ~FinalizeStatus(r)
      PROVE  FALSE
  BY <1>1 DEF Coroutine, Fault, ExecuteArrives, ExecuteUnreachable, Load,
     BeginPlanning, GeneratePlan, GeneratePlanRaises, StartRunning,
     ResumeWithState, AwaitApproval, SaveDelete, SavePlanState,
     CreateApprovalRecord, ReturnLogged, CheckStep, SavePausedState,
     ToolSucceeds, ToolFails, FinalizePaused, ClearState, Handler, Stop,
     FaultCaught, FaultEscapes, FaultInLoad, dbVars
<1>2. ASSUME NEW r \in Runs, FinalizeStatus(r), run[r].pc # "complete"
      PROVE  FALSE
  BY <1>2 DEF FinalizeStatus, FinalStatus
<1>3. CASE Client
  BY <1>3 DEF Client, Execute, Resume, Cancel, Pause, CancelUnreachable,
     PauseUnreachable, Approve, Reject, dbVars
<1>4. CASE Server \/ Crash \/ Restart \/ UNCHANGED vars
  BY <1>4 DEF Server, CancelWrite, PauseWrite, ApproveWrite, RejectWrite,
     ResumeCallLost, ResumeCall,
     Crash, Restart, vars, dbVars
<1> QED
  BY <1>1, <1>2, <1>3, <1>4 DEF Next

LEMMA CompletedKept ==
    ASSUME TypeInv, CursorsReached, CompletedRanAll, [Next]_vars,
           \A p \in Plans, s \in Steps : done[p][s] > 0 => done'[p][s] > 0
    PROVE  CompletedRanAll'
<1> SUFFICES ASSUME status' = "completed"
             PROVE  \E p \in Plans : \A s \in Steps : done'[p][s] > 0
  BY DEF CompletedRanAll
<1>1. CASE status = "completed"
  BY <1>1 DEF CompletedRanAll
<1>2. CASE status # "completed"
  <2>1. PICK r \in Runs : run[r].pc = "complete"
    BY <1>2, WhoCompletes
  <2>2. run[r].at \in Cursor /\ run[r].at.step = NSteps
    BY <2>1 DEF TypeInv, ControlOK, WithPlan, PC, TryPC
  <2>3. \A s \in Steps : done[run[r].at.plan][s] > 0
    BY <2>2 DEF CursorsReached, Reached, Steps
  <2> QED
    BY <2>2, <2>3 DEF Cursor
<1> QED
  BY <1>1, <1>2

LEMMA StepProgresses ==
    TypeInv /\ ProgressInv /\ [Next]_vars => ProgressInv'
<1> SUFFICES ASSUME TypeInv, ProgressInv, [Next]_vars PROVE ProgressInv'
  OBVIOUS
<1>1. CASE \E r \in Runs : ToolSucceeds(r)
  <2>1. PICK r \in Runs : ToolSucceeds(r)
    BY <1>1
  <2>2. CursorsReached' /\ NoStepSkipped'
    BY <2>1, ToolSucceedsKeeps DEF ProgressInv
  <2>3. CompletedRanAll'
    BY <2>1, DoneGrows, CompletedKept DEF ProgressInv
  <2> QED
    BY <2>2, <2>3 DEF ProgressInv
<1>2. CASE ~ \E r \in Runs : ToolSucceeds(r)
  <2>1. CopiesCursors
    BY <1>2, CoroutineCopies, OthersCopy DEF Next
  <2>2. CursorsReached' /\ NoStepSkipped'
    BY <2>1, CopiesKeep DEF ProgressInv
  <2>3. CompletedRanAll'
    BY <2>1, CompletedKept DEF ProgressInv, CopiesCursors
  <2> QED
    BY <2>2, <2>3 DEF ProgressInv
<1> QED
  BY <1>1, <1>2

LEMMA ProgressAlways == Spec => []ProgressInv
<1>1. Init => ProgressInv
  <2> SUFFICES ASSUME Init PROVE ProgressInv
    OBVIOUS
  <2>1. CursorsReached
    BY IdleFacts DEF Init, CursorsReached, Reached, None
  <2>2. NoStepSkipped /\ CompletedRanAll
    BY DEF Init, NoStepSkipped, CompletedRanAll
  <2> QED
    BY <2>1, <2>2 DEF ProgressInv
<1>2. TypeInv /\ ProgressInv /\ [Next]_vars => ProgressInv'
  BY StepProgresses
<1> QED
  BY <1>1, <1>2, TypeCorrect, PTL DEF Spec, TypeInv

\* No pause, resume, retry, crash or second coroutine makes a plan jump over a
\* step (execute_plan and the current_step save_state persists agree), for any
\* number of coroutines, plans, steps and crashes.
THEOREM StepsInOrder == Spec => []NoStepSkipped
<1>1. ProgressInv => NoStepSkipped
  BY DEF ProgressInv
<1> QED
  BY <1>1, ProgressAlways, PTL

\* tasks.status says completed only when every step of a plan of the task was
\* executed (execute_plan's loop and _finalize_execution), whatever else wrote
\* the status meanwhile.
THEOREM CompletedIsComplete == Spec => []CompletedRanAll
<1>1. ProgressInv => CompletedRanAll
  BY DEF ProgressInv
<1> QED
  BY <1>1, ProgressAlways, PTL
=============================================================================
