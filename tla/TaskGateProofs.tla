--------------------------- MODULE TaskGateProofs ---------------------------
(***************************************************************************)
(* Theorems about TaskRun with clients that act on what they are shown:     *)
(* they execute pending tasks, resume approved ones and resolve open        *)
(* approvals; they cancel and pause whenever they like.  For any number of  *)
(* coroutines, plans, steps, exceptions, crashes and pauses.                *)
(***************************************************************************)
EXTENDS TaskRunProofs

CarefulClients ==
    /\ ExecuteFrom \subseteq {"pending"}
    /\ ResumeFrom \subseteq {"approved"}
    /\ ResolveFrom \subseteq {"pending"}

-----------------------------------------------------------------------------
(* The inductive invariant.  A task is pending once, hence executed once,    *)
(* and only a task fresh from the API server gets a plan: there is one plan, *)
(* whose life is followed from its first await to the end of its execution.  *)

First == [plan |-> 1, step |-> 0]

Asking == {"gate", "saveDelete", "saveInsert", "record"}

Executing == {"resume", "start", "check", "tool", "retry", "failing",
              "cancelled", "complete", "clear", "pauseDelete", "pauseInsert",
              "pausedWrite"}

Untouched(p) == \A s \in Steps : done[p][s] = 0

OnlyFirst ==
    /\ nplans \in {0, 1}
    /\ \A p \in Plans : p # 1 \/ nplans = 0 =>
         ~gated[p] /\ approval[p] = "none" /\ Untouched(p)
    /\ nplans = 0 => saved = <<>> /\ pending = None
    /\ \A i \in 1..Len(saved) : saved[i].plan = 1
    /\ status = "pending" => nplans = 0 /\ \A r \in Runs : run[r].pc = "idle"

\* The copy in memory is the row of a plan that asked for approval.
Remembered ==
    pending # None => pending = First /\ saved = <<First>> /\ gated[1]

\* The row is there as long as the approval is not given.
Asked ==
    /\ approval[1] # "none" => gated[1]
    /\ approval[1] \in {"pending", "rejected"} => saved = <<First>>

\* Nothing that starts a coroutine happens before the approval.
Unapproved ==
    approval[1] # "approved" =>
        /\ status # "approved"
        /\ inflight \cap {"approve", "approveResume", "resume"} = {}
        /\ gated[1] => Untouched(1)

\* The coroutine that asks for the approval is the only one so far.
Alone ==
    approval[1] = "none" =>
        \A r, s \in Runs : run[r].pc # "idle" /\ run[s].pc # "idle" => r = s

\* What a coroutine may rely on, by the await it is at.
PlaceOK(r) ==
    /\ run[r].row => approval[1] = "approved" /\ pending = None
    /\ run[r].pc = "posted" => nplans = 0
    /\ run[r].pc \in {"load", "planning", "generate"} =>
         run[r].row \/ nplans = 0
    /\ run[r].pc \in Asking =>
         /\ run[r].at = First /\ nplans = 1 /\ ~run[r].row
         /\ gated[1] /\ approval[1] = "none"
         /\ saved = IF run[r].pc = "record" THEN <<First>> ELSE <<>>
    /\ run[r].pc \in Executing =>
         /\ run[r].at.plan = 1 /\ nplans = 1 /\ pending = None
         /\ gated[1] => approval[1] = "approved"

GateInv ==
    /\ OnlyFirst /\ Remembered /\ Asked /\ Unapproved /\ Alone
    /\ \A r \in Runs : PlaceOK(r)

LEMMA FirstFacts ==
    /\ 1 \in Plans /\ First # None /\ First \in Cursor
    /\ First.plan = 1 /\ First.step = 0
    /\ <<First>> # <<>> /\ Append(<<>>, First) = <<First>>
    /\ \A i \in 1..Len(<<First>>) : <<First>>[i] = First
BY ConstantFacts DEF First, None, Plans, Cursor

LEMMA GateInit == Init => GateInv
<1> SUFFICES ASSUME Init PROVE GateInv
  OBVIOUS
<1>1. \A r \in Runs : run[r].pc = "idle" /\ ~run[r].row
  BY DEF Init, Idle
<1>2. \A r \in Runs : PlaceOK(r)
  BY <1>1 DEF PlaceOK, Asking, Executing
<1>3. OnlyFirst
  BY <1>1 DEF Init, OnlyFirst, Untouched
<1>4. Remembered /\ Asked /\ Unapproved /\ Alone
  BY <1>1, FirstFacts DEF Init, Remembered, Asked, Unapproved, Alone, Untouched
<1> QED
  BY <1>2, <1>3, <1>4 DEF GateInv

-----------------------------------------------------------------------------
(* Steps that only move one coroutine *)

GateTables == <<saved, pending, approval, inflight, planVars>>

\* The statements that write tasks.status write neither pending, nor, but for
\* one, approved.
LEMMA MoveKeeps ==
    ASSUME GateInv, NEW r \in Runs, UNCHANGED GateTables,
           run[r].pc # "idle",
           \A q \in Runs : q # r => run'[q] = run[q],
           status' = status \/ status' \notin {"pending", "approved"},
           PlaceOK(r)'
    PROVE  GateInv'
<1> USE DEF GateTables, planVars
<1>1. OnlyFirst'
  BY DEF GateInv, OnlyFirst, Untouched
<1>2. Remembered' /\ Asked' /\ Unapproved'
  BY DEF GateInv, Remembered, Asked, Unapproved, Untouched
<1>3. Alone'
  BY DEF GateInv, Alone
<1>4. ASSUME NEW q \in Runs PROVE PlaceOK(q)'
  <2>1. CASE q = r
    BY <2>1
  <2>2. CASE q # r
    BY <2>2 DEF GateInv, PlaceOK
  <2> QED
    BY <2>1, <2>2
<1> QED
  BY <1>1, <1>2, <1>3, <1>4 DEF GateInv

LEMMA GotoMoves ==
    ASSUME TypeInv, NEW r \in Runs, NEW label, Goto(r, label)
    PROVE  /\ run'[r].pc = label /\ run'[r].at = run[r].at
           /\ run'[r].row = run[r].row
           /\ \A q \in Runs : q # r => run'[q] = run[q]
BY DEF Goto, TypeInv, TypeOK, RunState

LEMMA IdleMoves ==
    ASSUME TypeInv, NEW r \in Runs, run' = [run EXCEPT ![r] = Idle]
    PROVE  /\ run'[r].pc = "idle" /\ run'[r].at = None /\ ~run'[r].row
           /\ \A q \in Runs : q # r => run'[q] = run[q]
BY DEF Idle, TypeInv, TypeOK, RunState

\* A coroutine that ends, whatever it was doing.
LEMMA EndKeeps ==
    ASSUME TypeInv, GateInv, NEW r \in Runs, UNCHANGED GateTables,
           run[r].pc # "idle", run' = [run EXCEPT ![r] = Idle],
           status' = status \/ status' \notin {"pending", "approved"}
    PROVE  GateInv'
<1>1. /\ run'[r].pc = "idle" /\ ~run'[r].row
      /\ \A q \in Runs : q # r => run'[q] = run[q]
  BY IdleMoves
<1>2. PlaceOK(r)'
  BY <1>1 DEF PlaceOK, Asking, Executing
<1> QED
  BY <1>1, <1>2, MoveKeeps

\* The awaits that are reached by starting, loading and planning only.
NotEntered == {"idle", "posted", "load", "planning", "resume", "start"}

\* Past the transition to running.
Begun == Executing \ {"resume", "start"}

LEMMA WritesStatus ==
    ASSUME NEW r \in Runs,
           \/ BeginPlanning(r) \/ GeneratePlanRaises(r) \/ StartRunning(r)
           \/ ResumeWithState(r) \/ AwaitApproval(r) \/ CheckStep(r)
           \/ ToolFails(r) \/ FinalizePaused(r) \/ FinalizeStatus(r)
           \/ FaultCaught(r) \/ Handler(r)
    PROVE  /\ status' = status \/ status' \notin {"pending", "approved"}
           /\ UNCHANGED GateTables
           /\ run[r].pc # "idle"
           /\ \E label \in PC \ NotEntered :
                /\ Goto(r, label)
                /\ label = "generate" => run[r].pc = "planning"
                /\ label \in Asking => run[r].pc = "gate" /\ label = "saveDelete"
                /\ label \in Executing => run[r].pc \in Executing
                /\ label \in Begun => run[r].pc \in Begun \/ status' = "running"
<1>1. CASE BeginPlanning(r) \/ GeneratePlanRaises(r) \/ AwaitApproval(r)
           \/ FaultCaught(r) \/ Handler(r) \/ FinalizePaused(r)
  BY <1>1 DEF BeginPlanning, GeneratePlanRaises, AwaitApproval, FaultCaught,
     Handler, FinalizePaused, GateTables, dbVars, memVars, planVars, PC, TryPC,
     Asking, Executing, Begun, NotEntered
<1>2. CASE StartRunning(r) \/ ResumeWithState(r) \/ CheckStep(r) \/ ToolFails(r)
           \/ FinalizeStatus(r)
  BY <1>2 DEF StartRunning, ResumeWithState, CheckStep, ToolFails,
     FinalizeStatus, FinalStatus, GateTables, dbVars, memVars, planVars, PC,
     TryPC, Asking, Executing, Begun, NotEntered
<1> QED
  BY <1>1, <1>2

LEMMA LanesKeep ==
    ASSUME TypeInv, GateInv, NEW r \in Runs,
           \/ BeginPlanning(r) \/ GeneratePlanRaises(r) \/ StartRunning(r)
           \/ ResumeWithState(r) \/ AwaitApproval(r) \/ CheckStep(r)
           \/ ToolFails(r) \/ FinalizePaused(r) \/ FinalizeStatus(r)
           \/ FaultCaught(r) \/ Handler(r)
    PROVE  GateInv'
<1>1. PICK label \in PC \ NotEntered :
        /\ Goto(r, label)
        /\ label = "generate" => run[r].pc = "planning"
        /\ label \in Asking => run[r].pc = "gate" /\ label = "saveDelete"
        /\ label \in Executing => run[r].pc \in Executing
  BY WritesStatus
<1>2. /\ run'[r].pc = label /\ run'[r].at = run[r].at
      /\ run'[r].row = run[r].row
      /\ \A q \in Runs : q # r => run'[q] = run[q]
  BY <1>1, GotoMoves
<1>3. UNCHANGED GateTables /\ run[r].pc # "idle"
  BY WritesStatus
<1>4. PlaceOK(r)'
  <2>1. PlaceOK(r)
    BY DEF GateInv
  <2>2. "gate" \in Asking /\ "saveDelete" \notin Executing /\ "gate" \notin Executing
    BY DEF Asking, Executing
  <2> QED
    BY <1>1, <1>2, <1>3, <2>1, <2>2 DEF PlaceOK, GateTables, planVars, NotEntered
<1> QED
  BY <1>2, <1>3, <1>4, WritesStatus, MoveKeeps

LEMMA EndsKeep ==
    ASSUME TypeInv, GateInv, NEW r \in Runs,
           \/ ReturnLogged(r) \/ FaultEscapes(r) \/ FaultInLoad(r) \/ Stop(r)
           \/ ExecuteUnreachable(r)
    PROVE  GateInv'
<1>1. /\ run' = [run EXCEPT ![r] = Idle] /\ run[r].pc # "idle"
      /\ UNCHANGED GateTables
      /\ status' = status \/ status' \notin {"pending", "approved"}
  BY DEF ReturnLogged, FaultEscapes, FaultInLoad, Stop, ExecuteUnreachable,
         Finish, GateTables, dbVars, memVars, planVars
<1> QED
  BY <1>1, EndKeeps

LEMMA LoadKeeps ==
    ASSUME TypeInv, GateInv, NEW r \in Runs, Load(r)
    PROVE  GateInv'
<1>1. /\ UNCHANGED GateTables /\ status' = status /\ run[r].pc = "load"
      /\ \A q \in Runs : q # r => run'[q] = run[q]
  BY DEF Load, Goto, TypeInv, TypeOK, GateTables, dbVars, planVars
<1>2. PlaceOK(r)
  BY DEF GateInv
<1>3. PlaceOK(r)'
  <2>1. CASE saved = <<>>
    <3>1. run'[r].pc = "planning" /\ run'[r].row = run[r].row
      BY <2>1, GotoMoves DEF Load
    <3> QED
      BY <1>1, <1>2, <3>1
         DEF PlaceOK, Asking, Executing, GateTables, planVars
  <2>2. CASE saved # <<>>
    <3>1. /\ run'[r].pc = "resume" /\ run'[r].row = run[r].row
          /\ run'[r].at = saved[Len(saved)]
      BY <2>2 DEF Load, TypeInv, TypeOK, RunState
    <3>2. nplans # 0 /\ nplans = 1 /\ saved[Len(saved)].plan = 1
      <4>1. Len(saved) \in 1..Len(saved)
        BY <2>2 DEF TypeInv, TypeOK
      <4> QED
        BY <2>2, <4>1 DEF GateInv, OnlyFirst
    <3>3. run[r].row
      BY <1>1, <1>2, <3>2 DEF PlaceOK
    <3> QED
      BY <1>1, <1>2, <3>1, <3>2, <3>3
         DEF PlaceOK, Asking, Executing, GateTables, planVars
  <2> QED
    BY <2>1, <2>2
<1> QED
  BY <1>1, <1>3, MoveKeeps

-----------------------------------------------------------------------------
(* Starting a coroutine *)

LEMMA EnterMoves ==
    ASSUME TypeInv, NEW r \in Runs, NEW row \in BOOLEAN, Enter(r, row)
    PROVE  /\ run'[r].row = row
           /\ \A q \in Runs : q # r => run'[q] = run[q]
           /\ pending # None => run'[r].pc = "resume" /\ run'[r].at = pending
           /\ pending = None => run'[r].pc = "load"
           /\ pending' = None
BY DEF Enter, TypeInv, TypeOK

\* A coroutine the API server or a client asks to resume an approved task.
LEMMA EnterKeeps ==
    ASSUME TypeInv, GateInv, NEW r \in Runs, Enter(r, TRUE),
           approval[1] = "approved", run[r].pc = "idle",
           inflight' \subseteq inflight,
           UNCHANGED <<status, saved, approval, planVars>>
    PROVE  GateInv'
<1> USE DEF planVars
<1>1. /\ run'[r].row = TRUE
      /\ \A q \in Runs : q # r => run'[q] = run[q]
      /\ pending # None => run'[r].pc = "resume" /\ run'[r].at = pending
      /\ pending = None => run'[r].pc = "load"
      /\ pending' = None
  BY EnterMoves
<1>2. nplans = 1
  BY FirstFacts DEF GateInv, OnlyFirst
<1>3. OnlyFirst'
  BY <1>1, <1>2 DEF GateInv, OnlyFirst, Untouched
<1>4. Remembered' /\ Asked' /\ Unapproved' /\ Alone'
  BY <1>1 DEF GateInv, Remembered, Asked, Unapproved, Alone
<1>5. PlaceOK(r)'
  <2>1. pending # None => pending.plan = 1
    BY FirstFacts DEF GateInv, Remembered
  <2> QED
    BY <1>1, <1>2, <2>1 DEF PlaceOK, Asking, Executing
<1>6. ASSUME NEW q \in Runs, q # r PROVE PlaceOK(q)'
  BY <1>1, <1>6 DEF GateInv, PlaceOK
<1> QED
  BY <1>3, <1>4, <1>5, <1>6 DEF GateInv

LEMMA ResumesKeep ==
    ASSUME TypeInv, GateInv, CarefulClients, NEW r \in Runs,
           Resume(r) \/ ResumeCall(r)
    PROVE  GateInv'
<1>1. /\ Enter(r, TRUE) /\ run[r].pc = "idle" /\ inflight' \subseteq inflight
      /\ UNCHANGED <<status, saved, approval, planVars>>
  BY DEF Resume, ResumeCall, dbVars
<1>2. approval[1] = "approved"
  BY DEF Resume, ResumeCall, CarefulClients, GateInv, Unapproved
<1> QED
  BY <1>1, <1>2, EnterKeeps

\* Only a pending task is executed, and it has no plan.
LEMMA ExecuteKeeps ==
    ASSUME TypeInv, GateInv, CarefulClients, NEW r \in Runs, Execute(r)
    PROVE  GateInv'
<1> USE DEF planVars
<1>1. /\ UNCHANGED GateTables /\ status = "pending" /\ status' = "running"
      /\ Goto(r, "posted")
  BY DEF Execute, CarefulClients, GateTables, memVars
<1>2. /\ run'[r].pc = "posted" /\ run'[r].row = run[r].row
      /\ \A q \in Runs : q # r => run'[q] = run[q]
  BY <1>1, GotoMoves
<1>3. nplans = 0 /\ \A q \in Runs : run[q].pc = "idle"
  BY <1>1 DEF GateInv, OnlyFirst
<1>4. OnlyFirst' /\ Remembered' /\ Asked' /\ Unapproved'
  BY <1>1 DEF GateInv, OnlyFirst, Remembered, Asked, Unapproved, Untouched,
              GateTables
<1>5. Alone'
  BY <1>2, <1>3 DEF Alone
<1>6. PlaceOK(r)'
  BY <1>1, <1>2, <1>3 DEF GateInv, PlaceOK, Asking, Executing, GateTables
<1>7. ASSUME NEW q \in Runs, q # r PROVE PlaceOK(q)'
  BY <1>1, <1>2, <1>7 DEF GateInv, PlaceOK, GateTables
<1> QED
  BY <1>4, <1>5, <1>6, <1>7 DEF GateInv

LEMMA ArrivesKeeps ==
    ASSUME TypeInv, GateInv, NEW r \in Runs, ExecuteArrives(r)
    PROVE  GateInv'
<1>1. PlaceOK(r) /\ run[r].pc = "posted"
  BY DEF GateInv, ExecuteArrives
<1>2. nplans = 0 /\ pending = None
  BY <1>1 DEF PlaceOK, GateInv, OnlyFirst
<1>3. /\ ~run'[r].row /\ run'[r].pc = "load" /\ pending' = None
      /\ \A q \in Runs : q # r => run'[q] = run[q]
  BY <1>2, EnterMoves DEF ExecuteArrives
<1>4. UNCHANGED GateTables /\ status' = status
  BY <1>2, <1>3 DEF ExecuteArrives, GateTables, dbVars
<1>5. PlaceOK(r)'
  BY <1>2, <1>3, <1>4 DEF PlaceOK, Asking, Executing, GateTables, planVars
<1> QED
  BY <1>1, <1>3, <1>4, <1>5, MoveKeeps

-----------------------------------------------------------------------------
(* The plan, and its way to the approval *)

\* The coroutine that generates the plan is the only one there is.
LEMMA GeneratePlanKeeps ==
    ASSUME TypeInv, GateInv, NEW r \in Runs, GeneratePlan(r)
    PROVE  GateInv'
<1>1. nplans = 0 /\ ~run[r].row /\ run[r].pc = "generate"
  BY DEF GeneratePlan, GateInv, PlaceOK
<1>2. PICK g \in GateChoices :
        /\ gated' = [gated EXCEPT ![1] = g]
        /\ run' = [run EXCEPT ![r].pc = IF g THEN "gate" ELSE "start",
                              ![r].at = First]
  <2>1. [plan |-> nplans + 1, step |-> 0] = First /\ nplans + 1 = 1
    BY <1>1 DEF First
  <2> QED
    BY <2>1 DEF GeneratePlan
<1>3. /\ UNCHANGED <<status, saved, approval, pending, inflight, done>>
      /\ nplans' = 1
  BY <1>1 DEF GeneratePlan, dbVars, memVars
<1>4. /\ g \in BOOLEAN
      /\ gated'[1] = g /\ \A p \in Plans : p # 1 => gated'[p] = gated[p]
  BY <1>2, ConstantFacts, FirstFacts DEF TypeInv, TypeOK
<1>5. /\ run'[r].pc = (IF g THEN "gate" ELSE "start") /\ run'[r].at = First
      /\ run'[r].row = run[r].row
      /\ \A q \in Runs : q # r => run'[q] = run[q]
  BY <1>2 DEF TypeInv, TypeOK, RunState
<1>6. \A p \in Plans : ~gated[p] /\ approval[p] = "none" /\ Untouched(p)
  BY <1>1 DEF GateInv, OnlyFirst
<1>7. \A q \in Runs : q # r => run[q].pc = "idle"
  BY <1>1, <1>6, FirstFacts DEF GateInv, Alone
<1>8. pending = None /\ saved = <<>> /\ status # "pending"
  BY <1>1 DEF GateInv, OnlyFirst
<1>9. OnlyFirst'
  BY <1>3, <1>4, <1>6, <1>8 DEF OnlyFirst, Untouched
<1>10. Remembered' /\ Asked' /\ Unapproved'
  BY <1>3, <1>4, <1>6, <1>8, FirstFacts
     DEF GateInv, Remembered, Asked, Unapproved, Untouched
<1>11. Alone'
  BY <1>5, <1>7 DEF Alone
<1>12. PlaceOK(r)'
  BY <1>1, <1>3, <1>4, <1>5, <1>6, <1>8, FirstFacts
     DEF PlaceOK, Asking, Executing
<1>13. ASSUME NEW q \in Runs, q # r PROVE PlaceOK(q)'
  <2>1. ~run[q].row
    BY <1>6, FirstFacts DEF GateInv, PlaceOK
  <2> QED
    BY <1>5, <1>7, <1>13, <2>1 DEF PlaceOK, Asking, Executing
<1> QED
  BY <1>9, <1>10, <1>11, <1>12, <1>13 DEF GateInv

\* The others, while one coroutine asks for the approval.
LEMMA AskingIsAlone ==
    ASSUME GateInv, NEW r \in Runs, run[r].pc \in Asking
    PROVE  /\ run[r].at = First /\ nplans = 1 /\ ~run[r].row
           /\ gated[1] /\ approval[1] = "none"
           /\ saved = IF run[r].pc = "record" THEN <<First>> ELSE <<>>
           /\ \A q \in Runs : q # r => run[q].pc = "idle" /\ ~run[q].row
           /\ status # "pending"
<1>1. PlaceOK(r)
  BY DEF GateInv
<1>2. approval[1] = "none" /\ nplans = 1
  BY <1>1 DEF PlaceOK
<1>3. \A q \in Runs : q # r => run[q].pc = "idle"
  BY <1>2 DEF GateInv, Alone, Asking
<1>4. \A q \in Runs : ~run[q].row
  BY <1>2 DEF GateInv, PlaceOK
<1> QED
  BY <1>1, <1>2, <1>3, <1>4 DEF PlaceOK, GateInv, OnlyFirst

\* What the coroutine that asks leaves behind at each of its steps.
LEMMA AskingKeeps ==
    ASSUME TypeInv, GateInv, NEW r \in Runs, run[r].pc \in Asking,
           NEW label, Goto(r, label), label \in Asking \cup {"lastLog"},
           UNCHANGED <<status, inflight, planVars>>,
           IF label \in {"record", "lastLog"} THEN saved' = <<First>>
                                              ELSE saved' = <<>>,
           pending' # None => pending' = First /\ saved' = <<First>>,
           \A p \in Plans : p # 1 => approval'[p] = approval[p],
           IF label = "lastLog"
           THEN approval'[1] = "pending" ELSE approval'[1] = "none"
    PROVE  GateInv'
<1> USE DEF planVars
<1>1. /\ run'[r].pc = label /\ run'[r].at = First /\ ~run'[r].row
      /\ \A q \in Runs : q # r => run'[q] = run[q]
  BY GotoMoves, AskingIsAlone
<1>2. /\ nplans = 1 /\ gated[1] /\ approval[1] = "none" /\ status # "pending"
      /\ \A q \in Runs : q # r => run[q].pc = "idle" /\ ~run[q].row
  BY AskingIsAlone
<1>3. \A i \in 1..Len(saved') : saved'[i].plan = 1
  <2>1. CASE saved' = <<>>
    BY <2>1
  <2>2. CASE saved' = <<First>>
    BY <2>2, FirstFacts
  <2> QED
    BY <2>1, <2>2
<1>4. OnlyFirst'
  BY <1>2, <1>3 DEF GateInv, OnlyFirst, Untouched
<1>5. approval'[1] \in {"none", "pending"} /\ approval[1] # "approved"
  BY <1>2
<1>6. Remembered' /\ Asked' /\ Unapproved'
  BY <1>2, <1>5 DEF GateInv, Remembered, Asked, Unapproved, Untouched
<1>7. Alone'
  BY <1>1, <1>2 DEF Alone
<1>8. PlaceOK(r)'
  BY <1>1, <1>2 DEF PlaceOK, Asking, Executing
<1>9. ASSUME NEW q \in Runs, q # r PROVE PlaceOK(q)'
  BY <1>1, <1>2, <1>9 DEF PlaceOK, Asking, Executing
<1> QED
  BY <1>4, <1>6, <1>7, <1>8, <1>9 DEF GateInv

LEMMA RequestKeeps ==
    ASSUME TypeInv, GateInv, NEW r \in Runs,
           \/ SaveDelete(r) /\ run[r].pc = "saveDelete"
           \/ SavePlanState(r) \/ CreateApprovalRecord(r)
    PROVE  GateInv'
<1>1. run[r].pc \in Asking
  BY DEF Asking, SavePlanState, CreateApprovalRecord
<1>2. /\ run[r].at = First /\ nplans = 1 /\ approval[1] = "none"
      /\ saved = IF run[r].pc = "record" THEN <<First>> ELSE <<>>
  BY <1>1, AskingIsAlone
<1>3. pending = None \/ pending = First
  BY DEF GateInv, Remembered
<1>4. CASE SaveDelete(r) /\ run[r].pc = "saveDelete"
  <2>1. /\ Goto(r, "saveInsert") /\ saved' = <<>>
        /\ UNCHANGED <<status, approval, pending, inflight, planVars>>
    BY <1>4 DEF SaveDelete, memVars
  <2>2. pending' = None
    BY <1>2, <1>4, <2>1, FirstFacts DEF GateInv, Remembered
  <2>3. approval'[1] = "none" /\ \A p \in Plans : approval'[p] = approval[p]
    BY <1>2, <2>1
  <2>4. "saveInsert" \in Asking
    BY DEF Asking
  <2> QED
    BY <1>1, <2>1, <2>2, <2>3, <2>4, AskingKeeps
<1>5. CASE SavePlanState(r)
  <2>1. /\ Goto(r, "record") /\ saved' = <<First>> /\ pending' = First
        /\ UNCHANGED <<status, approval, inflight, planVars>>
    BY <1>2, <1>5, FirstFacts DEF SavePlanState
  <2> QED
    BY <1>1, <1>2, <2>1, AskingKeeps DEF Asking
<1>6. CASE CreateApprovalRecord(r)
  <2>1. /\ Goto(r, "lastLog")
        /\ approval' = [approval EXCEPT ![1] = "pending"]
        /\ UNCHANGED <<status, saved, pending, inflight, planVars>>
        /\ saved = <<First>>
    BY <1>2, <1>6, FirstFacts DEF CreateApprovalRecord, memVars
  <2>2. /\ approval'[1] = "pending"
        /\ \A p \in Plans : p # 1 => approval'[p] = approval[p]
    BY <2>1, FirstFacts DEF TypeInv, TypeOK
  <2> QED
    BY <1>1, <1>3, <2>1, <2>2, AskingKeeps, FirstFacts
<1> QED
  BY <1>4, <1>5, <1>6

-----------------------------------------------------------------------------
(* Execution *)

LEMMA ExecutingFacts ==
    ASSUME GateInv, NEW r \in Runs, run[r].pc \in Executing
    PROVE  /\ run[r].at.plan = 1 /\ nplans = 1 /\ pending = None
           /\ gated[1] => approval[1] = "approved"
           /\ approval[1] \notin {"pending", "rejected"}
           /\ status # "pending"
BY DEF GateInv, PlaceOK, OnlyFirst, Asked

\* Every coroutine that may change saved while it executes the plan: the rows
\* are looked at by coroutines that ask for an approval, and there are none.
LEMMA RowsKeep ==
    ASSUME TypeInv, GateInv, NEW r \in Runs, run[r].pc \in Executing,
           UNCHANGED <<status, approval, pending, inflight, planVars>>,
           \A i \in 1..Len(saved') : saved'[i].plan = 1,
           run'[r].row => run[r].row,
           run'[r].pc \notin Asking,
           run'[r].pc \notin {"posted", "load", "planning", "generate"},
           run'[r].pc \in Executing => run'[r].at = run[r].at,
           \A q \in Runs : q # r => run'[q] = run[q]
    PROVE  GateInv'
<1> USE DEF planVars
<1>1. /\ nplans = 1 /\ pending = None /\ status # "pending"
      /\ approval[1] \notin {"pending", "rejected"} /\ run[r].at.plan = 1
      /\ gated[1] => approval[1] = "approved"
  BY ExecutingFacts
<1>2. OnlyFirst' /\ Remembered' /\ Asked' /\ Unapproved'
  BY <1>1 DEF GateInv, OnlyFirst, Remembered, Asked, Unapproved, Untouched
<1>3. Alone'
  BY DEF GateInv, Alone, Executing
<1>4. PlaceOK(r)'
  BY <1>1 DEF GateInv, PlaceOK
<1>5. ASSUME NEW q \in Runs, q # r PROVE PlaceOK(q)'
  <2>1. run[q].pc \notin Asking
    BY <1>5, AskingIsAlone DEF Executing
  <2> QED
    BY <1>5, <2>1 DEF GateInv, PlaceOK
<1> QED
  BY <1>2, <1>3, <1>4, <1>5 DEF GateInv

LEMMA RowWritersKeep ==
    ASSUME TypeInv, GateInv, NEW r \in Runs,
           \/ SaveDelete(r) /\ run[r].pc = "pauseDelete"
           \/ SavePausedState(r) \/ ClearState(r)
    PROVE  GateInv'
<1>1. run[r].pc \in Executing
  BY DEF Executing, SavePausedState, ClearState
<1>2. UNCHANGED <<status, approval, pending, inflight, planVars>>
  BY DEF SaveDelete, SavePausedState, ClearState, memVars
<1>3. CASE SaveDelete(r) /\ run[r].pc = "pauseDelete"
  <2>1. Goto(r, "pauseInsert") /\ saved' = <<>>
    BY <1>3 DEF SaveDelete
  <2> QED
    BY <1>1, <1>2, <2>1, GotoMoves, RowsKeep DEF Asking, Executing
<1>4. CASE SavePausedState(r)
  <2>1. Goto(r, "pausedWrite") /\ saved' = Append(saved, run[r].at)
    BY <1>4 DEF SavePausedState
  <2>2. saved \in Seq(Cursor) /\ run[r].at \in Cursor
    BY <1>4 DEF SavePausedState, TypeInv, TypeOK, ControlOK, WithPlan, PC, TryPC
  <2>3. \A i \in 1..Len(saved') :
           saved'[i] = IF i = Len(saved) + 1 THEN run[r].at ELSE saved[i]
    BY <2>1, <2>2
  <2>4. \A i \in 1..Len(saved') : i = Len(saved) + 1 \/ i \in 1..Len(saved)
    BY <2>1, <2>2
  <2>5. \A i \in 1..Len(saved') : saved'[i].plan = 1
    BY <1>1, <2>3, <2>4, ExecutingFacts DEF GateInv, OnlyFirst
  <2> QED
    BY <1>1, <1>2, <2>1, <2>5, GotoMoves, RowsKeep DEF Asking, Executing
<1>5. CASE ClearState(r)
  <2>1. run' = [run EXCEPT ![r] = Idle] /\ saved' = <<>>
    BY <1>5 DEF ClearState, Finish
  <2>2. /\ run'[r].pc = "idle" /\ ~run'[r].row
        /\ \A q \in Runs : q # r => run'[q] = run[q]
    BY <2>1, IdleMoves
  <2> QED
    BY <1>1, <1>2, <2>1, <2>2, RowsKeep DEF Asking, Executing
<1> QED
  BY <1>3, <1>4, <1>5

LEMMA ToolKeeps ==
    ASSUME TypeInv, GateInv, NEW r \in Runs, ToolSucceeds(r)
    PROVE  GateInv'
<1>1. run[r].pc \in Executing /\ run[r].pc # "idle"
  BY DEF Executing, ToolSucceeds
<1>2. UNCHANGED <<status, saved, approval, pending, inflight, nplans, gated>>
  BY DEF ToolSucceeds, dbVars, memVars
<1>3. /\ run'[r].pc = "check" /\ run'[r].row = run[r].row
      /\ run'[r].at.plan = run[r].at.plan
      /\ \A q \in Runs : q # r => run'[q] = run[q]
  BY DEF ToolSucceeds, TypeInv, TypeOK, RunState, Cursor, None
<1>4. \A p \in Plans : p # run[r].at.plan => done'[p] = done[p]
  BY DEF ToolSucceeds, TypeInv, TypeOK
<1>5. /\ nplans = 1 /\ pending = None /\ status # "pending"
      /\ run[r].at.plan = 1
      /\ gated[1] => approval[1] = "approved"
  BY <1>1, ExecutingFacts
<1>6. OnlyFirst'
  BY <1>2, <1>4, <1>5 DEF GateInv, OnlyFirst, Untouched
<1>7. Remembered' /\ Asked' /\ Unapproved'
  BY <1>2, <1>5 DEF GateInv, Remembered, Asked, Unapproved
<1>8. Alone'
  BY <1>1, <1>2, <1>3 DEF GateInv, Alone
<1>9. PlaceOK(r)'
  BY <1>2, <1>3, <1>5 DEF GateInv, PlaceOK, Asking, Executing
<1>10. ASSUME NEW q \in Runs, q # r PROVE PlaceOK(q)'
  BY <1>2, <1>3, <1>10 DEF GateInv, PlaceOK
<1> QED
  BY <1>6, <1>7, <1>8, <1>9, <1>10 DEF GateInv
-----------------------------------------------------------------------------
(* The coroutine in _running_tasks.  True of every client. *)

NotYet == {"idle", "posted", "load"}

\* What cancel reaches, and pause requires, is a coroutine that has begun.
Registered == running \in Runs => run[running].pc \notin NotYet

LEMMA RegisteredKept ==
    ASSUME Registered, NEW r \in Runs, running' = running,
           run'[r].pc \notin NotYet \/ run[r].pc \in NotYet,
           \A q \in Runs : q # r => run'[q] = run[q]
    PROVE  Registered'
BY DEF Registered

LEMMA StartRegisters ==
    ASSUME TypeInv, Registered, NEW r \in Runs,
           \/ Execute(r) \/ ExecuteArrives(r) \/ Resume(r) \/ ResumeCall(r)
           \/ Load(r) \/ GeneratePlan(r) \/ ToolSucceeds(r)
    PROVE  Registered'
<1>1. CASE Execute(r)
  BY <1>1, GotoMoves, RegisteredKept DEF Execute, NotYet, memVars
<1>2. CASE ExecuteArrives(r) \/ Resume(r) \/ ResumeCall(r)
  <2>1. PICK row \in BOOLEAN : Enter(r, row)
    BY <1>2 DEF ExecuteArrives, Resume, ResumeCall
  <2>2. run[r].pc \in NotYet
    BY <1>2 DEF ExecuteArrives, Resume, ResumeCall, NotYet
  <2>3. CASE pending # None
    <3>1. running' = r /\ run'[r].pc = "resume"
      BY <2>1, <2>3 DEF Enter, TypeInv, TypeOK
    <3> QED
      BY <3>1 DEF Registered, NotYet
  <2>4. CASE pending = None
    <3>1. running' = running
      BY <2>1, <2>4 DEF Enter
    <3> QED
      BY <2>1, <2>2, <3>1, EnterMoves, RegisteredKept
  <2> QED
    BY <2>3, <2>4
<1>3. CASE Load(r)
  <2>1. running' = r /\ run'[r].pc \in {"planning", "resume"}
    BY <1>3 DEF Load, Goto, TypeInv, TypeOK, RunState
  <2> QED
    BY <2>1 DEF Registered, NotYet
<1>4. CASE GeneratePlan(r)
  <2>1. PICK g \in GateChoices :
           run' = [run EXCEPT ![r].pc = IF g THEN "gate" ELSE "start",
                              ![r].at = [plan |-> nplans + 1, step |-> 0]]
    BY <1>4 DEF GeneratePlan
  <2>2. /\ run'[r].pc \in {"gate", "start"}
        /\ \A q \in Runs : q # r => run'[q] = run[q]
    BY <2>1 DEF TypeInv, TypeOK, RunState
  <2> QED
    BY <1>4, <2>2, RegisteredKept DEF GeneratePlan, memVars, NotYet
<1>5. CASE ToolSucceeds(r)
  <2>1. /\ run'[r].pc = "check"
        /\ \A q \in Runs : q # r => run'[q] = run[q]
    BY <1>5 DEF ToolSucceeds, TypeInv, TypeOK, RunState
  <2> QED
    BY <1>5, <2>1, RegisteredKept DEF ToolSucceeds, memVars, NotYet
<1> QED
  BY <1>1, <1>2, <1>3, <1>4, <1>5

LEMMA CoroutineRegisters ==
    ASSUME TypeInv, Registered, NEW r \in Runs, Coroutine(r) \/ Fault(r)
    PROVE  Registered'
<1>1. CASE ExecuteArrives(r) \/ Load(r) \/ GeneratePlan(r) \/ ToolSucceeds(r)
  BY <1>1, StartRegisters
<1>2. CASE ReturnLogged(r) \/ ClearState(r) \/ Stop(r) \/ FaultEscapes(r)
  <2>1. running' = NoRun
    BY <1>2 DEF ReturnLogged, ClearState, Stop, FaultEscapes, Finish
  <2> QED
    BY <2>1, ConstantFacts DEF Registered
<1>3. CASE ExecuteUnreachable(r) \/ FaultInLoad(r)
  <2>1. /\ run' = [run EXCEPT ![r] = Idle] /\ running' = running
        /\ run[r].pc \in NotYet
    BY <1>3 DEF ExecuteUnreachable, FaultInLoad, memVars, NotYet
  <2> QED
    BY <2>1, IdleMoves, RegisteredKept
<1>4. CASE \/ BeginPlanning(r) \/ GeneratePlanRaises(r) \/ StartRunning(r)
           \/ ResumeWithState(r) \/ AwaitApproval(r) \/ SaveDelete(r)
           \/ SavePlanState(r) \/ CreateApprovalRecord(r) \/ CheckStep(r)
           \/ SavePausedState(r) \/ ToolFails(r) \/ FinalizePaused(r)
           \/ FinalizeStatus(r) \/ Handler(r) \/ FaultCaught(r)
  <2>1. running' = running
    BY <1>4 DEF BeginPlanning, GeneratePlanRaises, StartRunning,
       ResumeWithState, AwaitApproval, SaveDelete, SavePlanState,
       CreateApprovalRecord, CheckStep, SavePausedState, ToolFails,
       FinalizePaused, FinalizeStatus, Handler, FaultCaught, memVars
  <2>2. PICK label : Goto(r, label) /\ label \notin NotYet
    BY <1>4 DEF BeginPlanning, GeneratePlanRaises, StartRunning,
       ResumeWithState, AwaitApproval, SaveDelete, SavePlanState,
       CreateApprovalRecord, CheckStep, SavePausedState, ToolFails,
       FinalizePaused, FinalizeStatus, Handler, FaultCaught, NotYet
  <2> QED
    BY <2>1, <2>2, GotoMoves, RegisteredKept
<1> QED
  BY <1>1, <1>2, <1>3, <1>4 DEF Coroutine, Fault

LEMMA StepRegisters ==
    TypeInv /\ Registered /\ [Next]_vars => Registered'
<1> SUFFICES ASSUME TypeInv, Registered, [Next]_vars PROVE Registered'
  OBVIOUS
<1>1. ASSUME NEW r \in Runs, Coroutine(r) \/ Fault(r) PROVE Registered'
  BY <1>1, CoroutineRegisters
<1>2. ASSUME NEW r \in Runs, Execute(r) \/ Resume(r) \/ ResumeCall(r)
      PROVE  Registered'
  BY <1>2, StartRegisters
<1>3. CASE Cancel \/ Crash
  <2>1. running' = NoRun
    BY <1>3 DEF Cancel, Crash
  <2> QED
    BY <2>1, ConstantFacts DEF Registered
<1>4. CASE \/ Pause \/ CancelUnreachable \/ PauseUnreachable \/ CancelWrite
           \/ PauseWrite \/ ApproveWrite \/ RejectWrite \/ ResumeCallLost
           \/ Restart \/ UNCHANGED vars
           \/ \E p \in Plans : Approve(p) \/ Reject(p)
  <2>1. UNCHANGED <<run, running>>
    BY <1>4 DEF Pause, CancelUnreachable, PauseUnreachable, CancelWrite,
       PauseWrite, ApproveWrite, RejectWrite, ResumeCallLost, Restart,
       Approve, Reject, vars, memVars
  <2> QED
    BY <2>1 DEF Registered
<1> QED
  BY <1>1, <1>2, <1>3, <1>4 DEF Next, Client, Server

LEMMA RegisteredAlways == Spec => []Registered
<1>1. Init => Registered
  BY ConstantFacts DEF Init, Registered
<1>2. TypeInv /\ Registered /\ [Next]_vars => Registered'
  BY StepRegisters
<1> QED
  BY <1>1, <1>2, TypeCorrect, PTL DEF Spec, TypeInv

-----------------------------------------------------------------------------
(* Requests, and the runtime process *)

Resuming == {"approve", "approveResume", "resume"}

\* Steps that stop coroutines at most, and start nothing unless it is approved.
LEMMA RequestsKeep ==
    ASSUME TypeInv, GateInv, UNCHANGED <<saved, approval, planVars>>,
           pending' \in {pending, None},
           status' = "pending" => status = "pending",
           approval[1] # "approved" =>
             /\ status' = "approved" => status = "approved"
             /\ inflight' \cap Resuming \subseteq inflight,
           \A q \in Runs :
             \/ run'[q] = run[q]
             \/ /\ run'[q].pc \in {"idle", "stopping"} /\ ~run'[q].row
                /\ run[q].pc = "idle" => run'[q].pc = "idle"
    PROVE  GateInv'
<1> USE DEF planVars
<1>1. OnlyFirst'
  BY DEF GateInv, OnlyFirst, Untouched
<1>2. Remembered' /\ Asked'
  BY DEF GateInv, Remembered, Asked
<1>3. Unapproved'
  <2>1. CASE approval[1] # "approved"
    <3>1. inflight' \cap Resuming = {}
      BY <2>1 DEF GateInv, Unapproved, Resuming
    <3> QED
      BY <2>1, <3>1 DEF GateInv, Unapproved, Untouched, Resuming
  <2>2. CASE approval[1] = "approved"
    BY <2>2 DEF Unapproved
  <2> QED
    BY <2>1, <2>2
<1>4. Alone'
  BY DEF GateInv, Alone
<1>5. ASSUME NEW q \in Runs PROVE PlaceOK(q)'
  <2>1. CASE run'[q] = run[q]
    BY <2>1 DEF GateInv, PlaceOK
  <2>2. CASE run'[q].pc \in {"idle", "stopping"} /\ ~run'[q].row
    BY <2>2 DEF PlaceOK, Asking, Executing
  <2> QED
    BY <2>1, <2>2
<1> QED
  BY <1>1, <1>2, <1>3, <1>4, <1>5 DEF GateInv

LEMMA WritesKeep ==
    ASSUME TypeInv, GateInv, Registered,
           \/ Cancel \/ Pause \/ CancelWrite \/ PauseWrite \/ CancelUnreachable
           \/ PauseUnreachable \/ ApproveWrite \/ RejectWrite \/ ResumeCallLost
           \/ Crash \/ Restart \/ UNCHANGED vars
    PROVE  GateInv'
<1>1. CASE Pause \/ CancelWrite \/ PauseWrite \/ CancelUnreachable
           \/ PauseUnreachable \/ RejectWrite \/ ResumeCallLost
           \/ Restart \/ UNCHANGED vars
  <2>1. /\ UNCHANGED <<saved, approval, pending, run, planVars>>
        /\ status' = status \/ status' \in {"cancelled", "paused", "failed"}
        /\ inflight' \cap Resuming \subseteq inflight
    BY <1>1 DEF Pause, CancelWrite, PauseWrite, CancelUnreachable,
       PauseUnreachable, RejectWrite, ResumeCallLost, Restart, vars, dbVars,
       memVars, Resuming
  <2> QED
    BY <2>1, RequestsKeep
<1>2. CASE ApproveWrite
  <2>1. /\ UNCHANGED <<saved, approval, pending, run, planVars>>
        /\ status' = "approved"
        /\ inflight \cap {"approve", "approveResume"} # {}
    BY <1>2 DEF ApproveWrite, memVars
  <2>2. approval[1] = "approved"
    BY <2>1 DEF GateInv, Unapproved
  <2> QED
    BY <2>1, <2>2, RequestsKeep
<1>3. CASE Cancel
  <2>1. /\ UNCHANGED <<status, saved, approval, pending, planVars>>
        /\ inflight' \cap Resuming \subseteq inflight
        /\ \A q \in Runs : run'[q] = IF q = running THEN Stopping ELSE run[q]
    BY <1>3 DEF Cancel, dbVars, Resuming
  <2>2. \A q \in Runs : q = running => run[q].pc # "idle"
    BY DEF Registered, NotYet
  <2>3. Stopping.pc = "stopping" /\ ~Stopping.row
    BY DEF Stopping
  <2> QED
    BY <2>1, <2>2, <2>3, RequestsKeep
<1>4. CASE Crash
  <2>1. /\ UNCHANGED <<status, saved, approval, inflight, planVars>>
        /\ pending' = None
        /\ \A q \in Runs : run'[q] = IF run[q].pc = "posted" THEN run[q] ELSE Idle
    BY <1>4 DEF Crash, dbVars
  <2>2. Idle.pc = "idle" /\ ~Idle.row
    BY DEF Idle
  <2> QED
    BY <2>1, <2>2, RequestsKeep
<1> QED
  BY <1>1, <1>2, <1>3, <1>4

\* An approval is resolved while it is pending, and only the first plan's is.
LEMMA ResolveKeeps ==
    ASSUME TypeInv, GateInv, CarefulClients, NEW p \in Plans,
           Approve(p) \/ Reject(p)
    PROVE  GateInv'
<1> USE DEF planVars
<1>1. approval[p] = "pending"
  BY DEF Approve, Reject, CarefulClients
<1>2. p = 1 /\ nplans = 1
  BY <1>1 DEF GateInv, OnlyFirst
<1>3. UNCHANGED <<status, saved, pending, run, planVars>>
  BY DEF Approve, Reject, memVars
<1>4. /\ approval'[1] \in {"approved", "rejected"}
      /\ \A q \in Plans : q # 1 => approval'[q] = approval[q]
      /\ approval'[1] = "rejected" => inflight' \cap Resuming = inflight \cap Resuming
  BY <1>2, FirstFacts DEF Approve, Reject, TypeInv, TypeOK, Resuming
<1>5. /\ saved = <<First>> /\ gated[1] /\ status # "approved" /\ Untouched(1)
      /\ inflight \cap Resuming = {}
  BY <1>1, <1>2 DEF GateInv, Asked, Unapproved, Resuming
<1>6. OnlyFirst'
  BY <1>2, <1>3, <1>4 DEF GateInv, OnlyFirst, Untouched
<1>7. Remembered' /\ Asked'
  BY <1>3, <1>5 DEF GateInv, Remembered, Asked
<1>8. Unapproved'
  BY <1>3, <1>4, <1>5 DEF Unapproved, Untouched, Resuming
<1>9. Alone'
  BY <1>4 DEF Alone
<1>10. ASSUME NEW q \in Runs PROVE PlaceOK(q)'
  <2>1. PlaceOK(q) /\ run[q].pc \notin Asking
    BY <1>1, <1>2, AskingIsAlone DEF GateInv
  <2>2. run[q].pc \notin Executing /\ ~run[q].row
    BY <1>1, <1>2, <1>5, <2>1 DEF PlaceOK
  <2> QED
    BY <1>3, <2>1, <2>2 DEF PlaceOK
<1> QED
  BY <1>6, <1>7, <1>8, <1>9, <1>10 DEF GateInv

LEMMA GateStep ==
    TypeInv /\ Registered /\ GateInv /\ CarefulClients /\ [Next]_vars => GateInv'
<1> SUFFICES ASSUME TypeInv, Registered, GateInv, CarefulClients, [Next]_vars
             PROVE  GateInv'
  OBVIOUS
<1>1. ASSUME NEW r \in Runs, Coroutine(r) \/ Fault(r) PROVE GateInv'
  <2>1. CASE \/ BeginPlanning(r) \/ GeneratePlanRaises(r) \/ StartRunning(r)
             \/ ResumeWithState(r) \/ AwaitApproval(r) \/ CheckStep(r)
             \/ ToolFails(r) \/ FinalizePaused(r) \/ FinalizeStatus(r)
             \/ FaultCaught(r) \/ Handler(r)
    BY <2>1, LanesKeep
  <2>2. CASE \/ ReturnLogged(r) \/ FaultEscapes(r) \/ FaultInLoad(r) \/ Stop(r)
             \/ ExecuteUnreachable(r)
    BY <2>2, EndsKeep
  <2>3. CASE ExecuteArrives(r) \/ Load(r) \/ GeneratePlan(r)
    BY <2>3, ArrivesKeeps, LoadKeeps, GeneratePlanKeeps
  <2>4. CASE SaveDelete(r)
    <3>1. run[r].pc \in {"saveDelete", "pauseDelete"}
      BY <2>4 DEF SaveDelete
    <3> QED
      BY <2>4, <3>1, RequestKeeps, RowWritersKeep
  <2>5. CASE SavePlanState(r) \/ CreateApprovalRecord(r)
    BY <2>5, RequestKeeps
  <2>6. CASE SavePausedState(r) \/ ClearState(r) \/ ToolSucceeds(r)
    BY <2>6, RowWritersKeep, ToolKeeps
  <2> QED
    BY <1>1, <2>1, <2>2, <2>3, <2>4, <2>5, <2>6 DEF Coroutine, Fault
<1>2. ASSUME NEW r \in Runs, Execute(r) \/ Resume(r) \/ ResumeCall(r)
      PROVE  GateInv'
  BY <1>2, ExecuteKeeps, ResumesKeep
<1>3. ASSUME NEW p \in Plans, Approve(p) \/ Reject(p) PROVE GateInv'
  BY <1>3, ResolveKeeps
<1>4. CASE \/ Cancel \/ Pause \/ CancelWrite \/ PauseWrite \/ CancelUnreachable
           \/ PauseUnreachable \/ ApproveWrite \/ RejectWrite \/ ResumeCallLost
           \/ Crash \/ Restart \/ UNCHANGED vars
  BY <1>4, WritesKeep
<1> QED
  BY <1>1, <1>2, <1>3, <1>4 DEF Next, Client, Server

LEMMA GateAlways ==
    ASSUME CarefulClients
    PROVE  Spec => []GateInv
<1>1. Init => GateInv
  BY GateInit
<1>2. TypeInv /\ Registered /\ GateInv /\ [Next]_vars => GateInv'
  BY GateStep
<1> QED
  BY <1>1, <1>2, TypeCorrect, RegisteredAlways, PTL DEF Spec, TypeInv

\* An approval open in the queue can be acted upon: save_state's row is there
\* before _create_approval_record's, and nothing deletes it until someone
\* resolves the approval, whatever crashes, is cancelled or paused meanwhile.
THEOREM OpenApprovalsResumable ==
    ASSUME CarefulClients
    PROVE  Spec => []OpenApprovalIsResumable
<1>1. GateInv => OpenApprovalIsResumable
  BY DEF GateInv, OnlyFirst, Asked, First, OpenApprovalIsResumable
<1> QED
  BY <1>1, GateAlways, PTL

\* The plan in _pending_plans is the one load_state would return after a
\* restart: _resume_with_state starts the same way from either.
THEOREM MemoryIsSaved ==
    ASSUME CarefulClients
    PROVE  Spec => []MemoryMatchesSaved
<1>1. GateInv => MemoryMatchesSaved
  BY DEF GateInv, Remembered, MemoryMatchesSaved
<1> QED
  BY <1>1, GateAlways, PTL

-----------------------------------------------------------------------------
(* Refinement *)

LEMMA ToolPerforms ==
    ASSUME TypeInv, ProgressInv, GateInv, NEW r \in Runs, ToolSucceeds(r)
    PROVE  /\ Gate!Perform(1, run[r].at.step + 1)
           /\ run[r].at.step + 1 \in Steps
           /\ \A p \in Plans : p # 1 => done'[p] = done[p]
           /\ gated[1] => approval[1] = "approved"
<1> DEFINE s == run[r].at.step + 1
           n == IF done[1][s] = 2 THEN 2 ELSE done[1][s] + 1
<1>1. run[r].pc \in Executing
  BY DEF ToolSucceeds, Executing
<1>2. run[r].at.plan = 1 /\ (gated[1] => approval[1] = "approved")
  BY <1>1, ExecutingFacts
<1>3. s \in Steps
  BY DoneGrows
<1>4. UNCHANGED <<gated, approval>>
  BY DEF ToolSucceeds, dbVars
<1>5. done \in [Plans -> [Steps -> 0..2]] /\ 1 \in Plans
  BY FirstFacts DEF TypeInv, TypeOK
<1>6. done' = [done EXCEPT ![1][s] = n]
  BY <1>2 DEF ToolSucceeds
<1>7. done[1][s] \in 0..2
  BY <1>3, <1>5
<1>8. n \in {1, 2} /\ n >= done[1][s]
  BY <1>7
<1>9. \A t \in 1..(s - 1) : done[1][t] > 0
  <2>1. s - 1 = run[r].at.step
    BY DEF ToolSucceeds, TypeInv, TypeOK, RunState, Cursor, None
  <2> QED
    BY <1>2, <2>1 DEF ProgressInv, CursorsReached, Reached
<1> HIDE DEF s, n
<1>10. done'[1][s] = n /\ \A p \in Plans : p # 1 => done'[p] = done[p]
  BY <1>3, <1>5, <1>6
<1>11. Gate!Perform(1, s)
  BY <1>2, <1>4, <1>6, <1>8, <1>9, <1>10 DEF Gate!Perform
<1> QED
  BY <1>2, <1>3, <1>10, <1>11 DEF s

LEMMA GeneratePlanProposes ==
    ASSUME TypeInv, GateInv, NEW r \in Runs, GeneratePlan(r)
    PROVE  Gate!Propose(1) \/ UNCHANGED <<gated, approval, done>>
<1>1. nplans = 0 /\ nplans + 1 = 1
  BY DEF GeneratePlan, GateInv, PlaceOK
<1>2. PICK g \in GateChoices : gated' = [gated EXCEPT ![1] = g]
  BY <1>1 DEF GeneratePlan
<1>3. g \in BOOLEAN /\ 1 \in Plans /\ gated \in [Plans -> BOOLEAN]
  BY ConstantFacts, FirstFacts DEF TypeInv, TypeOK
<1>4. ~gated[1] /\ approval[1] = "none" /\ Untouched(1)
  BY <1>1, <1>3 DEF GateInv, OnlyFirst
<1>5. UNCHANGED <<approval, done>>
  BY DEF GeneratePlan, dbVars
<1>6. CASE g = TRUE
  BY <1>2, <1>4, <1>5, <1>6 DEF Gate!Propose, Untouched
<1>7. CASE g = FALSE
  <2>1. gated' = gated
    BY <1>2, <1>3, <1>4, <1>7
  <2> QED
    BY <1>5, <2>1
<1> QED
  BY <1>3, <1>6, <1>7

\* The three tables of the gate change in four kinds of steps only.
LEMMA GateTablesKept ==
    ASSUME [Next]_vars,
           \A r \in Runs : ~ToolSucceeds(r) /\ ~GeneratePlan(r)
                           /\ ~CreateApprovalRecord(r),
           \A p \in Plans : ~Approve(p) /\ ~Reject(p)
    PROVE  UNCHANGED <<gated, approval, done>>
<1>1. ASSUME NEW r \in Runs, Coroutine(r) \/ Fault(r)
      PROVE  UNCHANGED <<gated, approval, done>>
  BY <1>1 DEF Coroutine, Fault, ExecuteArrives, ExecuteUnreachable, Load,
     BeginPlanning, GeneratePlanRaises, StartRunning, ResumeWithState,
     AwaitApproval, SaveDelete, SavePlanState, ReturnLogged, CheckStep,
     SavePausedState, ToolFails, FinalizePaused, FinalizeStatus, ClearState,
     Handler, Stop, FaultCaught, FaultEscapes, FaultInLoad, dbVars, planVars
<1>2. CASE Client \/ Server \/ Crash \/ Restart \/ UNCHANGED vars
  BY <1>2 DEF Client, Execute, Resume, Cancel, Pause, CancelUnreachable,
     PauseUnreachable, Server, CancelWrite, PauseWrite, ApproveWrite,
     RejectWrite, ResumeCallLost, ResumeCall, Crash, Restart, vars, dbVars,
     planVars
<1> QED
  BY <1>1, <1>2 DEF Next

LEMMA GateRefines ==
    ASSUME TypeInv, ProgressInv, GateInv, CarefulClients, [Next]_vars
    PROVE  [Gate!Next]_<<gated, approval, done>>
<1>0. 1 \in Plans
  BY FirstFacts
<1>1. ASSUME NEW r \in Runs, ToolSucceeds(r) PROVE Gate!Next
  BY <1>0, <1>1, ToolPerforms DEF Gate!Next
<1>2. ASSUME NEW r \in Runs, GeneratePlan(r)
      PROVE  [Gate!Next]_<<gated, approval, done>>
  BY <1>0, <1>2, GeneratePlanProposes DEF Gate!Next
<1>3. ASSUME NEW r \in Runs, CreateApprovalRecord(r) PROVE Gate!Next
  <2>1. gated[1] /\ approval[1] = "none" /\ run[r].at = First
    BY <1>3, AskingIsAlone DEF CreateApprovalRecord, Asking
  <2>2. Gate!Request(1)
    BY <1>3, <2>1, FirstFacts DEF CreateApprovalRecord, planVars, Gate!Request
  <2> QED
    BY <1>0, <2>2 DEF Gate!Next
<1>4. ASSUME NEW p \in Plans, Approve(p) \/ Reject(p) PROVE Gate!Next
  <2>1. approval[p] = "pending"
    BY <1>4 DEF Approve, Reject, CarefulClients
  <2>2. Gate!Resolve(p)
    BY <1>4, <2>1 DEF Approve, Reject, planVars, Gate!Resolve
  <2> QED
    BY <2>2 DEF Gate!Next
<1> QED
  BY <1>1, <1>2, <1>3, <1>4, GateTablesKept

LEMMA DoneChanges ==
    ASSUME [Next]_vars, done' # done
    PROVE  \E r \in Runs : ToolSucceeds(r)
<1>1. ASSUME NEW r \in Runs, GeneratePlan(r) \/ CreateApprovalRecord(r)
      PROVE  FALSE
  BY <1>1 DEF GeneratePlan, CreateApprovalRecord, planVars
<1>2. ASSUME NEW p \in Plans, Approve(p) \/ Reject(p) PROVE FALSE
  BY <1>2 DEF Approve, Reject, planVars
<1> QED
  BY <1>1, <1>2, GateTablesKept

\* What the runtime promises of a plan (module PlanGate) is what _execute_task,
\* execute_plan and the approval routes do together: the approval is asked for
\* once, resolved once, and the steps run in order and not before it is given.
THEOREM TaskImplementsGate ==
    ASSUME CarefulClients
    PROVE  Spec => ImplementsPlanGate
<1>1. Init => Gate!Init
  BY DEF Init, Gate!Init
<1>2. TypeInv /\ ProgressInv /\ GateInv /\ [Next]_vars
        => [Gate!Next]_<<gated, approval, done>>
  BY GateRefines
<1> QED
  BY <1>1, <1>2, GateAlways, ProgressAlways, TypeCorrect, PTL
     DEF Spec, TypeInv, ImplementsPlanGate, Gate!Spec

\* The gate of _execute_task holds across every way to run a plan, when clients
\* resume approved tasks only (taskrun_v_gate shows that it needs them to).
THEOREM GatedStepsApproved ==
    ASSUME CarefulClients
    PROVE  Spec => GatedStepIsApproved
<1>1. ASSUME TypeInv, ProgressInv, GateInv, [Next]_vars,
             NEW p \in Plans, done'[p] # done[p], gated[p]
      PROVE  approval[p] = "approved"
  <2>1. PICK r \in Runs : ToolSucceeds(r)
    BY <1>1, DoneChanges
  <2> QED
    BY <1>1, <2>1, ToolPerforms
<1>2. TypeInv /\ ProgressInv /\ GateInv /\ [Next]_vars
        => [\A p \in Plans : done'[p] # done[p] /\ gated[p] =>
              approval[p] = "approved"]_vars
  BY <1>1
<1> QED
  BY <1>2, GateAlways, ProgressAlways, TypeCorrect, PTL
     DEF Spec, TypeInv, GatedStepIsApproved
-----------------------------------------------------------------------------
(* One coroutine at a time, and approvals given by POST, which does not       *)
(* resume the task itself: nothing is executed twice, whatever is paused,     *)
(* cancelled, raised or restarted.  What is resumed is an approved task, and   *)
(* a task is approved before its first step.                                   *)

OneCoroutine == \A r, s \in Runs : r = s

SingleClients ==
    CarefulClients /\ OneCoroutine /\ ApproveVia \subseteq {"POST"}

Unstarted == {"posted", "load", "planning", "generate", "resume", "start"}
               \cup Asking

\* A coroutine that has begun has executed the steps up to its cursor, once.
OnceOf(r) ==
    /\ run[r].row \/ run[r].pc \in Executing => "approve" \notin inflight
    /\ run[r].pc \in Unstarted => Untouched(1)
    /\ run[r].pc \in Begun =>
         /\ status # "approved"
         /\ \A s \in Steps : done[1][s] = IF s <= run[r].at.step THEN 1 ELSE 0

OnceInv ==
    /\ AtMostOnce
    /\ inflight \cap {"approveResume", "resume"} = {}
    /\ "approve" \in inflight => status # "approved"
    /\ status = "approved" \/ "approve" \in inflight => Untouched(1)
    /\ \A r \in Runs : OnceOf(r)

LEMMA OnceInit == Init => OnceInv
<1> SUFFICES ASSUME Init PROVE OnceInv
  OBVIOUS
<1>1. \A r \in Runs : run[r].pc = "idle" /\ ~run[r].row
  BY DEF Init, Idle
<1>2. \A r \in Runs : OnceOf(r)
  BY <1>1 DEF OnceOf, Unstarted, Begun, Executing, Asking
<1> QED
  BY <1>2 DEF Init, OnceInv, AtMostOnce

\* Steps that execute nothing and approve nothing.
LEMMA OnceFrame ==
    ASSUME OnceInv, done' = done, inflight' \cap Resuming \subseteq inflight,
           status' = "approved" => status = "approved",
           \A r \in Runs : OnceOf(r)'
    PROVE  OnceInv'
<1>1. AtMostOnce'
  BY DEF OnceInv, AtMostOnce
<1>2. inflight' \cap {"approveResume", "resume"} = {}
  BY DEF OnceInv, Resuming
<1>3. "approve" \in inflight' => "approve" \in inflight
  BY DEF Resuming
<1> QED
  BY <1>1, <1>2, <1>3 DEF OnceInv, Untouched

\* Before the first step of the plan, every cursor is at its start.
LEMMA FreshCursor ==
    ASSUME TypeInv, ProgressInv, GateInv, NEW r \in Runs,
           run[r].pc \in Executing, Untouched(1)
    PROVE  run[r].at.step = 0
<1>1. run[r].at \in Cursor /\ run[r].at.plan = 1
  BY ExecutingFacts, LabelFacts DEF TypeInv, ControlOK, Executing
<1>2. \A t \in 1..run[r].at.step : done[1][t] > 0
  BY <1>1 DEF ProgressInv, CursorsReached, Reached
<1>3. 1 \in Steps /\ run[r].at.step \in Nat
  BY <1>1, ConstantFacts DEF Steps, Cursor
<1>4. ~(0 > 0) /\ done[1][1] = 0
  BY <1>3 DEF Untouched
<1>5. 1 \notin 1..run[r].at.step
  BY <1>2, <1>4
<1> QED
  BY <1>3, <1>5

LEMMA OnceMoves ==
    ASSUME TypeInv, ProgressInv, GateInv, OnceInv, NEW r \in Runs, OneCoroutine,
           done' = done, inflight' \cap Resuming \subseteq inflight,
           status' = "approved" => status = "approved",
           "approve" \notin inflight
             \/ /\ run'[r].row => run[r].row
                /\ run'[r].pc \in Executing => run[r].pc \in Executing,
           run'[r].pc \in Unstarted => run[r].pc \in Unstarted \/ Untouched(1),
           run'[r].pc \in Begun =>
             /\ run'[r].at = run[r].at
             /\ run[r].pc \in Executing
             /\ run[r].pc \in Begun \/ status' = "running"
    PROVE  OnceInv'
<1>1. OnceOf(r)
  BY DEF OnceInv
<1>2. "approve" \in inflight' => "approve" \in inflight
  BY DEF Resuming
<1>3. ASSUME run'[r].pc \in Begun
      PROVE  /\ status' # "approved"
             /\ \A s \in Steps : done[1][s] = IF s <= run[r].at.step THEN 1 ELSE 0
  <2>1. CASE run[r].pc \in Begun
    BY <1>1, <2>1 DEF OnceOf
  <2>2. CASE run[r].pc \notin Begun
    <3>1. run[r].pc \in {"resume", "start"} /\ status' = "running"
      BY <1>3, <2>2 DEF Begun
    <3>2. Untouched(1)
      BY <1>1, <3>1 DEF OnceOf, Unstarted
    <3>3. run[r].at.step = 0
      BY <3>1, <3>2, FreshCursor DEF Executing
    <3>4. \A s \in Steps : ~(s <= 0)
      BY ConstantFacts DEF Steps
    <3> QED
      BY <3>1, <3>2, <3>3, <3>4 DEF Untouched
  <2> QED
    BY <2>1, <2>2
<1>4. OnceOf(r)'
  BY <1>1, <1>2, <1>3 DEF OnceOf, Untouched
<1>5. \A q \in Runs : OnceOf(q)'
  BY <1>4 DEF OneCoroutine
<1> QED
  BY <1>5, OnceFrame

LEMMA OnceLanes ==
    ASSUME TypeInv, ProgressInv, GateInv, OnceInv, OneCoroutine, NEW r \in Runs,
           Coroutine(r) \/ Fault(r), ~Load(r), ~GeneratePlan(r),
           ~ExecuteArrives(r), ~ToolSucceeds(r)
    PROVE  OnceInv'
<1>1. CASE \/ BeginPlanning(r) \/ GeneratePlanRaises(r) \/ StartRunning(r)
           \/ ResumeWithState(r) \/ AwaitApproval(r) \/ CheckStep(r)
           \/ ToolFails(r) \/ FinalizePaused(r) \/ FinalizeStatus(r)
           \/ FaultCaught(r) \/ Handler(r)
  <2>1. PICK label \in PC \ NotEntered :
          /\ Goto(r, label)
          /\ label = "generate" => run[r].pc = "planning"
          /\ label \in Asking => run[r].pc = "gate" /\ label = "saveDelete"
          /\ label \in Executing => run[r].pc \in Executing
          /\ label \in Begun => run[r].pc \in Begun \/ status' = "running"
    BY <1>1, WritesStatus
  <2>2. /\ UNCHANGED <<done, inflight>>
        /\ status' = "approved" => status = "approved"
    BY <1>1, WritesStatus DEF GateTables, planVars
  <2>3. run'[r].pc = label /\ run'[r].at = run[r].at /\ run'[r].row = run[r].row
    BY <2>1, GotoMoves
  <2>4. label \in Unstarted => run[r].pc \in Unstarted
    BY <2>1 DEF Unstarted, Asking, NotEntered
  <2> QED
    BY <2>1, <2>2, <2>3, <2>4, OnceMoves DEF Begun
<1>2. CASE \/ SaveDelete(r) \/ SavePlanState(r) \/ CreateApprovalRecord(r)
           \/ SavePausedState(r)
  <2>1. UNCHANGED <<status, done, inflight>>
    BY <1>2 DEF SaveDelete, SavePlanState, CreateApprovalRecord,
                SavePausedState, planVars
  <2>2. PICK label :
          /\ Goto(r, label)
          /\ label \in Unstarted => run[r].pc \in Unstarted
          /\ label \in Executing => run[r].pc \in Begun
    BY <1>2 DEF SaveDelete, SavePlanState, CreateApprovalRecord,
                SavePausedState, Unstarted, Asking, Executing, Begun
  <2>3. run'[r].pc = label /\ run'[r].at = run[r].at /\ run'[r].row = run[r].row
    BY <2>2, GotoMoves
  <2> QED
    BY <2>1, <2>2, <2>3, OnceMoves DEF Begun
<1>3. CASE \/ ReturnLogged(r) \/ FaultEscapes(r) \/ FaultInLoad(r) \/ Stop(r)
           \/ ExecuteUnreachable(r) \/ ClearState(r)
  <2>1. /\ UNCHANGED <<done, inflight>> /\ run' = [run EXCEPT ![r] = Idle]
        /\ status' = status \/ status' \in {"running", "failed"}
    BY <1>3 DEF ReturnLogged, FaultEscapes, FaultInLoad, Stop,
                ExecuteUnreachable, ClearState, Finish, dbVars, planVars
  <2>2. run'[r].pc = "idle" /\ ~run'[r].row
    BY <2>1, IdleMoves
  <2> QED
    BY <2>1, <2>2, OnceMoves DEF Unstarted, Asking, Executing, Begun
<1> QED
  BY <1>1, <1>2, <1>3 DEF Coroutine, Fault
LEMMA NoPlanNoApproval ==
    ASSUME GateInv, nplans = 0
    PROVE  "approve" \notin inflight /\ Untouched(1) /\ approval[1] = "none"
<1>1. approval[1] = "none" /\ Untouched(1)
  BY FirstFacts DEF GateInv, OnlyFirst
<1> QED
  BY <1>1 DEF GateInv, Unapproved

LEMMA OnceEntered ==
    ASSUME TypeInv, ProgressInv, GateInv, OnceInv, SingleClients, NEW r \in Runs,
           \/ Execute(r) \/ ExecuteArrives(r) \/ Resume(r) \/ Load(r)
           \/ GeneratePlan(r)
    PROVE  OnceInv'
<1> USE DEF SingleClients
<1>1. CASE Execute(r)
  <2>1. /\ Goto(r, "posted") /\ UNCHANGED <<inflight, done>>
        /\ status' = "running" /\ status = "pending"
    BY <1>1 DEF Execute, CarefulClients, planVars
  <2>2. "approve" \notin inflight /\ Untouched(1)
    BY <2>1, NoPlanNoApproval DEF GateInv, OnlyFirst
  <2>3. run'[r].pc = "posted"
    BY <2>1, GotoMoves
  <2> QED
    BY <2>1, <2>2, <2>3, OnceMoves DEF Begun, Executing
<1>2. CASE ExecuteArrives(r) \/ Resume(r)
  <2>1. /\ UNCHANGED <<status, inflight, done>>
        /\ \E row \in BOOLEAN : Enter(r, row)
    BY <1>2 DEF ExecuteArrives, Resume, dbVars, planVars
  <2>2. run'[r].pc \in {"load", "resume"}
    BY <2>1, EnterMoves
  <2>3. CASE ExecuteArrives(r)
    <3>1. nplans = 0
      BY <2>3 DEF ExecuteArrives, GateInv, PlaceOK
    <3> QED
      BY <2>1, <2>2, <3>1, NoPlanNoApproval, OnceMoves DEF Begun, Executing
  <2>4. CASE Resume(r)
    <3>1. status = "approved"
      BY <2>4 DEF Resume, CarefulClients
    <3>2. "approve" \notin inflight /\ Untouched(1)
      BY <3>1 DEF OnceInv
    <3> QED
      BY <2>1, <2>2, <3>2, OnceMoves DEF Begun, Executing
  <2> QED
    BY <1>2, <2>3, <2>4
<1>3. CASE Load(r)
  <2>1. UNCHANGED <<status, inflight, done>> /\ run[r].pc = "load"
    BY <1>3 DEF Load, dbVars, planVars
  <2>2. CASE saved = <<>>
    <3>1. run'[r].pc = "planning" /\ run'[r].row = run[r].row
      BY <1>3, <2>2, GotoMoves DEF Load
    <3> QED
      BY <2>1, <3>1, OnceMoves DEF Unstarted, Begun, Executing
  <2>3. CASE saved # <<>>
    <3>1. run'[r].pc = "resume"
      BY <1>3, <2>3 DEF Load, TypeInv, TypeOK, RunState
    <3>2. run[r].row
      BY <2>1, <2>3 DEF GateInv, OnlyFirst, PlaceOK
    <3>3. "approve" \notin inflight
      BY <3>2 DEF OnceInv, OnceOf
    <3> QED
      BY <2>1, <3>1, <3>3, OnceMoves DEF Unstarted, Begun
  <2> QED
    BY <2>2, <2>3
<1>4. CASE GeneratePlan(r)
  <2>1. /\ UNCHANGED <<status, inflight, done>>
        /\ run[r].pc = "generate" /\ ~run[r].row
    BY <1>4 DEF GeneratePlan, dbVars
  <2>2. nplans = 0
    BY <2>1 DEF GateInv, PlaceOK
  <2>3. run'[r].pc \in {"gate", "start"}
    <3>1. PICK g \in GateChoices :
             run' = [run EXCEPT ![r].pc = IF g THEN "gate" ELSE "start",
                                ![r].at = [plan |-> nplans + 1, step |-> 0]]
      BY <1>4 DEF GeneratePlan
    <3> QED
      BY <3>1 DEF TypeInv, TypeOK, RunState
  <2> QED
    BY <2>1, <2>2, <2>3, NoPlanNoApproval, OnceMoves DEF Begun, Executing
<1> QED
  BY <1>1, <1>2, <1>3, <1>4

LEMMA OnceRequested ==
    ASSUME TypeInv, Registered, GateInv, OnceInv, SingleClients,
           \/ Cancel \/ Pause \/ CancelWrite \/ PauseWrite \/ CancelUnreachable
           \/ PauseUnreachable \/ RejectWrite \/ ResumeCallLost
           \/ Crash \/ Restart \/ UNCHANGED vars
           \/ \E p \in Plans : Reject(p)
    PROVE  OnceInv'
<1>1. /\ done' = done /\ inflight' \cap Resuming \subseteq inflight
      /\ status' = "approved" => status = "approved"
  BY DEF Cancel, Pause, CancelWrite, PauseWrite, CancelUnreachable,
     PauseUnreachable, RejectWrite, ResumeCallLost, Crash, Restart, Reject,
     vars, dbVars, memVars, planVars, Resuming
<1>2. \A q \in Runs : run'[q] \in {run[q], Idle, Stopping}
  <2>1. CASE Cancel
    BY <2>1 DEF Cancel
  <2>2. CASE Crash
    BY <2>2 DEF Crash
  <2>3. CASE ~Cancel /\ ~Crash
    <3>1. run' = run
      BY <2>3 DEF Pause, CancelWrite, PauseWrite, CancelUnreachable,
         PauseUnreachable, RejectWrite, ResumeCallLost, Restart, Reject, vars,
         memVars
    <3> QED
      BY <3>1
  <2> QED
    BY <2>1, <2>2, <2>3
<1>3. /\ Idle.pc = "idle" /\ ~Idle.row
      /\ Stopping.pc = "stopping" /\ ~Stopping.row
  BY DEF Idle, Stopping
<1>4. "approve" \in inflight' => "approve" \in inflight
  BY <1>1 DEF Resuming
<1>5. ASSUME NEW q \in Runs PROVE OnceOf(q)'
  <2>1. CASE run'[q] = run[q]
    BY <1>1, <1>4, <2>1 DEF OnceInv, OnceOf, Untouched
  <2>2. CASE run'[q] \in {Idle, Stopping}
    BY <1>3, <2>2 DEF OnceOf, Unstarted, Asking, Executing, Begun
  <2> QED
    BY <1>2, <2>1, <2>2
<1> QED
  BY <1>1, <1>5, OnceFrame

\* The approval comes before the first step, and its second half too.
LEMMA OnceApproved ==
    ASSUME TypeInv, GateInv, OnceInv, SingleClients,
           ApproveWrite \/ \E p \in Plans : Approve(p)
    PROVE  OnceInv'
<1> USE DEF SingleClients
<1>1. UNCHANGED <<run, done>>
  BY DEF ApproveWrite, Approve, memVars, planVars
<1>2. CASE ApproveWrite
  <2>1. /\ inflight' = inflight \ {"approve"} /\ status' = "approved"
        /\ "approve" \in inflight
    BY <1>2 DEF ApproveWrite, OnceInv
  <2>2. \A r \in Runs : run[r].pc \notin Executing
    BY <2>1 DEF OnceInv, OnceOf
  <2>3. \A r \in Runs : OnceOf(r)'
    BY <1>1, <2>1, <2>2 DEF OnceInv, OnceOf, Begun, Untouched
  <2> QED
    BY <1>1, <2>1, <2>3 DEF OnceInv, AtMostOnce, Untouched
<1>3. ASSUME NEW p \in Plans, Approve(p) PROVE OnceInv'
  <2>1. /\ approval[p] = "pending" /\ status' = status
        /\ inflight' = inflight \cup {"approve"}
    BY <1>3 DEF Approve, CarefulClients
  <2>2. p = 1
    BY <2>1 DEF GateInv, OnlyFirst
  <2>3. gated[1] /\ status # "approved" /\ Untouched(1)
    BY <2>1, <2>2 DEF GateInv, Asked, Unapproved
  <2>4. \A r \in Runs : run[r].pc \notin Executing /\ ~run[r].row
    BY <2>1, <2>2, <2>3 DEF GateInv, PlaceOK
  <2>5. \A r \in Runs : OnceOf(r)'
    BY <1>1, <2>3, <2>4 DEF OnceInv, OnceOf, Begun, Untouched
  <2>6. AtMostOnce'
    BY <1>1 DEF OnceInv, AtMostOnce
  <2> QED
    BY <1>1, <2>1, <2>3, <2>5, <2>6 DEF OnceInv, Untouched
<1> QED
  BY <1>2, <1>3

LEMMA OnceExecuted ==
    ASSUME TypeInv, GateInv, GateInv', OnceInv, SingleClients, NEW r \in Runs,
           ToolSucceeds(r)
    PROVE  OnceInv'
<1> DEFINE k == run[r].at.step
<1>1. run[r].pc \in Begun /\ run[r].pc \in Executing
  BY DEF ToolSucceeds, Begun, Executing
<1>2. run[r].at.plan = 1 /\ nplans = 1
  BY <1>1, ExecutingFacts
<1>3. /\ status # "approved" /\ "approve" \notin inflight
      /\ \A s \in Steps : done[1][s] = IF s <= k THEN 1 ELSE 0
  BY <1>1 DEF OnceInv, OnceOf
<1>4. k \in Nat /\ k + 1 \in Steps
  <2>1. run[r].at \in Cursor
    BY LabelFacts DEF ToolSucceeds, TypeInv, ControlOK
  <2> QED
    BY <2>1, DoneGrows, ConstantFacts DEF Cursor
<1>5. UNCHANGED <<status, inflight>>
  BY DEF ToolSucceeds, dbVars
<1>6. \A s \in Steps : done'[1][s] = IF s = k + 1 THEN 1 ELSE done[1][s]
  <2>1. done[1][k + 1] = 0
    BY <1>3, <1>4
  <2>2. done \in [Plans -> [Steps -> 0..2]] /\ 1 \in Plans
    BY FirstFacts DEF TypeInv, TypeOK
  <2>3. done' = [done EXCEPT ![1][k + 1] = IF @ = 2 THEN 2 ELSE @ + 1]
    BY <1>2 DEF ToolSucceeds
  <2>4. done' = [done EXCEPT ![1][k + 1] = 1]
    BY <1>4, <2>1, <2>2, <2>3
  <2> HIDE DEF k
  <2> QED
    BY <1>4, <2>2, <2>4
<1>7. \A s \in Steps : s \in Nat /\ (s <= k + 1 <=> s <= k \/ s = k + 1)
  BY <1>4 DEF Steps
<1>8. \A s \in Steps : done'[1][s] = IF s <= k + 1 THEN 1 ELSE 0
  BY <1>3, <1>6, <1>7
<1>9. /\ run'[r].pc = "check" /\ run'[r].at.step = k + 1
      /\ run'[r].row = run[r].row
  BY <1>1 DEF ToolSucceeds, TypeInv, TypeOK, RunState, Cursor, None
<1>10. OnceOf(r)'
  BY <1>3, <1>5, <1>8, <1>9 DEF OnceOf, Unstarted, Asking
<1>11. \A q \in Runs : OnceOf(q)'
  BY <1>10 DEF SingleClients, OneCoroutine
<1>12. AtMostOnce'
  <2> SUFFICES ASSUME NEW p \in Plans, NEW s \in Steps PROVE done'[p][s] < 2
    BY DEF AtMostOnce
  <2>1. CASE p = 1
    BY <1>8, <2>1
  <2>2. CASE p # 1
    BY <2>2 DEF GateInv, OnlyFirst, Untouched
  <2> QED
    BY <2>1, <2>2
<1> QED
  BY <1>3, <1>5, <1>11, <1>12 DEF OnceInv

LEMMA OnceStep ==
    /\ TypeInv /\ Registered /\ ProgressInv /\ GateInv /\ OnceInv
    /\ SingleClients /\ [Next]_vars
    => OnceInv'
<1> SUFFICES ASSUME TypeInv, Registered, ProgressInv, GateInv, OnceInv,
                    SingleClients, [Next]_vars
             PROVE  OnceInv'
  OBVIOUS
<1>1. GateInv' /\ OneCoroutine
  BY GateStep DEF SingleClients
<1>2. ASSUME NEW r \in Runs, Coroutine(r) \/ Fault(r) PROVE OnceInv'
  <2>1. CASE ExecuteArrives(r) \/ Load(r) \/ GeneratePlan(r)
    BY <2>1, OnceEntered
  <2>2. CASE ToolSucceeds(r)
    BY <1>1, <2>2, OnceExecuted
  <2> QED
    BY <1>1, <1>2, <2>1, <2>2, OnceLanes
<1>3. ASSUME NEW r \in Runs, Execute(r) \/ Resume(r) PROVE OnceInv'
  BY <1>3, OnceEntered
<1>4. ASSUME NEW r \in Runs, ResumeCall(r) PROVE OnceInv'
  BY <1>4 DEF ResumeCall, OnceInv
<1>5. CASE ApproveWrite \/ \E p \in Plans : Approve(p)
  BY <1>5, OnceApproved
<1>6. CASE \/ Cancel \/ Pause \/ CancelWrite \/ PauseWrite \/ CancelUnreachable
           \/ PauseUnreachable \/ RejectWrite \/ ResumeCallLost
           \/ Crash \/ Restart \/ UNCHANGED vars
           \/ \E p \in Plans : Reject(p)
  BY <1>6, OnceRequested
<1> QED
  BY <1>2, <1>3, <1>4, <1>5, <1>6 DEF Next, Client, Server

LEMMA OnceAlways ==
    ASSUME SingleClients
    PROVE  Spec => []OnceInv
<1>1. Init => OnceInv
  BY OnceInit
<1>2. /\ TypeInv /\ Registered /\ ProgressInv /\ GateInv /\ OnceInv
      /\ [Next]_vars
      => OnceInv'
  BY OnceStep
<1>3. Spec => []GateInv
  BY GateAlways DEF SingleClients
<1> QED
  BY <1>1, <1>2, <1>3, TypeCorrect, RegisteredAlways, ProgressAlways, PTL
     DEF Spec, TypeInv

\* No step is executed twice by one client that resumes approved tasks only,
\* whatever it cancels and pauses, and whatever crashes: neither the row
\* ResumeWithState leaves in workflow_states nor the copy popped from
\* _pending_plans is ever executed again.
THEOREM ExecutedAtMostOnce ==
    ASSUME SingleClients
    PROVE  Spec => []AtMostOnce
<1>1. OnceInv => AtMostOnce
  BY DEF OnceInv
<1> QED
  BY <1>1, OnceAlways, PTL
-----------------------------------------------------------------------------
(* The same clients, never pausing: the row of an approved plan outlives      *)
(* every crash until the plan is executed, or the task failed or cancelled.   *)

QuietClients == SingleClients /\ PauseFrom = {}

Settled == status \in {"failed", "cancelled"} \/ Executed(1)

SavedOf(r) ==
    /\ run[r].pc \notin {"pauseDelete", "pauseInsert", "pausedWrite"}
    /\ run[r].pc = "clear" => Settled
    /\ run[r].pc = "start" => ~gated[1]
    /\ run[r].pc = "resume" => run[r].row
    /\ run[r].row =>
         saved = <<First>> /\ run[r].pc \notin {"planning", "generate"}

SavedInv ==
    /\ ~paused /\ "pause" \notin inflight
    /\ "approve" \in inflight => saved = <<First>>
    /\ approval[1] = "approved" => saved = <<First>> \/ Settled
    /\ \A r \in Runs : SavedOf(r)

LEMMA SavedInit == Init => SavedInv
<1> SUFFICES ASSUME Init PROVE SavedInv
  OBVIOUS
<1>1. \A r \in Runs : run[r].pc = "idle" /\ ~run[r].row
  BY DEF Init, Idle
<1>2. approval[1] = "none"
  BY FirstFacts DEF Init
<1> QED
  BY <1>1, <1>2 DEF Init, SavedInv, SavedOf

\* What a step that leaves the row alone has to see to.
StaysSettled ==
    Settled => Settled' \/ approval[1] # "approved" \/ saved = <<First>>

LEMMA SavedFrame ==
    ASSUME SavedInv, UNCHANGED <<saved, approval>>, StaysSettled,
           ~paused', "pause" \notin inflight',
           "approve" \in inflight' => "approve" \in inflight,
           \A r \in Runs : SavedOf(r)'
    PROVE  SavedInv'
BY DEF SavedInv, StaysSettled

\* Steps of the coroutine that leave the row alone.
LEMMA SavedGoto ==
    ASSUME TypeInv, SavedInv, OneCoroutine, NEW r \in Runs, NEW label,
           Goto(r, label), UNCHANGED <<saved, approval, gated, inflight, paused>>,
           StaysSettled, label = "clear" => Settled',
           label = "generate" => ~run[r].row,
           label \notin {"pauseDelete", "pauseInsert", "pausedWrite", "start",
                         "resume", "planning"}
    PROVE  SavedInv'
<1>1. run'[r].pc = label /\ run'[r].row = run[r].row
  BY GotoMoves
<1>2. SavedOf(r)'
  BY <1>1 DEF SavedInv, SavedOf
<1>3. \A q \in Runs : SavedOf(q)'
  BY <1>2 DEF OneCoroutine
<1> QED
  BY <1>3, SavedFrame DEF SavedInv

\* A status written while the task is not approved, its row is there, or that
\* settles it.
LEMMA SettledKept ==
    ASSUME done' = done,
           \/ status' = status \/ status' \in {"failed", "cancelled"}
           \/ approval[1] # "approved" \/ saved = <<First>> \/ Executed(1)
    PROVE  StaysSettled
BY DEF StaysSettled, Settled, Executed

LEMMA SavedLanes ==
    ASSUME TypeInv, ProgressInv, GateInv, SavedInv, OneCoroutine, NEW r \in Runs,
           \/ BeginPlanning(r) \/ GeneratePlanRaises(r) \/ StartRunning(r)
           \/ ResumeWithState(r) \/ AwaitApproval(r) \/ CheckStep(r)
           \/ ToolFails(r) \/ FinalizePaused(r) \/ FinalizeStatus(r)
           \/ FaultCaught(r) \/ Handler(r)
    PROVE  SavedInv'
<1>1. SavedOf(r) /\ PlaceOK(r)
  BY DEF SavedInv, GateInv
<1>2. CASE BeginPlanning(r)
  <2>1. /\ Goto(r, "generate") /\ run[r].pc = "planning"
        /\ UNCHANGED <<saved, approval, gated, inflight, paused, done>>
    BY <1>2 DEF BeginPlanning, memVars, planVars
  <2>2. ~run[r].row /\ approval[1] = "none"
    BY <1>1, <2>1, NoPlanNoApproval DEF SavedOf, PlaceOK
  <2> QED
    BY <2>1, <2>2, SettledKept, SavedGoto
<1>3. CASE AwaitApproval(r)
  <2>1. /\ Goto(r, "saveDelete") /\ run[r].pc = "gate"
        /\ UNCHANGED <<saved, approval, gated, inflight, paused, done>>
    BY <1>3 DEF AwaitApproval, memVars, planVars
  <2>2. approval[1] = "none"
    BY <2>1, AskingIsAlone DEF Asking
  <2> QED
    BY <2>1, <2>2, SettledKept, SavedGoto
<1>4. CASE StartRunning(r) \/ ResumeWithState(r)
  <2>1. /\ Goto(r, "check") /\ run[r].pc \in {"start", "resume"}
        /\ UNCHANGED <<saved, approval, gated, inflight, paused, done>>
    BY <1>4 DEF StartRunning, ResumeWithState, memVars, planVars
  <2>2. approval[1] = "none" \/ saved = <<First>>
    BY <1>1, <2>1 DEF SavedOf, GateInv, Asked
  <2> QED
    BY <2>1, <2>2, SettledKept, SavedGoto
<1>5. CASE GeneratePlanRaises(r) \/ ToolFails(r) \/ FaultCaught(r) \/ CheckStep(r)
  <2>1. /\ status' = status
        /\ UNCHANGED <<saved, approval, gated, inflight, paused, done>>
    BY <1>5 DEF GeneratePlanRaises, ToolFails, FaultCaught, CheckStep, dbVars,
                memVars, planVars
  <2>2. PICK label \in {"handler", "retry", "failing", "complete", "cancelled",
                        "tool"} :
           Goto(r, label)
    BY <1>5 DEF GeneratePlanRaises, ToolFails, FaultCaught, CheckStep, SavedInv
  <2> QED
    BY <2>1, <2>2, SettledKept, SavedGoto
<1>6. CASE FinalizePaused(r)
  BY <1>1, <1>6 DEF FinalizePaused, SavedOf
<1>7. CASE FinalizeStatus(r)
  <2>1. /\ Goto(r, "clear") /\ run[r].pc \in {"failing", "cancelled", "complete"}
        /\ UNCHANGED <<saved, approval, gated, inflight, paused, done>>
    BY <1>7 DEF FinalizeStatus, memVars, planVars
  <2>2. CASE run[r].pc = "complete"
    <3>1. run[r].at.plan = 1 /\ run[r].at.step = NSteps
      BY <1>1, <2>2 DEF PlaceOK, Executing, TypeInv, ControlOK
    <3>2. Executed(1)
      BY <3>1 DEF ProgressInv, CursorsReached, Reached, Executed, Steps
    <3> QED
      BY <2>1, <3>2, SettledKept, SavedGoto DEF Settled, Executed
  <2>3. CASE run[r].pc \in {"failing", "cancelled"}
    <3>1. status' \in {"failed", "cancelled"}
      BY <1>7, <2>3 DEF FinalizeStatus, FinalStatus
    <3> QED
      BY <2>1, <3>1, SettledKept, SavedGoto DEF Settled
  <2> QED
    BY <2>1, <2>2, <2>3
<1>8. CASE Handler(r)
  <2>1. /\ Goto(r, "handled") /\ status' = "failed"
        /\ UNCHANGED <<saved, approval, gated, inflight, paused, done>>
    BY <1>8 DEF Handler, memVars, planVars
  <2> QED
    BY <2>1, SettledKept, SavedGoto
<1> QED
  BY <1>2, <1>3, <1>4, <1>5, <1>6, <1>7, <1>8
\* The coroutine that ends; the one that ends a run of the plan deletes its row.
LEMMA SavedEnds ==
    ASSUME TypeInv, GateInv, OnceInv, SavedInv, OneCoroutine, NEW r \in Runs,
           \/ ReturnLogged(r) \/ FaultEscapes(r) \/ FaultInLoad(r) \/ Stop(r)
           \/ ExecuteUnreachable(r) \/ ClearState(r)
    PROVE  SavedInv'
<1>1. /\ UNCHANGED <<approval, inflight, paused, done>>
      /\ run' = [run EXCEPT ![r] = Idle]
      /\ \/ status' = status \/ status' = "failed"
         \/ run[r].pc = "resume"
  BY DEF ReturnLogged, FaultEscapes, FaultInLoad, Stop, ExecuteUnreachable,
         ClearState, Finish, dbVars, memVars, planVars
<1>2. run'[r].pc = "idle" /\ ~run'[r].row
  BY <1>1, IdleMoves
<1>3. \A q \in Runs : SavedOf(q)'
  BY <1>2 DEF OneCoroutine, SavedOf
<1>4. SavedOf(r)
  BY DEF SavedInv
<1>5. CASE ClearState(r)
  <2>1. run[r].pc = "clear" /\ status' = status
    BY <1>5 DEF ClearState
  <2>2. Settled'
    BY <1>1, <1>4, <2>1 DEF SavedOf, Settled, Executed
  <2>3. "approve" \notin inflight
    BY <2>1 DEF OnceInv, OnceOf, Executing
  <2> QED
    BY <1>1, <1>3, <2>2, <2>3 DEF SavedInv
<1>6. CASE ~ClearState(r)
  <2>1. saved' = saved
    BY <1>6 DEF ReturnLogged, FaultEscapes, FaultInLoad, Stop,
                ExecuteUnreachable, dbVars
  <2>2. run[r].pc = "resume" => saved = <<First>>
    BY <1>4 DEF SavedOf
  <2>3. StaysSettled
    BY <1>1, <2>2, SettledKept
  <2> QED
    BY <1>1, <1>3, <2>1, <2>3, SavedFrame DEF SavedInv
<1> QED
  BY <1>5, <1>6

\* While the approval is not asked for, nothing is promised of the row.
LEMMA SavedAsks ==
    ASSUME TypeInv, GateInv, SavedInv, OneCoroutine, NEW r \in Runs,
           \/ SaveDelete(r) \/ SavePlanState(r) \/ CreateApprovalRecord(r)
           \/ SavePausedState(r)
    PROVE  SavedInv'
<1>1. SavedOf(r)
  BY DEF SavedInv
<1>2. run[r].pc \in Asking
  BY <1>1 DEF SavedOf, Asking, SaveDelete, SavePlanState, CreateApprovalRecord,
              SavePausedState
<1>3. /\ run[r].at = First /\ ~run[r].row /\ approval[1] = "none"
      /\ run[r].pc \notin {"pauseDelete", "pauseInsert"}
  BY <1>2, AskingIsAlone DEF Asking
<1>4. "approve" \notin inflight
  BY <1>3 DEF GateInv, Unapproved
<1>5. UNCHANGED <<inflight, paused>>
  BY DEF SaveDelete, SavePlanState, CreateApprovalRecord, SavePausedState, memVars
<1>6. approval'[1] # "approved"
  BY <1>3, FirstFacts DEF SaveDelete, SavePlanState, CreateApprovalRecord,
     SavePausedState, TypeInv, TypeOK
<1>7. PICK label \in {"saveInsert", "record", "lastLog"} : Goto(r, label)
  BY <1>3 DEF SaveDelete, SavePlanState, CreateApprovalRecord, SavePausedState
<1>8. run'[r].pc = label /\ ~run'[r].row
  BY <1>3, <1>7, GotoMoves
<1>9. \A q \in Runs : SavedOf(q)'
  BY <1>8 DEF OneCoroutine, SavedOf
<1> QED
  BY <1>4, <1>5, <1>6, <1>9 DEF SavedInv

LEMMA SavedEntered ==
    ASSUME TypeInv, GateInv, OnceInv, SavedInv, SingleClients, NEW r \in Runs,
           \/ Execute(r) \/ ExecuteArrives(r) \/ Resume(r) \/ Load(r)
           \/ GeneratePlan(r)
    PROVE  SavedInv'
<1> USE DEF SingleClients
<1>1. SavedOf(r) /\ PlaceOK(r)
  BY DEF SavedInv, GateInv
<1>2. UNCHANGED <<saved, approval, inflight, paused, done>>
  BY DEF Execute, ExecuteArrives, Resume, Load, GeneratePlan, dbVars, memVars,
         planVars
<1>3. StaysSettled
  <2>1. CASE Execute(r)
    <3>1. nplans = 0
      BY <2>1 DEF Execute, CarefulClients, GateInv, OnlyFirst
    <3> QED
      BY <1>2, <3>1, NoPlanNoApproval, SettledKept
  <2>2. CASE ~Execute(r)
    <3>1. status' = status
      BY <2>2 DEF ExecuteArrives, Resume, Load, GeneratePlan, dbVars
    <3> QED
      BY <1>2, <3>1, SettledKept
  <2> QED
    BY <2>1, <2>2
<1>4. CASE Execute(r)
  <2>1. run[r].pc = "idle" /\ run'[r].pc = "posted" /\ run'[r].row = run[r].row
    BY <1>4, GotoMoves DEF Execute
  <2>2. SavedOf(r)'
    BY <1>1, <1>2, <2>1 DEF SavedOf
  <2> QED
    BY <1>2, <1>3, <2>2, SavedFrame DEF SavedInv, OneCoroutine
<1>5. CASE ExecuteArrives(r)
  <2>1. pending = None
    BY <1>1, <1>5 DEF ExecuteArrives, PlaceOK, GateInv, OnlyFirst
  <2>2. run'[r].pc = "load" /\ ~run'[r].row
    BY <1>5, <2>1, EnterMoves DEF ExecuteArrives
  <2>3. SavedOf(r)'
    BY <2>2 DEF SavedOf
  <2> QED
    BY <1>2, <1>3, <2>3, SavedFrame DEF SavedInv, OneCoroutine
<1>6. CASE Resume(r)
  <2>1. status = "approved"
    BY <1>6 DEF Resume, CarefulClients
  <2>2. approval[1] = "approved" /\ Untouched(1)
    BY <2>1 DEF GateInv, Unapproved, OnceInv
  <2>3. ~Settled
    <3>1. 1 \in Steps
      BY ConstantFacts DEF Steps
    <3>2. done[1][1] = 0
      BY <2>2, <3>1 DEF Untouched
    <3> QED
      BY <2>1, <3>1, <3>2 DEF Settled, Executed
  <2>4. saved = <<First>>
    BY <2>2, <2>3 DEF SavedInv
  <2>5. run'[r].pc \in {"load", "resume"} /\ run'[r].row
    BY <1>6, EnterMoves DEF Resume
  <2>6. SavedOf(r)'
    BY <1>2, <2>4, <2>5 DEF SavedOf
  <2> QED
    BY <1>2, <1>3, <2>6, SavedFrame DEF SavedInv, OneCoroutine
<1>7. CASE Load(r)
  <2>1. run[r].pc = "load"
    BY <1>7 DEF Load
  <2>2. CASE saved = <<>>
    <3>1. ~run[r].row
      BY <1>1, <2>2, FirstFacts DEF SavedOf
    <3>2. run'[r].pc = "planning" /\ run'[r].row = run[r].row
      BY <1>7, <2>2, GotoMoves DEF Load
    <3>3. SavedOf(r)'
      BY <3>1, <3>2 DEF SavedOf
    <3> QED
      BY <1>2, <1>3, <3>3, SavedFrame DEF SavedInv, OneCoroutine
  <2>3. CASE saved # <<>>
    <3>1. run[r].row
      BY <1>1, <2>1, <2>3 DEF GateInv, OnlyFirst, PlaceOK
    <3>2. run'[r].pc = "resume" /\ run'[r].row = run[r].row
      BY <1>7, <2>3 DEF Load, TypeInv, TypeOK, RunState
    <3>3. SavedOf(r)'
      BY <1>1, <1>2, <3>1, <3>2 DEF SavedOf
    <3> QED
      BY <1>2, <1>3, <3>3, SavedFrame DEF SavedInv, OneCoroutine
  <2> QED
    BY <2>2, <2>3
<1>8. CASE GeneratePlan(r)
  <2>1. ~run[r].row /\ nplans = 0
    BY <1>1, <1>8 DEF GeneratePlan, PlaceOK
  <2>2. PICK g \in GateChoices :
          /\ gated' = [gated EXCEPT ![1] = g]
          /\ run' = [run EXCEPT ![r].pc = IF g THEN "gate" ELSE "start",
                                ![r].at = First]
    <3>1. [plan |-> nplans + 1, step |-> 0] = First /\ nplans + 1 = 1
      BY <2>1 DEF First
    <3> QED
      BY <1>8, <3>1 DEF GeneratePlan
  <2>3. /\ run'[r].pc = (IF g THEN "gate" ELSE "start")
        /\ run'[r].row = run[r].row
    BY <2>2 DEF TypeInv, TypeOK, RunState
  <2>4. g \in BOOLEAN /\ gated'[1] = g
    BY <2>2, ConstantFacts, FirstFacts DEF TypeInv, TypeOK
  <2>5. SavedOf(r)'
    BY <2>1, <2>3, <2>4 DEF SavedOf
  <2> QED
    BY <1>2, <1>3, <2>5, SavedFrame DEF SavedInv, OneCoroutine
<1> QED
  BY <1>4, <1>5, <1>6, <1>7, <1>8

LEMMA SavedExecuted ==
    ASSUME TypeInv, SavedInv, OneCoroutine, NEW r \in Runs, ToolSucceeds(r)
    PROVE  SavedInv'
<1>1. UNCHANGED <<status, saved, approval, inflight, paused>>
  BY DEF ToolSucceeds, dbVars, memVars
<1>2. Executed(1) => Executed(1)'
  BY DoneGrows, FirstFacts DEF Executed
<1>3. run'[r].pc = "check" /\ run'[r].row = run[r].row
  BY DEF ToolSucceeds, TypeInv, TypeOK, RunState
<1>4. SavedOf(r)'
  BY <1>1, <1>3 DEF SavedInv, SavedOf
<1>5. StaysSettled
  BY <1>1, <1>2 DEF StaysSettled, Settled
<1> QED
  BY <1>1, <1>4, <1>5, SavedFrame DEF SavedInv, OneCoroutine

LEMMA SavedRequested ==
    ASSUME TypeInv, Registered, GateInv, OnceInv, SavedInv, QuietClients,
           \/ Cancel \/ Pause \/ CancelWrite \/ PauseWrite \/ CancelUnreachable
           \/ PauseUnreachable \/ ApproveWrite \/ RejectWrite \/ ResumeCallLost
           \/ Crash \/ Restart \/ UNCHANGED vars
           \/ \E p \in Plans : Approve(p) \/ Reject(p)
    PROVE  SavedInv'
<1> USE DEF QuietClients, SingleClients
<1>1. ~Pause /\ ~PauseUnreachable /\ ~PauseWrite
  BY DEF Pause, PauseUnreachable, PauseWrite, SavedInv
<1>2. UNCHANGED <<saved, gated, done>> /\ ~paused' /\ "pause" \notin inflight'
  BY <1>1 DEF Cancel, CancelWrite, CancelUnreachable, ApproveWrite, RejectWrite,
     ResumeCallLost, Crash, Restart, Approve, Reject, vars, dbVars, memVars,
     planVars, SavedInv
<1>3. \A q \in Runs : run'[q] \in {run[q], Idle, Stopping}
  <2>1. CASE Cancel
    BY <2>1 DEF Cancel
  <2>2. CASE Crash
    BY <2>2 DEF Crash
  <2>3. CASE ~Cancel /\ ~Crash
    <3>1. run' = run
      BY <1>1, <2>3 DEF CancelWrite, CancelUnreachable, ApproveWrite,
         RejectWrite, ResumeCallLost, Restart, Approve, Reject, vars, memVars
    <3> QED
      BY <3>1
  <2> QED
    BY <2>1, <2>2, <2>3
<1>4. /\ Idle.pc = "idle" /\ ~Idle.row
      /\ Stopping.pc = "stopping" /\ ~Stopping.row
  BY DEF Idle, Stopping
<1>5. ASSUME NEW q \in Runs, run[q].pc = "clear" => Settled' PROVE SavedOf(q)'
  <2>1. CASE run'[q] = run[q]
    BY <1>2, <1>5, <2>1 DEF SavedInv, SavedOf
  <2>2. CASE run'[q] \in {Idle, Stopping}
    BY <1>4, <2>2 DEF SavedOf
  <2> QED
    BY <1>3, <2>1, <2>2
<1>6. CASE ApproveWrite
  <2>1. /\ UNCHANGED approval /\ inflight' = inflight \ {"approve"}
        /\ "approve" \in inflight
    BY <1>6 DEF ApproveWrite, OnceInv
  <2>2. saved = <<First>> /\ \A q \in Runs : run[q].pc # "clear"
    BY <2>1 DEF SavedInv, OnceInv, OnceOf, Executing
  <2>3. \A q \in Runs : SavedOf(q)'
    BY <1>5, <2>2
  <2> QED
    BY <1>2, <2>1, <2>2, <2>3 DEF SavedInv
<1>7. ASSUME NEW p \in Plans, Approve(p) PROVE SavedInv'
  <2>1. /\ approval[p] = "pending" /\ status' = status
        /\ inflight' = inflight \cup {"approve"}
    BY <1>7 DEF Approve, CarefulClients
  <2>2. p = 1
    BY <2>1 DEF GateInv, OnlyFirst
  <2>3. saved = <<First>>
    BY <2>1, <2>2 DEF GateInv, Asked
  <2>4. Settled => Settled'
    BY <1>2, <2>1 DEF Settled, Executed
  <2>5. \A q \in Runs : SavedOf(q)'
    BY <1>5, <2>4 DEF SavedInv, SavedOf
  <2> QED
    BY <1>2, <2>3, <2>5 DEF SavedInv
<1>8. ASSUME NEW p \in Plans, Reject(p) PROVE SavedInv'
  <2>1. /\ approval[p] = "pending" /\ status' = status
        /\ inflight' = inflight \cup {"reject"}
        /\ approval' = [approval EXCEPT ![p] = "rejected"]
    BY <1>8 DEF Reject, CarefulClients
  <2>2. approval'[1] = "approved" => approval[1] = "approved"
    BY <2>1, FirstFacts DEF TypeInv, TypeOK
  <2>3. Settled => Settled'
    BY <1>2, <2>1 DEF Settled, Executed
  <2>4. \A q \in Runs : SavedOf(q)'
    BY <1>5, <2>3 DEF SavedInv, SavedOf
  <2> QED
    BY <1>2, <2>1, <2>2, <2>3, <2>4 DEF SavedInv
<1>9. CASE \/ Cancel \/ CancelWrite \/ CancelUnreachable \/ RejectWrite
           \/ ResumeCallLost \/ Crash \/ Restart \/ UNCHANGED vars
  <2>1. /\ UNCHANGED approval /\ ("approve" \in inflight' => "approve" \in inflight)
        /\ status' = status \/ status' \in {"failed", "cancelled"}
    BY <1>9 DEF Cancel, CancelWrite, CancelUnreachable, RejectWrite,
       ResumeCallLost, Crash, Restart, vars, dbVars
  <2>2. Settled => Settled'
    BY <1>2, <2>1 DEF Settled, Executed
  <2>3. \A q \in Runs : SavedOf(q)'
    BY <1>5, <2>2 DEF SavedInv, SavedOf
  <2> QED
    BY <1>2, <2>1, <2>2, <2>3, SavedFrame DEF StaysSettled
<1> QED
  BY <1>1, <1>6, <1>7, <1>8, <1>9

LEMMA SavedStep ==
    /\ TypeInv /\ Registered /\ ProgressInv /\ GateInv /\ OnceInv /\ SavedInv
    /\ QuietClients /\ [Next]_vars
    => SavedInv'
<1> SUFFICES ASSUME TypeInv, Registered, ProgressInv, GateInv, OnceInv,
                    SavedInv, QuietClients, [Next]_vars
             PROVE  SavedInv'
  OBVIOUS
<1>1. SingleClients /\ OneCoroutine
  BY DEF QuietClients, SingleClients
<1>2. ASSUME NEW r \in Runs, Coroutine(r) \/ Fault(r) PROVE SavedInv'
  <2>1. CASE \/ BeginPlanning(r) \/ GeneratePlanRaises(r) \/ StartRunning(r)
             \/ ResumeWithState(r) \/ AwaitApproval(r) \/ CheckStep(r)
             \/ ToolFails(r) \/ FinalizePaused(r) \/ FinalizeStatus(r)
             \/ FaultCaught(r) \/ Handler(r)
    BY <1>1, <2>1, SavedLanes
  <2>2. CASE \/ ReturnLogged(r) \/ FaultEscapes(r) \/ FaultInLoad(r) \/ Stop(r)
             \/ ExecuteUnreachable(r) \/ ClearState(r)
    BY <1>1, <2>2, SavedEnds
  <2>3. CASE \/ SaveDelete(r) \/ SavePlanState(r) \/ CreateApprovalRecord(r)
             \/ SavePausedState(r)
    BY <1>1, <2>3, SavedAsks
  <2>4. CASE ExecuteArrives(r) \/ Load(r) \/ GeneratePlan(r)
    BY <1>1, <2>4, SavedEntered
  <2>5. CASE ToolSucceeds(r)
    BY <1>1, <2>5, SavedExecuted
  <2> QED
    BY <1>2, <2>1, <2>2, <2>3, <2>4, <2>5 DEF Coroutine, Fault
<1>3. ASSUME NEW r \in Runs, Execute(r) \/ Resume(r) PROVE SavedInv'
  BY <1>1, <1>3, SavedEntered
<1>4. ASSUME NEW r \in Runs, ResumeCall(r) PROVE SavedInv'
  BY <1>4 DEF ResumeCall, OnceInv
<1>5. CASE \/ Cancel \/ Pause \/ CancelWrite \/ PauseWrite \/ CancelUnreachable
           \/ PauseUnreachable \/ ApproveWrite \/ RejectWrite \/ ResumeCallLost
           \/ Crash \/ Restart \/ UNCHANGED vars
           \/ \E p \in Plans : Approve(p) \/ Reject(p)
  BY <1>5, SavedRequested
<1> QED
  BY <1>2, <1>3, <1>4, <1>5 DEF Next, Client, Server

\* An approved plan keeps its row until it is executed, or the task failed or
\* was cancelled: what _resume_with_state needs after a restart is not deleted
\* by clear_state or save_state before.
THEOREM ApprovedStaysSaved ==
    ASSUME QuietClients
    PROVE  Spec => []ApprovedPlanIsSaved
<1>1. GateInv /\ SavedInv => ApprovedPlanIsSaved
  <2> SUFFICES ASSUME GateInv, SavedInv, NEW p \in Plans,
                      approval[p] = "approved", ~Executed(p),
                      status \notin {"failed", "cancelled"}
               PROVE  \E i \in 1..Len(saved) : saved[i].plan = p
    BY DEF ApprovedPlanIsSaved
  <2>1. p = 1
    BY DEF GateInv, OnlyFirst
  <2>2. saved = <<First>>
    BY <2>1 DEF SavedInv, Settled
  <2>3. Len(saved) = 1 /\ saved[1] = First
    BY <2>2
  <2> QED
    BY <2>1, <2>3, FirstFacts
<1>2. Init => SavedInv
  BY SavedInit
<1>3. /\ TypeInv /\ Registered /\ ProgressInv /\ GateInv /\ OnceInv /\ SavedInv
      /\ [Next]_vars
      => SavedInv'
  BY SavedStep
<1>4. CarefulClients /\ SingleClients
  BY DEF QuietClients, SingleClients
<1>5. Spec => [](GateInv /\ OnceInv)
  BY <1>4, GateAlways, OnceAlways, PTL
<1> QED
  BY <1>1, <1>2, <1>3, <1>5, TypeCorrect, RegisteredAlways, ProgressAlways, PTL
     DEF Spec, TypeInv
=============================================================================
