-------------------------- MODULE RollbackProofs ---------------------------
(***************************************************************************)
(* What holds of rollbacks for any number of requests, plans, connections,  *)
(* faults and crashes: types, the connections that are left, what rolled    *)
(* back means; until a statement raises, that executed plans are recorded   *)
(* and answered requests settled; and, through one statement that raises,   *)
(* that a plan is carried out at most once by rollbacks that were alone.    *)
(***************************************************************************)
EXTENDS Rollback, FiniteSetTheorems, TLAPS

LEMMA ConstantFacts ==
    /\ IsFiniteSet(Requests) /\ IsFiniteSet(Plans)
    /\ Kinds \subseteq {"plan", "task", "dry"} /\ ActorChoices \subseteq BOOLEAN
    /\ PoolSize \in Nat \ {0} /\ MaxOpen \in Nat
    /\ MaxFaults \in Nat /\ MaxCrashes \in Nat
BY RequestsAssumption, ChoiceAssumption, PoolAssumption, FaultAssumption

LEMMA Labels ==
    /\ Holding = {"insert", "announce", "complete", "mark", "roll", "report",
                  "failing", "preview"}
    /\ Ended = {"done", "raised", "lost"}
    /\ PC = {"idle", "select", "acquire", "transition", "transitioned",
             "insert", "announce", "complete", "mark", "roll", "report",
             "failing", "preview", "done", "raised", "lost"}
BY DEF Holding, Before, Try, Ended, Answered, PC, Outside

\* A request that only moves.
LEMMA GotoTyped ==
    ASSUME TypeOK, NEW r \in Requests, NEW label \in PC, Goto(r, label)
    PROVE  /\ req' \in [Requests -> Request]
           /\ req'[r].pc = label
           /\ req'[r].todo = req[r].todo
           /\ req'[r].kind = req[r].kind /\ req'[r].user = req[r].user
           /\ \A s \in Requests : s # r => req'[s] = req[s]
BY DEF Goto, TypeOK, Request

LEMMA ReturnTyped ==
    ASSUME TypeOK, NEW r \in Requests, NEW p \in Plans, Return(r, p)
    PROVE  /\ req' \in [Requests -> Request]
           /\ req'[r].todo = req[r].todo \ {p}
           /\ req'[r].pc \in {"acquire", "transition", "done"}
           /\ req'[r].pc = "transition" => req[r].kind = "task"
           /\ req'[r].pc # "acquire" => req'[r].todo = {}
           /\ req'[r].kind = req[r].kind /\ req'[r].user = req[r].user
           /\ \A s \in Requests : s # r => req'[s] = req[s]
<1>1. req[r] \in Request
  BY DEF TypeOK
<1>2. req[r].todo \ {p} \in SUBSET Plans
  BY <1>1 DEF Request
<1>3. {"acquire", "transition", "done"} \subseteq PC
  BY Labels
<1> DEFINE label == IF req[r].todo \ {p} # {} THEN "acquire"
                    ELSE IF req[r].kind = "task" THEN "transition" ELSE "done"
<1>4. label \in {"acquire", "transition", "done"}
      /\ (label = "transition" => req[r].kind = "task")
      /\ (label # "acquire" => req[r].todo \ {p} = {})
  BY <1>1 DEF Request
<1>5. req' = [req EXCEPT ![r].todo = req[r].todo \ {p}, ![r].pc = label]
  BY DEF Return
<1> HIDE DEF label
<1>6. req'[r] = [req[r] EXCEPT !.todo = req[r].todo \ {p}, !.pc = label]
  BY <1>5 DEF TypeOK
<1>7. req'[r] \in Request /\ req'[r].todo = req[r].todo \ {p}
      /\ req'[r].pc = label /\ req'[r].kind = req[r].kind
      /\ req'[r].user = req[r].user
  BY <1>1, <1>2, <1>3, <1>4, <1>6 DEF Request
<1>8. /\ \A s \in Requests : s # r => req'[s] = req[s]
      /\ req' \in [Requests -> Request]
  BY <1>5, <1>7 DEF TypeOK
<1> QED
  BY <1>4, <1>7, <1>8

\* The three writes of rollback_executions.
LEMMA CreateWrites ==
    ASSUME TypeOK, NEW r \in Requests, NEW p \in Plans,
           CreateExecution(r, p)
    PROVE  /\ record' \in [Requests ->
                 [Plans -> {"none", "running", "completed", "failed"}]]
           /\ \A s \in Requests, q \in Plans :
                record'[s][q] = IF s = r /\ q = p THEN "running" ELSE record[s][q]
<1>1. record' = [record EXCEPT ![r][p] = "running"]
  BY DEF CreateExecution
<1> QED
  BY <1>1 DEF TypeOK

LEMMA CompleteWrites ==
    ASSUME TypeOK, NEW r \in Requests, NEW p \in Plans,
           CompleteExecution(r, p), req[r].user
    PROVE  /\ record' \in [Requests ->
                 [Plans -> {"none", "running", "completed", "failed"}]]
           /\ \A s \in Requests, q \in Plans :
                record'[s][q] = IF s = r /\ q = p THEN "completed" ELSE record[s][q]
<1>1. record' = [record EXCEPT ![r][p] = "completed"]
  BY DEF CompleteExecution
<1> QED
  BY <1>1 DEF TypeOK

LEMMA FailWrites ==
    ASSUME TypeOK, NEW r \in Requests, NEW p \in Plans,
           FailExecution(r, p), req[r].user
    PROVE  /\ record' \in [Requests ->
                 [Plans -> {"none", "running", "completed", "failed"}]]
           /\ \A s \in Requests, q \in Plans :
                record'[s][q] = IF s = r /\ q = p THEN "failed" ELSE record[s][q]
<1>1. record' = [record EXCEPT ![r][p] = "failed"]
  BY DEF FailExecution
<1> QED
  BY <1>1 DEF TypeOK

-----------------------------------------------------------------------------
(* Types *)

LEMMA AskTyped ==
    ASSUME TypeOK, NEW r \in Requests, Ask(r)
    PROVE  /\ TypeOK'
           /\ req'[r].pc \in {"acquire", "select"}
           /\ req'[r].user \in ActorChoices
           /\ \A s \in Requests : s # r => req'[s] = req[s]
<1>1. PICK kind \in Kinds, user \in ActorChoices, p \in Plans :
        req' = [req EXCEPT ![r] =
                  [pc   |-> IF kind = "task" THEN "select" ELSE "acquire",
                   todo |-> IF kind = "task" THEN {} ELSE {p},
                   user |-> user, kind |-> kind]]
  BY DEF Ask
<1> DEFINE new == [pc   |-> IF kind = "task" THEN "select" ELSE "acquire",
                   todo |-> IF kind = "task" THEN {} ELSE {p},
                   user |-> user, kind |-> kind]
<1>2. /\ new \in Request /\ new.pc \in {"acquire", "select"}
      /\ new.user \in ActorChoices
  BY ConstantFacts, Labels DEF Request
<1>3. req' = [req EXCEPT ![r] = new]
  BY <1>1
<1> HIDE DEF new
<1>4. /\ req' \in [Requests -> Request] /\ req'[r] = new
      /\ \A s \in Requests : s # r => req'[s] = req[s]
  BY <1>2, <1>3 DEF TypeOK
<1>5. alone' \in [Requests -> BOOLEAN]
  BY DEF Ask, TypeOK
<1> QED
  BY <1>2, <1>4, <1>5 DEF Ask, dbVars, TypeOK

LEMMA SelectTyped ==
    ASSUME TypeOK, NEW r \in Requests, SelectPlans(r)
    PROVE  /\ TypeOK'
           /\ req'[r].pc \in {"acquire", "done"}
           /\ req'[r].pc = "done" => req'[r].todo = {}
           /\ req'[r].kind = req[r].kind /\ req'[r].user = req[r].user
           /\ \A s \in Requests : s # r => req'[s] = req[s]
<1> DEFINE plans == {p \in Plans : ~executed[p]}
           label == IF plans = {} THEN "done" ELSE "acquire"
<1>1. /\ plans \in SUBSET Plans /\ label \in {"acquire", "done"}
      /\ label \in PC /\ (label = "done" => plans = {})
  BY Labels
<1>2. req' = [req EXCEPT ![r].pc = label, ![r].todo = plans]
  BY DEF SelectPlans
<1> HIDE DEF plans, label
<1>3. /\ req' \in [Requests -> Request] /\ req'[r].pc = label
      /\ req'[r].todo = plans
      /\ req'[r].kind = req[r].kind /\ req'[r].user = req[r].user
      /\ \A s \in Requests : s # r => req'[s] = req[s]
  BY <1>1, <1>2 DEF TypeOK, Request
<1>4. UNCHANGED <<dbVars, history, left>>
  BY DEF SelectPlans
<1> QED
  BY <1>1, <1>3, <1>4 DEF TypeOK, dbVars, history

\* A dry-run ends with its plan read, or with the exception of reading it.
LEMMA PreviewTyped ==
    ASSUME TypeOK, NEW r \in Requests, NEW p \in Plans, Preview(r, p)
    PROVE  /\ TypeOK'
           /\ req'[r].pc \in {"raised", "done"}
           /\ req'[r].todo = {}
           /\ req'[r].kind = req[r].kind /\ req'[r].user = req[r].user
           /\ \A s \in Requests : s # r => req'[s] = req[s]
<1> DEFINE label == IF strategy[p] \in ReadsPlan THEN "raised" ELSE "done"
<1>1. label \in {"raised", "done"} /\ label \in PC
  BY Labels
<1>2. req' = [req EXCEPT ![r].todo = {}, ![r].pc = label]
  BY DEF Preview
<1> HIDE DEF label
<1>3. /\ req' \in [Requests -> Request] /\ req'[r].pc = label
      /\ req'[r].todo = {}
      /\ req'[r].kind = req[r].kind /\ req'[r].user = req[r].user
      /\ \A s \in Requests : s # r => req'[s] = req[s]
  BY <1>1, <1>2 DEF TypeOK, Request
<1>4. UNCHANGED <<dbVars, history, left>>
  BY DEF Preview
<1> QED
  BY <1>1, <1>3, <1>4 DEF TypeOK, dbVars, history

LEMMA StepTyped == TypeOK /\ [Next]_vars => TypeOK'
<1> SUFFICES ASSUME TypeOK, [Next]_vars PROVE TypeOK'
  OBVIOUS
<1>1. ASSUME NEW r \in Requests, Ask(r) PROVE TypeOK'
  BY <1>1, AskTyped
<1>2. ASSUME NEW r \in Requests, Step(r) PROVE TypeOK'
  <2>1. CASE SelectPlans(r)
    BY <2>1, SelectTyped
  <2>2. CASE Transition(r)
    <3>1. req' \in [Requests -> Request]
      BY <2>2, GotoTyped, Labels DEF Transition
    <3> QED
      BY <2>2, <3>1 DEF Transition, TypeOK, dbVars, history
  <2>3. CASE WriteRolledBack(r)
    <3>1. req' \in [Requests -> Request]
      BY <2>3, GotoTyped, Labels DEF WriteRolledBack
    <3> QED
      BY <2>3, <3>1 DEF WriteRolledBack, TypeOK, history
  <2>4. CASE AcquireConnection(r)
    <3>1. req' \in [Requests -> Request]
      BY <2>4, GotoTyped, Labels DEF AcquireConnection
    <3> QED
      BY <2>4, <3>1 DEF AcquireConnection, TypeOK, dbVars, history
  <2>5. CASE UpdateTask(r)
    <3>1. req' \in [Requests -> Request]
      BY <2>5, GotoTyped, Labels DEF UpdateTask
    <3> QED
      BY <2>5, <3>1 DEF UpdateTask, TypeOK, history
  <2>6. ASSUME NEW p \in Plans, CreateExecution(r, p) PROVE TypeOK'
    <3>1. req' \in [Requests -> Request]
      BY <2>6, GotoTyped, Labels DEF CreateExecution
    <3> QED
      BY <2>6, <3>1, CreateWrites DEF CreateExecution, TypeOK, history
  <2>7. ASSUME NEW p \in Plans, RunStrategy(r, p) PROVE TypeOK'
    <3>1. req' \in [Requests -> Request]
      BY <2>7, GotoTyped, Labels DEF RunStrategy
    <3> QED
      BY <2>7, <3>1 DEF RunStrategy, TypeOK, dbVars, history
  <2>8. ASSUME NEW p \in Plans, CompleteExecution(r, p) PROVE TypeOK'
    <3>1. req' \in [Requests -> Request]
      BY <2>8, GotoTyped, Labels DEF CompleteExecution
    <3> QED
      BY <2>8, <3>1, CompleteWrites DEF CompleteExecution, TypeOK, history
  <2>9. ASSUME NEW p \in Plans, MarkExecuted(r, p) PROVE TypeOK'
    <3>1. req' \in [Requests -> Request]
      BY <2>9, GotoTyped, Labels DEF MarkExecuted
    <3> QED
      BY <2>9, <3>1 DEF MarkExecuted, TypeOK, history
  <2>10. ASSUME NEW p \in Plans, Report(r, p) PROVE TypeOK'
    <3>1. req' \in [Requests -> Request]
      BY <2>10, ReturnTyped DEF Report
    <3> QED
      BY <2>10, <3>1 DEF Report, TypeOK, dbVars, history
  <2>11. ASSUME NEW p \in Plans, FailExecution(r, p) PROVE TypeOK'
    <3>1. req' \in [Requests -> Request]
      BY <2>11, ReturnTyped, GotoTyped, Labels DEF FailExecution
    <3> QED
      BY <2>11, <3>1, FailWrites DEF FailExecution, TypeOK, history
  <2>12. ASSUME NEW p \in Plans, Preview(r, p) PROVE TypeOK'
    BY <2>12, PreviewTyped
  <2> QED
    BY <1>2, <2>1, <2>2, <2>3, <2>4, <2>5, <2>6, <2>7, <2>8, <2>9, <2>10,
       <2>11, <2>12 DEF Step
<1>3. ASSUME NEW r \in Requests, Fault(r) PROVE TypeOK'
  <2>1. req' \in [Requests -> Request]
    BY <1>3, GotoTyped, Labels DEF Fault
  <2>2. left' \in [faults : 0..MaxFaults, crashes : 0..MaxCrashes]
    BY <1>3, ConstantFacts DEF Fault, TypeOK
  <2> QED
    BY <1>3, <2>1, <2>2 DEF Fault, TypeOK, dbVars, history
<1>4. CASE Crash
  <2>1. \A r \in Requests : [req[r] EXCEPT !.pc = "lost"] \in Request
    BY Labels DEF TypeOK, Request
  <2>2. req' \in [Requests -> Request]
    BY <1>4, <2>1 DEF Crash, TypeOK
  <2>3. left' \in [faults : 0..MaxFaults, crashes : 0..MaxCrashes]
    BY <1>4, ConstantFacts DEF Crash, TypeOK
  <2> QED
    BY <1>4, <2>2, <2>3 DEF Crash, TypeOK, dbVars, history
<1>5. CASE UNCHANGED vars
  BY <1>5 DEF vars, dbVars, history, TypeOK
<1> QED
  BY <1>1, <1>2, <1>3, <1>4, <1>5 DEF Next

LEMMA InitTyped == Init => TypeOK
<1> SUFFICES ASSUME Init PROVE TypeOK
  OBVIOUS
<1>1. [pc |-> "idle", todo |-> {}, user |-> FALSE, kind |-> "plan"] \in Request
  BY Labels DEF Request
<1> QED
  BY <1>1, ConstantFacts DEF Init, TypeOK

\* The rows and the requests keep their types, for any number of requests,
\* plans and faults (rollback_executions.status has no other values).
THEOREM TypeCorrect == Spec => []TypeOK
BY InitTyped, StepTyped, PTL DEF Spec

-----------------------------------------------------------------------------
(* The connection that is left *)

OpenPC == {"select", "acquire", "transition", "transitioned", "insert",
           "announce", "complete", "mark", "roll", "report", "failing",
           "preview"}

LEMMA OpenFacts ==
    ASSUME TypeOK
    PROVE  /\ Open = {r \in Requests : req[r].pc \in OpenPC}
           /\ IsFiniteSet(Open) /\ Cardinality(Open) \in Nat
           /\ Holders \subseteq Open
<1>1. Open = {r \in Requests : req[r].pc \in OpenPC}
  BY Labels DEF Open, OpenPC
<1>2. Holders \subseteq Open
  BY <1>1, Labels DEF Holders, OpenPC
<1>3. Open \subseteq Requests
  BY DEF Open
<1>4. IsFiniteSet(Open)
  BY <1>3, ConstantFacts, FS_Subset
<1> QED
  BY <1>1, <1>2, <1>4, FS_CardinalityType

\* A step is one of an open request, and leaves the others where they are.
LEMMA StepMoves ==
    ASSUME TypeOK, NEW r \in Requests, Step(r) \/ Fault(r)
    PROVE  /\ req[r].pc \in OpenPC
           /\ \A s \in Requests : s # r => req'[s] = req[s]
<1>1. CASE SelectPlans(r)
  BY <1>1, SelectTyped DEF SelectPlans, OpenPC
<1>2. CASE Transition(r) \/ WriteRolledBack(r) \/ AcquireConnection(r)
             \/ UpdateTask(r)
  BY <1>2, GotoTyped, Labels
     DEF Transition, WriteRolledBack, AcquireConnection, UpdateTask, OpenPC
<1>3. ASSUME NEW p \in Plans,
             CreateExecution(r, p) \/ RunStrategy(r, p)
               \/ CompleteExecution(r, p) \/ MarkExecuted(r, p)
      PROVE  /\ req[r].pc \in OpenPC
             /\ \A s \in Requests : s # r => req'[s] = req[s]
  BY <1>3, GotoTyped, Labels
     DEF CreateExecution, RunStrategy, CompleteExecution, MarkExecuted, OpenPC
<1>4. ASSUME NEW p \in Plans, Report(r, p) \/ FailExecution(r, p)
      PROVE  /\ req[r].pc \in OpenPC
             /\ \A s \in Requests : s # r => req'[s] = req[s]
  BY <1>4, ReturnTyped, GotoTyped, Labels DEF Report, FailExecution, OpenPC
<1>5. CASE Fault(r)
  BY <1>5, GotoTyped, Labels DEF Fault, OpenPC
<1>6. ASSUME NEW p \in Plans, Preview(r, p)
      PROVE  /\ req[r].pc \in OpenPC
             /\ \A s \in Requests : s # r => req'[s] = req[s]
  BY <1>6, PreviewTyped DEF Preview, OpenPC
<1> QED
  BY <1>1, <1>2, <1>3, <1>4, <1>5, <1>6 DEF Step

OpenBounded == Cardinality(Open) <= MaxOpen

LEMMA StepOpen == TypeOK /\ OpenBounded /\ [Next]_vars => OpenBounded'
<1> SUFFICES ASSUME TypeOK, OpenBounded, [Next]_vars PROVE OpenBounded'
  OBVIOUS
<1>1. TypeOK'
  BY StepTyped
<1>2. Open' = {r \in Requests : req'[r].pc \in OpenPC}
      /\ Cardinality(Open') \in Nat
  BY <1>1, Labels, ConstantFacts, FS_Subset, FS_CardinalityType
     DEF Open, OpenPC
<1>3. CASE Open' \subseteq Open
  <2>1. Cardinality(Open') <= Cardinality(Open)
    BY <1>3, OpenFacts, FS_Subset
  <2> QED
    BY <1>2, <2>1, OpenFacts, ConstantFacts DEF OpenBounded
<1>4. ASSUME NEW r \in Requests, Ask(r) PROVE OpenBounded'
  <2>1. r \notin Open /\ Cardinality(Open) < MaxOpen
    BY <1>4, OpenFacts DEF Ask, OpenPC
  <2>2. Open' = Open \cup {r}
    BY <1>2, <1>4, AskTyped, OpenFacts DEF OpenPC
  <2>3. Cardinality(Open') = Cardinality(Open) + 1
    BY <2>1, <2>2, OpenFacts, FS_AddElement
  <2> QED
    BY <2>1, <2>3, OpenFacts, ConstantFacts DEF OpenBounded
<1>5. ASSUME NEW r \in Requests, Step(r) \/ Fault(r) PROVE Open' \subseteq Open
  BY <1>2, <1>5, StepMoves, OpenFacts
<1>6. CASE Crash
  <2>1. \A r \in Requests : req'[r].pc \notin OpenPC
    <3> TAKE r \in Requests
    <3>1. CASE r \in Open
      <4>1. req'[r] = [req[r] EXCEPT !.pc = "lost"]
        BY <1>6, <3>1 DEF Crash
      <4> QED
        BY <4>1 DEF OpenPC, TypeOK, Request
    <3>2. CASE r \notin Open
      <4>1. req'[r] = req[r]
        BY <1>6, <3>2 DEF Crash
      <4> QED
        BY <3>2, <4>1, OpenFacts
    <3> QED
      BY <3>1, <3>2
  <2> QED
    BY <1>2, <1>3, <2>1
<1>7. CASE UNCHANGED vars
  BY <1>3, <1>7 DEF vars, Open
<1> QED
  BY <1>3, <1>4, <1>5, <1>6, <1>7 DEF Next

\* Whenever fewer rollbacks are open than the pool has connections, one is left
\* for the event that each of them logs while it keeps its own: they never all
\* wait for each other, whatever raises or crashes.
THEOREM ConnectionAlwaysLeft ==
    ASSUME MaxOpen < PoolSize
    PROVE  Spec => []ConnectionLeft
<1>1. Init => OpenBounded
  <2> SUFFICES ASSUME Init PROVE OpenBounded
    OBVIOUS
  <2>1. Open = {}
    BY InitTyped, OpenFacts DEF Init, OpenPC
  <2> QED
    BY <2>1, FS_EmptySet, ConstantFacts DEF OpenBounded
<1>2. TypeOK /\ OpenBounded => ConnectionLeft
  <2> SUFFICES ASSUME TypeOK, OpenBounded PROVE ConnectionLeft
    OBVIOUS
  <2>1. /\ IsFiniteSet(Open) /\ Cardinality(Open) \in Nat
        /\ Cardinality(Holders) \in Nat
        /\ Cardinality(Holders) <= Cardinality(Open)
    BY OpenFacts, FS_Subset, FS_CardinalityType
  <2> QED
    BY <2>1, ConstantFacts DEF OpenBounded, ConnectionLeft, Available
<1> QED
  BY <1>1, <1>2, StepOpen, TypeCorrect, PTL DEF Spec

-----------------------------------------------------------------------------
(* What rolled_back means *)

RolledInv ==
    /\ RolledBackIsExecuted
    /\ \A r \in Requests :
         /\ req[r].pc \in {"roll", "report"} => \E p \in Plans : executed[p]
         /\ req[r].pc \in {"transition", "transitioned"} => req[r].kind = "task"

\* A step that writes neither the task nor a plan, and ends no request that
\* rolled back all plans.
LEMMA RolledKept ==
    ASSUME TypeOK, RolledInv, NEW r \in Requests,
           UNCHANGED <<task, executed>>,
           \A s \in Requests : s # r => req'[s] = req[s],
           ~(req[r].kind = "task" /\ req[r].pc = "done"),
           req'[r].pc \notin {"roll", "report"}
             \/ \E p \in Plans : executed[p],
           req'[r].pc \in {"transition", "transitioned"} => req'[r].kind = "task"
    PROVE  RolledInv'
BY DEF RolledInv, RolledBackIsExecuted

LEMMA StepRolled == TypeOK /\ RolledInv /\ [Next]_vars => RolledInv'
<1> SUFFICES ASSUME TypeOK, RolledInv, [Next]_vars PROVE RolledInv'
  OBVIOUS
<1>1. ASSUME NEW r \in Requests, Ask(r) PROVE RolledInv'
  BY <1>1, AskTyped, RolledKept DEF Ask, dbVars
<1>2. ASSUME NEW r \in Requests, Step(r) PROVE RolledInv'
  <2> DEFINE Others == \A s \in Requests : s # r => req'[s] = req[s]
  <2>0. Others
    BY <1>2, StepMoves
  <2>1. CASE SelectPlans(r)
    BY <2>0, <2>1, SelectTyped, RolledKept DEF SelectPlans, dbVars
  <2>2. CASE Transition(r)
    <3>1. req'[r].pc = "transitioned" /\ req'[r].kind = req[r].kind
      BY <2>2, GotoTyped, Labels DEF Transition, TypeOK, Request
    <3>2. req[r].kind = "task"
      BY <2>2 DEF Transition, RolledInv
    <3> QED
      BY <2>0, <2>2, <3>1, <3>2, RolledKept DEF Transition, dbVars
  <2>3. CASE WriteRolledBack(r)
    <3>1. req'[r].pc = "done" /\ req'[r].kind = req[r].kind
      BY <2>3, GotoTyped, Labels DEF WriteRolledBack, TypeOK, Request
    <3>2. req[r].kind = "task"
      BY <2>3 DEF WriteRolledBack, RolledInv
    <3> QED
      BY <2>0, <2>3, <3>1, <3>2
         DEF WriteRolledBack, RolledInv, RolledBackIsExecuted
  <2>4. CASE AcquireConnection(r)
    <3>1. req'[r].pc \in {"insert", "preview"}
      BY <2>4, GotoTyped, Labels DEF AcquireConnection, TypeOK, Request
    <3> QED
      BY <2>0, <2>4, <3>1, RolledKept DEF AcquireConnection, dbVars
  <2>5. CASE UpdateTask(r)
    <3>1. req'[r].pc = "report"
      BY <2>5, GotoTyped, Labels DEF UpdateTask, TypeOK, Request
    <3>2. \E p \in Plans : executed[p]
      BY <2>5 DEF UpdateTask, RolledInv
    <3> QED
      BY <2>0, <2>5, <3>1, <3>2 DEF UpdateTask, RolledInv, RolledBackIsExecuted
  <2>6. ASSUME NEW p \in Plans,
               CreateExecution(r, p) \/ RunStrategy(r, p)
                 \/ CompleteExecution(r, p)
        PROVE  RolledInv'
    <3>1. req'[r].pc \in {"announce", "complete", "failing", "mark"}
      BY <2>6, GotoTyped, Labels
         DEF CreateExecution, RunStrategy, CompleteExecution, TypeOK, Request
    <3> QED
      BY <2>0, <2>6, <3>1, RolledKept
         DEF CreateExecution, RunStrategy, CompleteExecution, dbVars
  <2>7. ASSUME NEW p \in Plans, MarkExecuted(r, p) PROVE RolledInv'
    <3>1. req'[r].pc = "roll"
      BY <2>7, GotoTyped, Labels DEF MarkExecuted, TypeOK, Request
    <3>2. executed'[p]
      BY <2>7 DEF MarkExecuted, TypeOK
    <3> QED
      BY <2>0, <2>7, <3>1, <3>2
         DEF MarkExecuted, RolledInv, RolledBackIsExecuted
  <2>8. ASSUME NEW p \in Plans, Report(r, p) PROVE RolledInv'
    BY <2>0, <2>8, ReturnTyped, RolledKept DEF Report, dbVars
  <2>9. ASSUME NEW p \in Plans, FailExecution(r, p) PROVE RolledInv'
    <3>1. CASE req[r].user
      BY <2>0, <2>9, <3>1, ReturnTyped, RolledKept DEF FailExecution
    <3>2. CASE ~req[r].user
      <4>1. req'[r].pc = "raised"
        BY <2>9, <3>2, GotoTyped, Labels DEF FailExecution, TypeOK, Request
      <4> QED
        BY <2>0, <2>9, <3>2, <4>1, RolledKept DEF FailExecution
    <3> QED
      BY <3>1, <3>2 DEF TypeOK, Request
  <2>10. ASSUME NEW p \in Plans, Preview(r, p) PROVE RolledInv'
    BY <2>0, <2>10, PreviewTyped, RolledKept DEF Preview, dbVars
  <2> QED
    BY <1>2, <2>1, <2>2, <2>3, <2>4, <2>5, <2>6, <2>7, <2>8, <2>9, <2>10
       DEF Step
<1>3. ASSUME NEW r \in Requests, Fault(r) PROVE RolledInv'
  <2>1. req'[r].pc \in {"failing", "raised"}
    BY <1>3, GotoTyped, Labels DEF Fault, TypeOK, Request
  <2>2. req[r].pc # "done"
    BY <1>3, Labels DEF Fault
  <2> QED
    BY <1>3, <2>1, <2>2, StepMoves, RolledKept DEF Fault, dbVars
<1>4. CASE Crash
  <2>1. \A r \in Requests :
          req'[r] = IF r \in Open THEN [req[r] EXCEPT !.pc = "lost"] ELSE req[r]
    BY <1>4 DEF Crash
  <2>2. \A r \in Requests : req[r].pc = "done" => r \notin Open
    BY OpenFacts DEF OpenPC
  <2>3. \A r \in Requests : r \in Open => req'[r].pc = "lost"
    BY <2>1 DEF TypeOK, Request
  <2>4. UNCHANGED <<task, executed>>
    BY <1>4 DEF Crash, dbVars
  <2> QED
    BY <2>1, <2>2, <2>3, <2>4 DEF RolledInv, RolledBackIsExecuted
<1>5. CASE UNCHANGED vars
  BY <1>5 DEF vars, dbVars, RolledInv, RolledBackIsExecuted
<1> QED
  BY <1>1, <1>2, <1>3, <1>4, <1>5 DEF Next

\* However requests interleave, raise or crash, the task is shown as rolled back
\* only with an executed plan or after a task-level rollback went through its
\* plans: the service marks the plan before it updates the task.
THEOREM RolledBackMeansExecuted == Spec => []RolledBackIsExecuted
<1>1. Init => RolledInv
  BY DEF Init, RolledInv, RolledBackIsExecuted
<1>2. RolledInv => RolledBackIsExecuted
  BY DEF RolledInv
<1> QED
  BY <1>1, <1>2, StepRolled, TypeCorrect, PTL DEF Spec

-----------------------------------------------------------------------------
(* The records of executed plans, until a statement raises *)

\* One plan still to do has the given record, the others have none.
Only(r, v) ==
    \E p \in req[r].todo :
        /\ record[r][p] = v
        /\ \A q \in req[r].todo : q # p => record[r][q] = "none"

\* The records of a request, by where it is.
ShapeOf(r) ==
    /\ req[r].pc \in {"idle", "select"} =>
         \A q \in Plans : record[r][q] = "none"
    /\ req[r].pc \in {"acquire", "insert", "preview"} =>
         \A q \in req[r].todo : record[r][q] = "none"
    /\ req[r].pc \in {"announce", "complete", "failing"} => Only(r, "running")
    /\ req[r].pc \in {"mark", "roll", "report"} => Only(r, "completed")

Shape == left.faults = MaxFaults /\ \A r \in Requests : ShapeOf(r)

RecordInv == Shape /\ ExecutedIsRecorded

\* Each step of a request, with what it does to the request and its records.
LEMMA TodoTyped ==
    ASSUME TypeOK, NEW r \in Requests
    PROVE  req[r].todo \subseteq Plans /\ req[r].user \in BOOLEAN
BY DEF TypeOK, Request

LEMMA ShapeKept ==
    ASSUME Shape, NEW r \in Requests, left' = left,
           \A s \in Requests : s # r => req'[s] = req[s],
           \A s \in Requests : s # r =>
             \A q \in Plans : record'[s][q] = record[s][q],
           TypeOK, ShapeOf(r)'
    PROVE  Shape'
<1>1. ASSUME NEW s \in Requests, s # r PROVE ShapeOf(s)'
  <2>1. req[s].todo \subseteq Plans
    BY TodoTyped
  <2>2. /\ req'[s] = req[s]
        /\ \A q \in Plans : record'[s][q] = record[s][q]
    BY <1>1
  <2> QED
    BY <1>1, <2>1, <2>2 DEF Shape, ShapeOf, Only
<1> QED
  BY <1>1 DEF Shape

\* A step that changes no record and no plan.
LEMMA RecordKept ==
    ASSUME RecordInv, TypeOK, NEW r \in Requests,
           UNCHANGED <<record, executed, left>>,
           \A s \in Requests : s # r => req'[s] = req[s],
           ShapeOf(r)'
    PROVE  RecordInv'
<1>1. Shape'
  BY ShapeKept DEF RecordInv
<1> QED
  BY <1>1 DEF RecordInv, ExecutedIsRecorded

\* What a fault costs is never given back.
NoFaultYet == left.faults = MaxFaults

LEMMA FaultsCount ==
    ASSUME TypeOK, [Next]_vars, NoFaultYet'
    PROVE  NoFaultYet /\ \A r \in Requests : ~Fault(r)
<1>0. MaxFaults \in Nat /\ left \in [faults : 0..MaxFaults, crashes : 0..MaxCrashes]
  BY ConstantFacts DEF TypeOK
<1>1. ASSUME NEW r \in Requests, Fault(r) PROVE FALSE
  <2>1. left'.faults = left.faults - 1
    BY <1>0, <1>1 DEF Fault
  <2> QED
    BY <1>0, <2>1 DEF NoFaultYet
<1>2. ASSUME NEW r \in Requests, Ask(r) \/ Step(r) PROVE left' = left
  <2>1. CASE Ask(r)
    BY <2>1 DEF Ask
  <2>2. CASE Step(r)
    BY <2>2 DEF Step, SelectPlans, Transition, WriteRolledBack,
       AcquireConnection, UpdateTask, Preview, CreateExecution, RunStrategy,
       CompleteExecution, MarkExecuted, Report, FailExecution
  <2> QED
    BY <1>2, <2>1, <2>2
<1>3. CASE Crash
  BY <1>0, <1>1, <1>3 DEF Crash, NoFaultYet
<1>4. CASE UNCHANGED vars
  BY <1>1, <1>4 DEF vars, NoFaultYet
<1> QED
  BY <1>1, <1>2, <1>3, <1>4 DEF Next, NoFaultYet

LEMMA StepRecord ==
    ASSUME TypeOK, RecordInv, [Next]_vars, NoFaultYet'
    PROVE  RecordInv'
<1>0. \A r \in Requests : ShapeOf(r)
  BY DEF RecordInv, Shape
<1>1. ASSUME NEW r \in Requests, Ask(r) PROVE RecordInv'
  <2>1. \A q \in Plans : record[r][q] = "none"
    BY <1>0, <1>1 DEF Ask, ShapeOf
  <2>2. TypeOK' /\ req'[r].pc \in {"acquire", "select"}
    BY <1>1, AskTyped
  <2>3. req'[r].todo \subseteq Plans
    BY <2>2 DEF TypeOK, Request
  <2>4. UNCHANGED <<record, executed, left>>
    BY <1>1 DEF Ask, dbVars
  <2>5. ShapeOf(r)'
    BY <2>1, <2>2, <2>3, <2>4 DEF ShapeOf
  <2> QED
    BY <1>1, <2>4, <2>5, AskTyped, RecordKept
<1>2. ASSUME NEW r \in Requests, Step(r) PROVE RecordInv'
  <2> DEFINE Others == \A s \in Requests : s # r => req'[s] = req[s]
  <2>0. Others /\ ShapeOf(r) /\ req[r].todo \subseteq Plans
    BY <1>0, <1>2, StepMoves, TodoTyped
  <2>1. CASE SelectPlans(r)
    <3>1. \A q \in Plans : record[r][q] = "none"
      BY <2>0, <2>1 DEF SelectPlans, ShapeOf
    <3>2. TypeOK' /\ req'[r].pc \in {"acquire", "done"}
      BY <2>1, SelectTyped
    <3>3. req'[r].todo \subseteq Plans
      BY <3>2 DEF TypeOK, Request
    <3>4. UNCHANGED <<record, executed, left>>
      BY <2>1 DEF SelectPlans, dbVars
    <3>5. ShapeOf(r)'
      BY <3>1, <3>2, <3>3, <3>4 DEF ShapeOf
    <3> QED
      BY <2>0, <3>4, <3>5, RecordKept
  <2>2. CASE Transition(r) \/ WriteRolledBack(r)
    <3>1. req'[r].pc \in {"transitioned", "done"}
      BY <2>2, GotoTyped, Labels DEF Transition, WriteRolledBack
    <3>2. UNCHANGED <<record, executed, left>>
      BY <2>2 DEF Transition, WriteRolledBack, dbVars
    <3>3. ShapeOf(r)'
      BY <3>1 DEF ShapeOf
    <3> QED
      BY <2>0, <3>2, <3>3, RecordKept
  <2>3. CASE AcquireConnection(r)
    <3>1. /\ req'[r].pc \in {"insert", "preview"} /\ req'[r].todo = req[r].todo
          /\ req[r].pc = "acquire"
      BY <2>3, GotoTyped, Labels DEF AcquireConnection
    <3>2. UNCHANGED <<record, executed, left>>
      BY <2>3 DEF AcquireConnection, dbVars
    <3>3. ShapeOf(r)'
      BY <2>0, <3>1, <3>2 DEF ShapeOf
    <3> QED
      BY <2>0, <3>2, <3>3, RecordKept
  <2>4. CASE UpdateTask(r)
    <3>1. /\ req'[r].pc = "report" /\ req'[r].todo = req[r].todo
          /\ req[r].pc = "roll"
      BY <2>4, GotoTyped, Labels DEF UpdateTask
    <3>2. UNCHANGED <<record, executed, left>>
      BY <2>4 DEF UpdateTask
    <3>3. ShapeOf(r)'
      BY <2>0, <3>1, <3>2 DEF ShapeOf, Only
    <3> QED
      BY <2>0, <3>2, <3>3, RecordKept
  <2>5. ASSUME NEW p \in Plans, CreateExecution(r, p) PROVE RecordInv'
    <3>1. /\ req'[r].pc = "announce" /\ req'[r].todo = req[r].todo
          /\ req[r].pc = "insert" /\ p \in req[r].todo
          /\ UNCHANGED <<executed, left>>
      BY <2>5, GotoTyped, Labels DEF CreateExecution, Current
    <3>2. \A s \in Requests, q \in Plans :
            record'[s][q] = IF s = r /\ q = p THEN "running" ELSE record[s][q]
      BY <2>5, CreateWrites
    <3>3. \A q \in req[r].todo : record[r][q] = "none"
      BY <2>0, <3>1 DEF ShapeOf
    <3>4. ShapeOf(r)'
      BY <2>0, <3>1, <3>2, <3>3 DEF ShapeOf, Only
    <3>5. Shape'
      BY <2>0, <3>1, <3>2, <3>4, ShapeKept DEF RecordInv
    <3>6. ExecutedIsRecorded'
      BY <3>1, <3>2, <3>3 DEF RecordInv, ExecutedIsRecorded
    <3> QED
      BY <3>5, <3>6 DEF RecordInv
  <2>6. ASSUME NEW p \in Plans, RunStrategy(r, p) PROVE RecordInv'
    <3>1. /\ req'[r].pc \in {"complete", "failing"}
          /\ req'[r].todo = req[r].todo /\ req[r].pc = "announce"
      BY <2>6, GotoTyped, Labels DEF RunStrategy
    <3>2. UNCHANGED <<record, executed, left>>
      BY <2>6 DEF RunStrategy, dbVars
    <3>3. ShapeOf(r)'
      BY <2>0, <3>1, <3>2 DEF ShapeOf, Only
    <3> QED
      BY <2>0, <3>2, <3>3, RecordKept
  <2>7. ASSUME NEW p \in Plans, CompleteExecution(r, p) PROVE RecordInv'
    <3>1. /\ req[r].pc = "complete" /\ p \in req[r].todo
          /\ \A q \in req[r].todo : record[r][q] = "running" => q = p
          /\ UNCHANGED <<executed, left>>
      BY <2>7 DEF CompleteExecution, Current
    <3>2. Only(r, "running")
      BY <2>0, <3>1 DEF ShapeOf
    <3>3. \A q \in req[r].todo : q # p => record[r][q] = "none"
      BY <3>1, <3>2 DEF Only
    <3>4. CASE req[r].user
      <4>1. \A s \in Requests, q \in Plans :
              record'[s][q] =
                IF s = r /\ q = p THEN "completed" ELSE record[s][q]
        BY <2>7, <3>4, CompleteWrites
      <4>2. req'[r].pc = "mark" /\ req'[r].todo = req[r].todo
        BY <2>7, <3>4, GotoTyped, Labels DEF CompleteExecution
      <4>3. ShapeOf(r)'
        BY <2>0, <3>1, <3>3, <4>1, <4>2 DEF ShapeOf, Only
      <4>4. Shape'
        BY <2>0, <3>1, <4>1, <4>3, ShapeKept DEF RecordInv
      <4>5. ExecutedIsRecorded'
        BY <3>1, <4>1 DEF RecordInv, ExecutedIsRecorded
      <4> QED
        BY <4>4, <4>5 DEF RecordInv
    <3>5. CASE ~req[r].user
      <4>1. /\ req'[r].pc = "failing" /\ req'[r].todo = req[r].todo
            /\ UNCHANGED record
        BY <2>7, <3>5, GotoTyped, Labels DEF CompleteExecution
      <4>2. ShapeOf(r)'
        BY <3>2, <4>1 DEF ShapeOf, Only
      <4> QED
        BY <2>0, <3>1, <4>1, <4>2, RecordKept
    <3> QED
      BY <3>4, <3>5, TodoTyped
  <2>8. ASSUME NEW p \in Plans, MarkExecuted(r, p) PROVE RecordInv'
    <3>1. /\ req'[r].pc = "roll" /\ req'[r].todo = req[r].todo
          /\ req[r].pc = "mark" /\ record[r][p] = "completed"
          /\ UNCHANGED <<record, left>>
      BY <2>8, GotoTyped, Labels DEF MarkExecuted, Completed
    <3>2. ShapeOf(r)'
      BY <2>0, <3>1 DEF ShapeOf, Only
    <3>3. Shape'
      BY <2>0, <3>1, <3>2, ShapeKept DEF RecordInv
    <3>4. \A q \in Plans : executed'[q] => executed[q] \/ q = p
      BY <2>8 DEF MarkExecuted, TypeOK
    <3>5. ExecutedIsRecorded'
      BY <3>1, <3>4 DEF RecordInv, ExecutedIsRecorded
    <3> QED
      BY <3>3, <3>5 DEF RecordInv
  <2>9. ASSUME NEW p \in Plans, Report(r, p) PROVE RecordInv'
    <3>1. /\ req[r].pc = "report" /\ record[r][p] = "completed"
          /\ p \in req[r].todo
          /\ UNCHANGED <<record, executed, left>>
      BY <2>9 DEF Report, Completed, dbVars
    <3>2. /\ req'[r].todo = req[r].todo \ {p}
          /\ req'[r].pc \in {"acquire", "transition", "done"}
      BY <2>9, ReturnTyped DEF Report
    <3>3. \A q \in req[r].todo : q # p => record[r][q] = "none"
      BY <2>0, <3>1 DEF ShapeOf, Only
    <3>4. ShapeOf(r)'
      BY <3>1, <3>2, <3>3 DEF ShapeOf
    <3> QED
      BY <2>0, <3>1, <3>4, RecordKept
  <2>10. ASSUME NEW p \in Plans, FailExecution(r, p) PROVE RecordInv'
    <3>1. /\ req[r].pc = "failing" /\ p \in req[r].todo
          /\ record[r][p] \in {"running", "completed"}
          /\ UNCHANGED <<executed, left>>
      BY <2>10 DEF FailExecution
    <3>2. /\ record[r][p] = "running"
          /\ \A q \in req[r].todo : q # p => record[r][q] = "none"
      BY <2>0, <3>1 DEF ShapeOf, Only
    <3>3. CASE req[r].user
      <4>1. \A s \in Requests, q \in Plans :
              record'[s][q] = IF s = r /\ q = p THEN "failed" ELSE record[s][q]
        BY <2>10, <3>3, FailWrites
      <4>2. /\ req'[r].todo = req[r].todo \ {p}
            /\ req'[r].pc \in {"acquire", "transition", "done"}
        BY <2>10, <3>3, ReturnTyped DEF FailExecution
      <4>3. ShapeOf(r)'
        BY <2>0, <3>2, <4>1, <4>2 DEF ShapeOf
      <4>4. Shape'
        BY <2>0, <3>1, <4>1, <4>3, ShapeKept DEF RecordInv
      <4>5. ExecutedIsRecorded'
        BY <3>1, <3>2, <4>1 DEF RecordInv, ExecutedIsRecorded
      <4> QED
        BY <4>4, <4>5 DEF RecordInv
    <3>4. CASE ~req[r].user
      <4>1. req'[r].pc = "raised" /\ UNCHANGED record
        BY <2>10, <3>4, GotoTyped, Labels DEF FailExecution
      <4>2. ShapeOf(r)'
        BY <4>1 DEF ShapeOf
      <4> QED
        BY <2>0, <3>1, <4>1, <4>2, RecordKept
    <3> QED
      BY <3>3, <3>4, TodoTyped
  <2>11. ASSUME NEW p \in Plans, Preview(r, p) PROVE RecordInv'
    <3>1. req'[r].pc \in {"raised", "done"}
      BY <2>11, PreviewTyped
    <3>2. UNCHANGED <<record, executed, left>>
      BY <2>11 DEF Preview, dbVars
    <3>3. ShapeOf(r)'
      BY <3>1 DEF ShapeOf
    <3> QED
      BY <2>0, <3>2, <3>3, RecordKept
  <2> QED
    BY <1>2, <2>1, <2>2, <2>3, <2>4, <2>5, <2>6, <2>7, <2>8, <2>9, <2>10,
       <2>11 DEF Step
<1>3. ASSUME NEW r \in Requests PROVE ~Fault(r)
  BY FaultsCount
<1>4. CASE Crash
  <2>1. \A r \in Requests : req'[r] = req[r] \/ req'[r].pc = "lost"
    BY <1>4 DEF Crash, TypeOK, Request
  <2>2. UNCHANGED <<record, executed>> /\ left'.faults = left.faults
    BY <1>4 DEF Crash, dbVars, TypeOK
  <2>3. ASSUME NEW r \in Requests PROVE ShapeOf(r)'
    <3>1. CASE req'[r] = req[r]
      BY <1>0, <2>2, <3>1 DEF ShapeOf, Only
    <3>2. CASE req'[r].pc = "lost"
      BY <3>2 DEF ShapeOf
    <3> QED
      BY <2>1, <3>1, <3>2
  <2> QED
    BY <2>2, <2>3 DEF RecordInv, Shape, ExecutedIsRecorded
<1>5. CASE UNCHANGED vars
  BY <1>5 DEF vars, dbVars, RecordInv, Shape, ShapeOf, Only, ExecutedIsRecorded
<1> QED
  BY <1>1, <1>2, <1>3, <1>4, <1>5 DEF Next

LEMMA RecordAlways == Spec => [](NoFaultYet => RecordInv)
<1>1. Init => (NoFaultYet => RecordInv)
  BY DEF Init, NoFaultYet, RecordInv, Shape, ShapeOf, ExecutedIsRecorded
<1>2. TypeOK /\ (NoFaultYet => RecordInv) /\ [Next]_vars
        => (NoFaultYet => RecordInv)'
  BY FaultsCount, StepRecord
<1> QED
  BY <1>1, <1>2, TypeCorrect, PTL DEF Spec

\* As long as no statement raises, a plan marked as executed keeps the completed
\* execution that carried it out, whatever other requests and crashes do:
\* no request overwrites the records of another, nor its own completed one.
THEOREM ExecutedAlwaysRecorded == Spec => []ExecutedIsRecorded
<1>1. (NoFaultYet => RecordInv) => ExecutedIsRecorded
  BY DEF RecordInv, NoFaultYet, ExecutedIsRecorded
<1> QED
  BY <1>1, RecordAlways, PTL

-----------------------------------------------------------------------------
(* The records of answered requests, when actors are users as well *)

SettledOf(r) ==
    /\ req[r].pc # "idle" => req[r].user
    /\ req[r].pc \in {"transition", "transitioned", "done", "raised"}
         => req[r].todo = {}
    /\ \A q \in Plans : q \notin req[r].todo => record[r][q] # "running"

SettledInv == \A r \in Requests : SettledOf(r)

\* A step of one request that leaves the records of the others alone.
LEMMA SettledKept ==
    ASSUME SettledInv, NEW r \in Requests,
           \A s \in Requests : s # r => req'[s] = req[s],
           \A s \in Requests : s # r =>
             \A q \in Plans : record'[s][q] = record[s][q],
           SettledOf(r)'
    PROVE  SettledInv'
BY DEF SettledInv, SettledOf

LEMMA StepSettled ==
    ASSUME ActorChoices = {TRUE}, TypeOK, RecordInv, SettledInv, [Next]_vars, NoFaultYet'
    PROVE  SettledInv'
<1>0. \A r \in Requests : ShapeOf(r) /\ SettledOf(r)
  BY DEF RecordInv, Shape, SettledInv
<1>1. ASSUME NEW r \in Requests, Ask(r) PROVE SettledInv'
  <2>1. \A q \in Plans : record[r][q] = "none"
    BY <1>0, <1>1 DEF Ask, ShapeOf
  <2>2. /\ req'[r].pc \in {"acquire", "select"} /\ req'[r].user
        /\ \A s \in Requests : s # r => req'[s] = req[s]
    BY <1>1, AskTyped
  <2>3. UNCHANGED record
    BY <1>1 DEF Ask, dbVars
  <2>4. SettledOf(r)'
    BY <2>1, <2>2, <2>3 DEF SettledOf
  <2> QED
    BY <2>2, <2>3, <2>4, SettledKept
<1>2. ASSUME NEW r \in Requests, Step(r) PROVE SettledInv'
  <2> DEFINE Others == \A s \in Requests : s # r => req'[s] = req[s]
  <2>0. /\ Others /\ SettledOf(r) /\ req[r].user
        /\ req[r].todo \subseteq Plans
    BY <1>0, <1>2, StepMoves, TodoTyped DEF SettledOf, OpenPC
  <2>1. CASE SelectPlans(r)
    <3>1. \A q \in Plans : record[r][q] = "none"
      BY <1>0, <2>1 DEF SelectPlans, ShapeOf
    <3>2. /\ req'[r].pc \in {"acquire", "done"}
          /\ req'[r].pc = "done" => req'[r].todo = {}
          /\ req'[r].user = req[r].user
      BY <2>1, SelectTyped
    <3>3. UNCHANGED record
      BY <2>1 DEF SelectPlans, dbVars
    <3>4. SettledOf(r)'
      BY <2>0, <3>1, <3>2, <3>3 DEF SettledOf
    <3> QED
      BY <2>0, <3>3, <3>4, SettledKept
  <2>2. CASE Transition(r) \/ WriteRolledBack(r)
    <3>1. /\ req'[r].pc \in {"transitioned", "done"}
          /\ req[r].pc \in {"transition", "transitioned"}
          /\ req'[r].todo = req[r].todo /\ req'[r].user = req[r].user
      BY <2>2, GotoTyped, Labels DEF Transition, WriteRolledBack
    <3>2. UNCHANGED record
      BY <2>2 DEF Transition, WriteRolledBack, dbVars
    <3>3. SettledOf(r)'
      BY <2>0, <3>1, <3>2 DEF SettledOf
    <3> QED
      BY <2>0, <3>2, <3>3, SettledKept
  <2>3. CASE AcquireConnection(r) \/ UpdateTask(r)
    <3>1. /\ req'[r].pc \in {"insert", "preview", "report"}
          /\ req'[r].todo = req[r].todo /\ req'[r].user = req[r].user
      BY <2>3, GotoTyped, Labels DEF AcquireConnection, UpdateTask
    <3>2. UNCHANGED record
      BY <2>3 DEF AcquireConnection, UpdateTask, dbVars
    <3>3. SettledOf(r)'
      BY <2>0, <3>1, <3>2 DEF SettledOf
    <3> QED
      BY <2>0, <3>2, <3>3, SettledKept
  <2>4. ASSUME NEW p \in Plans, RunStrategy(r, p) \/ MarkExecuted(r, p)
        PROVE  SettledInv'
    <3>1. /\ req'[r].pc \in {"complete", "failing", "roll"}
          /\ req'[r].todo = req[r].todo /\ req'[r].user = req[r].user
      BY <2>4, GotoTyped, Labels DEF RunStrategy, MarkExecuted
    <3>2. UNCHANGED record
      BY <2>4 DEF RunStrategy, MarkExecuted, dbVars
    <3>3. SettledOf(r)'
      BY <2>0, <3>1, <3>2 DEF SettledOf
    <3> QED
      BY <2>0, <3>2, <3>3, SettledKept
  <2>5. ASSUME NEW p \in Plans, CreateExecution(r, p) PROVE SettledInv'
    <3>1. /\ req'[r].pc = "announce" /\ p \in req[r].todo
          /\ req'[r].todo = req[r].todo /\ req'[r].user = req[r].user
      BY <2>5, GotoTyped, Labels DEF CreateExecution, Current
    <3>2. \A s \in Requests, q \in Plans :
            record'[s][q] = IF s = r /\ q = p THEN "running" ELSE record[s][q]
      BY <2>5, CreateWrites
    <3>3. SettledOf(r)'
      BY <2>0, <3>1, <3>2 DEF SettledOf
    <3> QED
      BY <2>0, <3>2, <3>3, SettledKept
  <2>6. ASSUME NEW p \in Plans, CompleteExecution(r, p) PROVE SettledInv'
    <3>1. /\ req'[r].pc = "mark"
          /\ req'[r].todo = req[r].todo /\ req'[r].user = req[r].user
      BY <2>0, <2>6, GotoTyped, Labels DEF CompleteExecution
    <3>2. \A s \in Requests, q \in Plans :
            record'[s][q] = IF s = r /\ q = p THEN "completed" ELSE record[s][q]
      BY <2>0, <2>6, CompleteWrites
    <3>3. SettledOf(r)'
      BY <2>0, <3>1, <3>2 DEF SettledOf
    <3> QED
      BY <2>0, <3>2, <3>3, SettledKept
  <2>7. ASSUME NEW p \in Plans, Report(r, p) PROVE SettledInv'
    <3>1. /\ req'[r].pc \in {"acquire", "transition", "done"}
          /\ req'[r].pc # "acquire" => req'[r].todo = {}
          /\ req'[r].todo = req[r].todo \ {p} /\ req'[r].user = req[r].user
      BY <2>7, ReturnTyped DEF Report
    <3>2. record[r][p] = "completed" /\ UNCHANGED record
      BY <2>7 DEF Report, Completed, dbVars
    <3>3. SettledOf(r)'
      BY <2>0, <3>1, <3>2 DEF SettledOf
    <3> QED
      BY <2>0, <3>2, <3>3, SettledKept
  <2>8. ASSUME NEW p \in Plans, FailExecution(r, p) PROVE SettledInv'
    <3>1. /\ req'[r].pc \in {"acquire", "transition", "done"}
          /\ req'[r].pc # "acquire" => req'[r].todo = {}
          /\ req'[r].todo = req[r].todo \ {p} /\ req'[r].user = req[r].user
      BY <2>0, <2>8, ReturnTyped DEF FailExecution
    <3>2. \A s \in Requests, q \in Plans :
            record'[s][q] = IF s = r /\ q = p THEN "failed" ELSE record[s][q]
      BY <2>0, <2>8, FailWrites
    <3>3. SettledOf(r)'
      BY <2>0, <3>1, <3>2 DEF SettledOf
    <3> QED
      BY <2>0, <3>2, <3>3, SettledKept
  <2>9. ASSUME NEW p \in Plans, Preview(r, p) PROVE SettledInv'
    <3>1. /\ req[r].pc = "preview"
          /\ req'[r].pc \in {"raised", "done"}
          /\ req'[r].todo = {} /\ req'[r].user = req[r].user
      BY <2>9, PreviewTyped DEF Preview
    <3>2. UNCHANGED record
      BY <2>9 DEF Preview, dbVars
    <3>3. \A q \in Plans : record[r][q] # "running"
      BY <1>0, <2>0, <3>1 DEF ShapeOf, SettledOf
    <3>4. SettledOf(r)'
      BY <2>0, <3>1, <3>2, <3>3 DEF SettledOf
    <3> QED
      BY <2>0, <3>2, <3>4, SettledKept
  <2> QED
    BY <1>2, <2>1, <2>2, <2>3, <2>4, <2>5, <2>6, <2>7, <2>8, <2>9 DEF Step
<1>3. ASSUME NEW r \in Requests PROVE ~Fault(r)
  BY FaultsCount
<1>4. CASE Crash
  <2>1. ASSUME NEW r \in Requests
        PROVE  \/ req'[r] = req[r]
               \/ /\ req'[r].pc = "lost" /\ req'[r].todo = req[r].todo
                  /\ req'[r].user = req[r].user /\ req[r].pc # "idle"
    <3>1. r \in Open => req[r].pc # "idle"
      BY Labels DEF Open
    <3> QED
      BY <1>4, <3>1 DEF Crash, TypeOK, Request
  <2>2. UNCHANGED record
    BY <1>4 DEF Crash, dbVars
  <2>3. ASSUME NEW r \in Requests PROVE SettledOf(r)'
    BY <1>0, <2>1, <2>2 DEF SettledOf
  <2> QED
    BY <2>3 DEF SettledInv
<1>5. CASE UNCHANGED vars
  BY <1>5 DEF vars, dbVars, SettledInv, SettledOf
<1> QED
  BY <1>1, <1>2, <1>3, <1>4, <1>5 DEF Next

\* As long as no statement raises, and with requests that name a user as their
\* actor, the execution of an answered request is completed or failed, never
\* running: for any strategies, any number of requests, and crashes.
THEOREM AnsweredIsSettled ==
    ASSUME ActorChoices = {TRUE}
    PROVE  Spec => []RecordsSettled
<1>1. Init => SettledInv
  BY DEF Init, SettledInv, SettledOf
<1>2. TypeOK /\ (NoFaultYet => RecordInv) /\ (NoFaultYet => SettledInv)
        /\ [Next]_vars => (NoFaultYet => SettledInv)'
  BY FaultsCount, StepSettled
<1>3. (NoFaultYet => SettledInv) => RecordsSettled
  BY DEF SettledInv, SettledOf, RecordsSettled, Answered, NoFaultYet
<1> QED
  BY <1>1, <1>2, <1>3, RecordAlways, TypeCorrect, PTL DEF Spec

-----------------------------------------------------------------------------
(* Carried out once: no plan is completed by two task-level rollbacks that    *)
(* were alone, through one statement that raises.                             *)

Counted(r) == req[r].kind = "task" /\ alone[r]

Begun == {"announce", "complete", "mark", "roll", "report", "failing"}

\* Of the plans a request has still to do, only the one it is at has a record,
\* and it is not completed before it is.
OneBegun(r) ==
    /\ req[r].pc \in {"idle", "select"} => \A q \in Plans : record[r][q] = "none"
    /\ req[r].pc \in {"acquire", "insert", "preview"}
         => \A q \in req[r].todo : record[r][q] = "none"
    /\ req[r].pc \in {"announce", "complete"}
         => \A q \in req[r].todo : record[r][q] \in {"none", "running"}
    /\ req[r].pc \in Begun
         => \A q1, q2 \in req[r].todo :
              record[r][q1] # "none" /\ record[r][q2] # "none" => q1 = q2

\* A completed plan is marked, unless its request is about to mark it or its
\* except clause, which the one fault has reached, is about to write it failed.
MarkedOf(r) ==
    \A q \in Plans :
        record[r][q] = "completed" /\ ~executed[q] =>
            /\ q \in req[r].todo /\ req[r].user
            /\ \/ req[r].pc = "mark"
               \/ (req[r].pc = "failing" /\ left.faults = 0)

AloneOf(r) == alone[r] /\ r \in Open => \A s \in Open : s = r

\* What an open request has still to do was not done by another one.
ClaimOf(r) ==
    r \in Open /\ Counted(r) =>
        \A s \in Requests, q \in req[r].todo :
            s # r /\ Counted(s) => record[s][q] # "completed"

OnceOf(r) ==
    \A s \in Requests, q \in Plans :
        s # r /\ Counted(r) /\ Counted(s)
            => ~(record[r][q] = "completed" /\ record[s][q] = "completed")

OnceInv ==
    \A r \in Requests :
        OneBegun(r) /\ MarkedOf(r) /\ AloneOf(r) /\ ClaimOf(r) /\ OnceOf(r)

LEMMA OpenIs ==
    /\ Open = {r \in Requests : req[r].pc \in OpenPC}
    /\ Open' = {r \in Requests : req'[r].pc \in OpenPC}
BY Labels DEF Open, OpenPC

\* A step of an open request, told by what it does to the request's own place
\* and records, keeps what relates it to the others.
LEMMA OnceKept ==
    ASSUME TypeOK, OnceInv, NEW r \in Requests, req[r].pc \in OpenPC,
           \A s \in Requests : s # r => req'[s] = req[s],
           \A s \in Requests, q \in Plans : s # r => record'[s][q] = record[s][q],
           alone' = alone, req'[r].kind = req[r].kind,
           \A q \in Plans : executed[q] => executed'[q],
           left.faults = 0 => left'.faults = 0,
           \A q \in Plans : record'[r][q] = "completed" =>
               record[r][q] = "completed" \/ q \in req[r].todo,
           req'[r].todo \subseteq Plans,
           \A q \in req'[r].todo : q \in req[r].todo \/ ~executed[q],
           OneBegun(r)', MarkedOf(r)'
    PROVE  OnceInv'
<1>1. r \in Open /\ \A s \in Open' : s \in Open
  BY OpenIs
<1>2. \A s \in Requests : Counted(s)' <=> Counted(s)
  BY DEF Counted
<1>3. ASSUME NEW s \in Requests, s # r PROVE OneBegun(s)' /\ MarkedOf(s)'
  <2>1. /\ req'[s] = req[s] /\ req[s].todo \subseteq Plans
        /\ \A q \in Plans : record'[s][q] = record[s][q]
    BY <1>3, TodoTyped
  <2>2. OneBegun(s) /\ MarkedOf(s)
    BY DEF OnceInv
  <2>3. OneBegun(s)'
    BY <2>1, <2>2 DEF OneBegun
  <2>4. MarkedOf(s)'
    BY <2>1, <2>2 DEF MarkedOf
  <2> QED
    BY <2>3, <2>4
<1>4. ASSUME NEW s \in Requests PROVE AloneOf(s)'
  BY <1>1 DEF AloneOf, OnceInv
<1>5. ASSUME NEW s \in Requests PROVE ClaimOf(s)'
  <2> SUFFICES ASSUME s \in Open', Counted(s)', NEW t \in Requests,
                      NEW q \in req'[s].todo, t # s, Counted(t)'
               PROVE  record'[t][q] # "completed"
    BY DEF ClaimOf
  <2>1. s = r
    BY <1>1, <1>2 DEF OnceInv, AloneOf, Counted
  <2>2. q \in Plans /\ record'[t][q] = record[t][q]
    BY <2>1
  <2>3. CASE q \in req[r].todo
    BY <1>1, <1>2, <2>1, <2>2, <2>3 DEF OnceInv, ClaimOf
  <2>4. CASE ~executed[q]
    <3>1. SUFFICES ASSUME record[t][q] = "completed" PROVE FALSE
      BY <2>2
    <3>2. req[t].pc \in OpenPC
      BY <2>2, <2>4, <3>1 DEF OnceInv, MarkedOf, OpenPC
    <3> QED
      BY <1>1, <1>2, <2>1, <3>2, OpenIs DEF OnceInv, AloneOf, Counted
  <2> QED
    BY <2>1, <2>3, <2>4
<1>6. ASSUME NEW t \in Requests, NEW q \in Plans, t # r, Counted(r), Counted(t)
      PROVE  ~(record'[r][q] = "completed" /\ record'[t][q] = "completed")
  <2>1. record'[t][q] = record[t][q]
    BY <1>6
  <2>2. CASE record[r][q] = "completed"
    BY <1>6, <2>1, <2>2 DEF OnceInv, OnceOf
  <2>3. CASE q \in req[r].todo
    BY <1>1, <1>6, <2>1, <2>3 DEF OnceInv, ClaimOf
  <2> QED
    BY <2>2, <2>3
<1>7. ASSUME NEW s \in Requests PROVE OnceOf(s)'
  <2> SUFFICES ASSUME NEW t \in Requests, NEW q \in Plans, t # s,
                      Counted(s), Counted(t)
               PROVE  ~(record'[s][q] = "completed" /\ record'[t][q] = "completed")
    BY <1>2 DEF OnceOf
  <2>1. CASE s = r
    BY <1>6, <2>1
  <2>2. CASE t = r
    BY <1>6, <2>2
  <2>3. CASE s # r /\ t # r
    BY <2>3 DEF OnceInv, OnceOf
  <2> QED
    BY <2>1, <2>2, <2>3
<1> QED
  BY <1>3, <1>4, <1>5, <1>7 DEF OnceInv

\* A request that is made has no record, and is alone or not counted.
LEMMA AskOnce ==
    ASSUME TypeOK, OnceInv, NEW r \in Requests, Ask(r)
    PROVE  OnceInv'
<1>1. /\ req[r].pc = "idle" /\ \A q \in Plans : record[r][q] = "none"
      /\ UNCHANGED <<record, executed, left>>
  BY DEF Ask, OnceInv, OneBegun, dbVars
<1>2. /\ req'[r].pc \in {"acquire", "select"}
      /\ req'[r].todo \subseteq Plans
      /\ req'[r].kind = "task" => req'[r].todo = {}
      /\ \A s \in Requests : s # r => req'[s] = req[s]
  BY DEF Ask, TypeOK
<1>3. \A s \in Requests :
        alone'[s] <=> IF s = r THEN Open = {} ELSE alone[s] /\ s \notin Open
  BY DEF Ask
<1>4. Open' = Open \cup {r}
  BY <1>2, OpenIs DEF OpenPC
<1>5. ASSUME NEW s \in Requests PROVE OneBegun(s)' /\ MarkedOf(s)'
  <2>1. CASE s = r
    BY <1>1, <1>2, <2>1 DEF OneBegun, MarkedOf, Begun
  <2>2. CASE s # r
    <3>1. req'[s] = req[s] /\ OneBegun(s) /\ MarkedOf(s)
      BY <1>2, <2>2 DEF OnceInv
    <3>2. OneBegun(s)'
      BY <1>1, <3>1 DEF OneBegun
    <3>3. MarkedOf(s)'
      BY <1>1, <3>1 DEF MarkedOf
    <3> QED
      BY <3>2, <3>3
  <2> QED
    BY <2>1, <2>2
<1>6. ASSUME NEW s \in Requests PROVE AloneOf(s)'
  BY <1>3, <1>4 DEF AloneOf
<1>7. ASSUME NEW s \in Requests PROVE ClaimOf(s)'
  <2>1. s \in Open' /\ Counted(s)' => s = r /\ req'[s].kind = "task"
    BY <1>3, <1>4 DEF Counted
  <2> QED
    BY <1>2, <2>1 DEF ClaimOf
<1>8. ASSUME NEW s \in Requests PROVE OnceOf(s)'
  <2> SUFFICES ASSUME NEW t \in Requests, NEW q \in Plans, t # s,
                      Counted(s)', Counted(t)'
               PROVE  ~(record'[s][q] = "completed" /\ record'[t][q] = "completed")
    BY DEF OnceOf
  <2>1. CASE s = r \/ t = r
    BY <1>1, <2>1
  <2>2. CASE s # r /\ t # r
    BY <1>1, <1>2, <1>3, <2>2 DEF OnceInv, OnceOf, Counted
  <2> QED
    BY <2>1, <2>2
<1> QED
  BY <1>5, <1>6, <1>7, <1>8 DEF OnceInv

\* A step that changes no record and no plan, and goes on with plans that had
\* no record or are not executed.
LEMMA OnceMoved ==
    ASSUME TypeOK, OnceInv, NEW r \in Requests, req[r].pc \in OpenPC,
           \A s \in Requests : s # r => req'[s] = req[s],
           UNCHANGED <<record, executed, alone>>,
           left.faults = 0 => left'.faults = 0,
           req'[r].kind = req[r].kind, req'[r].todo \subseteq Plans,
           \A q \in req'[r].todo : q \in req[r].todo \/ ~executed[q],
           OneBegun(r)', MarkedOf(r)'
    PROVE  OnceInv'
BY OnceKept

LEMMA StepOnce ==
    ASSUME MaxFaults \in {0, 1}, TypeOK, OnceInv, NEW r \in Requests,
           Step(r) \/ Fault(r)
    PROVE  OnceInv'
<1>0. /\ req[r].pc \in OpenPC
      /\ \A s \in Requests : s # r => req'[s] = req[s]
      /\ req[r].todo \subseteq Plans /\ req[r].user \in BOOLEAN
      /\ OneBegun(r) /\ MarkedOf(r)
  BY StepMoves, TodoTyped DEF OnceInv
<1>1. CASE SelectPlans(r)
  <2>1. /\ req[r].pc = "select" /\ req'[r].pc \in {"acquire", "done"}
        /\ req'[r].todo \subseteq Plans /\ req'[r].kind = req[r].kind
    BY <1>1, SelectTyped DEF SelectPlans, TypeOK, Request
  <2>2. \A q \in req'[r].todo : ~executed[q]
    BY <1>1 DEF SelectPlans, TypeOK, Request
  <2>3. UNCHANGED <<record, executed, alone, left>>
    BY <1>1 DEF SelectPlans, dbVars, history
  <2>4. OneBegun(r)'
    BY <1>0, <2>1, <2>3 DEF OneBegun, Begun
  <2>5. MarkedOf(r)'
    BY <1>0, <2>1, <2>3 DEF MarkedOf, OneBegun
  <2> QED
    BY <1>0, <2>1, <2>2, <2>3, <2>4, <2>5, OnceMoved
<1>2. CASE Transition(r) \/ WriteRolledBack(r) \/ AcquireConnection(r)
             \/ UpdateTask(r)
  <2>1. /\ \/ req'[r].pc \in {"transitioned", "done"}
           \/ req[r].pc = "acquire" /\ req'[r].pc \in {"insert", "preview"}
           \/ req[r].pc = "roll" /\ req'[r].pc = "report"
        /\ req[r].pc \in {"transition", "transitioned", "acquire", "roll"}
        /\ req'[r].todo = req[r].todo /\ req'[r].kind = req[r].kind
    BY <1>2, GotoTyped, Labels
       DEF Transition, WriteRolledBack, AcquireConnection, UpdateTask
  <2>2. UNCHANGED <<record, executed, alone, left>>
    BY <1>2 DEF Transition, WriteRolledBack, AcquireConnection, UpdateTask,
                dbVars, history
  <2>3. OneBegun(r)'
    BY <1>0, <2>1, <2>2 DEF OneBegun, Begun
  <2>4. MarkedOf(r)'
    BY <1>0, <2>1, <2>2 DEF MarkedOf
  <2> QED
    BY <1>0, <2>1, <2>2, <2>3, <2>4, OnceMoved
<1>3. ASSUME NEW p \in Plans, Preview(r, p) PROVE OnceInv'
  <2>1. /\ req[r].pc = "preview" /\ req'[r].pc \in {"raised", "done"}
        /\ req'[r].todo = {} /\ req'[r].kind = req[r].kind
    BY <1>3, PreviewTyped DEF Preview
  <2>2. UNCHANGED <<record, executed, alone, left>>
    BY <1>3 DEF Preview, dbVars, history
  <2>3. OneBegun(r)'
    BY <2>1 DEF OneBegun, Begun
  <2>4. MarkedOf(r)'
    BY <1>0, <2>1, <2>2 DEF MarkedOf
  <2> QED
    BY <1>0, <2>1, <2>2, <2>3, <2>4, OnceMoved
<1>4. ASSUME NEW p \in Plans, CreateExecution(r, p) PROVE OnceInv'
  <2>1. /\ req[r].pc = "insert" /\ req'[r].pc = "announce"
        /\ req'[r].todo = req[r].todo /\ req'[r].kind = req[r].kind
    BY <1>4, GotoTyped, Labels DEF CreateExecution
  <2>2. \A s \in Requests, q \in Plans :
          record'[s][q] = IF s = r /\ q = p THEN "running" ELSE record[s][q]
    BY <1>4, CreateWrites
  <2>3. UNCHANGED <<executed, alone, left>>
    BY <1>4 DEF CreateExecution, history
  <2>4. OneBegun(r)'
    BY <1>0, <2>1, <2>2 DEF OneBegun
  <2>5. MarkedOf(r)'
    BY <1>0, <2>1, <2>2, <2>3 DEF MarkedOf
  <2> QED
    BY <1>0, <2>1, <2>2, <2>3, <2>4, <2>5, OnceKept
<1>5. ASSUME NEW p \in Plans, RunStrategy(r, p) PROVE OnceInv'
  <2>1. /\ req[r].pc = "announce" /\ req'[r].pc \in {"failing", "complete"}
        /\ req'[r].todo = req[r].todo /\ req'[r].kind = req[r].kind
    BY <1>5, GotoTyped, Labels DEF RunStrategy
  <2>2. UNCHANGED <<record, executed, alone, left>>
    BY <1>5 DEF RunStrategy, dbVars, history
  <2>3. OneBegun(r)'
    BY <1>0, <2>1, <2>2 DEF OneBegun, Begun
  <2>4. MarkedOf(r)'
    BY <1>0, <2>1, <2>2 DEF MarkedOf
  <2> QED
    BY <1>0, <2>1, <2>2, <2>3, <2>4, OnceMoved
<1>6. ASSUME NEW p \in Plans, CompleteExecution(r, p) PROVE OnceInv'
  <2>1. /\ req[r].pc = "complete" /\ Current(r, p)
        /\ req'[r].todo = req[r].todo /\ req'[r].kind = req[r].kind
        /\ req'[r].user = req[r].user
        /\ UNCHANGED <<executed, alone, left>>
    BY <1>6, GotoTyped, Labels DEF CompleteExecution, history
  <2>2. CASE ~req[r].user
    <3>1. req'[r].pc = "failing" /\ UNCHANGED record
      BY <1>6, <2>2, GotoTyped, Labels DEF CompleteExecution
    <3>2. OneBegun(r)'
      BY <1>0, <2>1, <3>1 DEF OneBegun, Begun
    <3>3. MarkedOf(r)'
      BY <1>0, <2>1, <3>1 DEF MarkedOf
    <3> QED
      BY <1>0, <2>1, <3>1, <3>2, <3>3, OnceMoved
  <2>3. CASE req[r].user
    <3>1. req'[r].pc = "mark"
      BY <1>6, <2>3, GotoTyped, Labels DEF CompleteExecution
    <3>2. \A s \in Requests, q \in Plans :
            record'[s][q] = IF s = r /\ q = p THEN "completed" ELSE record[s][q]
      BY <1>6, <2>3, CompleteWrites
    <3>3. \A q \in req[r].todo : q # p => record[r][q] = "none"
      BY <1>0, <2>1 DEF OneBegun, Current
    <3>4. OneBegun(r)'
      BY <1>0, <2>1, <3>1, <3>2, <3>3 DEF OneBegun
    <3>5. MarkedOf(r)'
      BY <1>0, <2>1, <2>3, <3>1, <3>2 DEF MarkedOf, Current
    <3> QED
      BY <1>0, <2>1, <3>2, <3>4, <3>5, OnceKept DEF Current
  <2> QED
    BY <1>0, <2>2, <2>3
<1>7. ASSUME NEW p \in Plans, MarkExecuted(r, p) PROVE OnceInv'
  <2>1. /\ req[r].pc = "mark" /\ req'[r].pc = "roll" /\ Completed(r, p)
        /\ req'[r].todo = req[r].todo /\ req'[r].kind = req[r].kind
        /\ UNCHANGED <<record, alone, left>>
    BY <1>7, GotoTyped, Labels DEF MarkExecuted, history
  <2>2. \A q \in Plans : executed'[q] <=> (executed[q] \/ q = p)
    BY <1>7 DEF MarkExecuted, TypeOK
  <2>3. OneBegun(r)'
    BY <1>0, <2>1 DEF OneBegun, Begun
  <2>4. MarkedOf(r)'
    BY <1>0, <2>1, <2>2 DEF MarkedOf, OneBegun, Begun, Completed
  <2> QED
    BY <1>0, <2>1, <2>2, <2>3, <2>4, OnceKept
<1>8. ASSUME NEW p \in Plans, Report(r, p) PROVE OnceInv'
  <2>1. /\ req[r].pc = "report" /\ Completed(r, p)
        /\ req'[r].pc \in {"acquire", "transition", "done"}
        /\ req'[r].todo = req[r].todo \ {p} /\ req'[r].kind = req[r].kind
    BY <1>8, ReturnTyped DEF Report
  <2>2. UNCHANGED <<record, executed, alone, left>>
    BY <1>8 DEF Report, dbVars, history
  <2>3. \A q \in req[r].todo : q # p => record[r][q] = "none"
    BY <1>0, <2>1 DEF OneBegun, Begun, Completed
  <2>4. OneBegun(r)'
    BY <2>1, <2>2, <2>3 DEF OneBegun, Begun
  <2>5. MarkedOf(r)'
    BY <1>0, <2>1, <2>2 DEF MarkedOf
  <2> QED
    BY <1>0, <2>1, <2>2, <2>4, <2>5, OnceMoved
<1>9. ASSUME NEW p \in Plans, FailExecution(r, p) PROVE OnceInv'
  <2>1. /\ req[r].pc = "failing" /\ p \in req[r].todo
        /\ record[r][p] \in {"running", "completed"}
        /\ UNCHANGED <<executed, alone, left>>
    BY <1>9 DEF FailExecution, history
  <2>2. \A q \in req[r].todo : q # p => record[r][q] = "none"
    BY <1>0, <2>1 DEF OneBegun, Begun
  <2>3. CASE ~req[r].user
    <3>1. /\ req'[r].pc = "raised" /\ UNCHANGED record
          /\ req'[r].todo = req[r].todo /\ req'[r].kind = req[r].kind
      BY <1>9, <2>3, GotoTyped, Labels DEF FailExecution
    <3>2. OneBegun(r)'
      BY <3>1 DEF OneBegun, Begun
    <3>3. MarkedOf(r)'
      BY <1>0, <2>1, <2>3, <3>1 DEF MarkedOf
    <3> QED
      BY <1>0, <2>1, <3>1, <3>2, <3>3, OnceMoved
  <2>4. CASE req[r].user
    <3>1. /\ req'[r].pc \in {"acquire", "transition", "done"}
          /\ req'[r].todo = req[r].todo \ {p} /\ req'[r].kind = req[r].kind
      BY <1>9, <2>4, ReturnTyped DEF FailExecution
    <3>2. \A s \in Requests, q \in Plans :
            record'[s][q] = IF s = r /\ q = p THEN "failed" ELSE record[s][q]
      BY <1>9, <2>4, FailWrites
    <3>3. OneBegun(r)'
      BY <1>0, <2>2, <3>1, <3>2 DEF OneBegun, Begun
    <3>4. MarkedOf(r)'
      <4>1. SUFFICES ASSUME NEW q \in Plans, record'[r][q] = "completed"
                     PROVE  executed'[q]
        BY DEF MarkedOf
      <4>2. q # p /\ record[r][q] = "completed"
        BY <3>2, <4>1
      <4> QED
        BY <1>0, <2>1, <2>2, <4>2 DEF MarkedOf
    <3> QED
      BY <1>0, <2>1, <3>1, <3>2, <3>3, <3>4, OnceKept
  <2> QED
    BY <1>0, <2>3, <2>4
<1>10. CASE Fault(r)
  <2>0. /\ left.faults \in 0..MaxFaults /\ left.faults > 0
        /\ left'.faults = left.faults - 1
    BY <1>10, ConstantFacts DEF Fault, TypeOK
  <2>1. left'.faults = 0 /\ left.faults # 0
    BY <2>0
  <2>2. /\ req'[r].pc = IF req[r].pc \in Try THEN "failing" ELSE "raised"
        /\ req'[r].todo = req[r].todo /\ req'[r].kind = req[r].kind
        /\ req'[r].user = req[r].user
    BY <1>10, GotoTyped, Labels DEF Fault
  <2>3. UNCHANGED <<record, executed, alone>>
    BY <1>10 DEF Fault, dbVars, history
  <2>4. OneBegun(r)'
    BY <1>0, <2>2, <2>3 DEF OneBegun, Begun, Try
  <2>5. MarkedOf(r)'
    BY <1>0, <2>1, <2>2, <2>3 DEF MarkedOf, Try
  <2> QED
    BY <1>0, <2>1, <2>2, <2>3, <2>4, <2>5, OnceMoved
<1> QED
  BY <1>1, <1>2, <1>3, <1>4, <1>5, <1>6, <1>7, <1>8, <1>9, <1>10 DEF Step

NoCrashYet == left.crashes = MaxCrashes

LEMMA AtMostOne ==
    ASSUME NEW S, \A x, y \in S : x = y
    PROVE  Cardinality(S) < 2
<1>1. CASE S = {}
  <2>1. Cardinality(S) = 0
    BY <1>1, FS_EmptySet
  <2> QED
    BY <2>1
<1>2. CASE S # {}
  <2>1. PICK x \in S : TRUE
    BY <1>2
  <2>2. S = {x}
    BY <2>1
  <2>3. Cardinality(S) = 1
    BY <2>2, FS_Singleton
  <2> QED
    BY <2>3
<1> QED
  BY <1>1, <1>2

\* A plan is carried out by at most one of the task-level rollbacks that were
\* alone, if at most one statement raises: for any number of requests and plans.
THEOREM CarriedOutAtMostOnce ==
    ASSUME MaxFaults \in {0, 1}
    PROVE  Spec => []CarriedOutOnce
<1>1. Init => OnceInv
  <2> SUFFICES ASSUME Init, NEW r \in Requests
               PROVE  /\ OneBegun(r) /\ MarkedOf(r) /\ AloneOf(r)
                      /\ ClaimOf(r) /\ OnceOf(r)
    BY DEF OnceInv
  <2>1. req[r].pc = "idle" /\ req[r].todo = {}
        /\ \A q \in Plans : record[r][q] = "none"
    BY DEF Init
  <2>2. r \notin Open
    BY <2>1, OpenIs DEF OpenPC
  <2>3. OneBegun(r) /\ MarkedOf(r)
    BY <2>1 DEF OneBegun, MarkedOf, Begun
  <2> QED
    BY <2>1, <2>2, <2>3 DEF AloneOf, ClaimOf, OnceOf
<1>2. TypeOK /\ (NoCrashYet => OnceInv) /\ [Next]_vars => (NoCrashYet => OnceInv)'
  <2> SUFFICES ASSUME TypeOK, NoCrashYet => OnceInv, [Next]_vars, NoCrashYet'
               PROVE  OnceInv'
    OBVIOUS
  <2>0. /\ MaxCrashes \in Nat
        /\ left \in [faults : 0..MaxFaults, crashes : 0..MaxCrashes]
    BY ConstantFacts DEF TypeOK
  <2>1. ASSUME NEW r \in Requests, Ask(r) PROVE OnceInv'
    <3>1. NoCrashYet
      BY <2>1 DEF Ask, NoCrashYet
    <3> QED
      BY <2>1, <3>1, AskOnce
  <2>2. ASSUME NEW r \in Requests, Step(r) \/ Fault(r) PROVE OnceInv'
    <3>1. left'.crashes = left.crashes
      <4>1. CASE Step(r)
        BY <4>1 DEF Step, SelectPlans, Transition, WriteRolledBack,
           AcquireConnection, UpdateTask, Preview, CreateExecution, RunStrategy,
           CompleteExecution, MarkExecuted, Report, FailExecution
      <4>2. CASE Fault(r)
        BY <2>0, <4>2 DEF Fault
      <4> QED
        BY <2>2, <4>1, <4>2
    <3> QED
      BY <2>2, <3>1, StepOnce DEF NoCrashYet
  <2>3. CASE Crash
    <3>1. left'.crashes = left.crashes - 1 /\ left.crashes \in 0..MaxCrashes
      BY <2>0, <2>3 DEF Crash
    <3> QED
      BY <2>0, <3>1 DEF NoCrashYet
  <2>4. CASE UNCHANGED vars
    BY <2>4 DEF vars, dbVars, history, NoCrashYet, OnceInv, OneBegun, MarkedOf,
                AloneOf, ClaimOf, OnceOf, Counted, Open
  <2> QED
    BY <2>1, <2>2, <2>3, <2>4 DEF Next
<1>3. (NoCrashYet => OnceInv) => CarriedOutOnce
  <2> SUFFICES ASSUME OnceInv, NEW p \in Plans
               PROVE  Cardinality({r \in Requests :
                        /\ req[r].kind = "task" /\ alone[r]
                        /\ record[r][p] = "completed"}) < 2
    BY DEF CarriedOutOnce, NoCrashYet
  <2> DEFINE Done == {r \in Requests : /\ req[r].kind = "task" /\ alone[r]
                                       /\ record[r][p] = "completed"}
  <2>1. \A r, s \in Done : r = s
    BY DEF OnceInv, OnceOf, Counted
  <2> HIDE DEF Done
  <2>2. Cardinality(Done) < 2
    BY <2>1, AtMostOne
  <2> QED
    BY <2>2 DEF Done
<1> QED
  BY <1>1, <1>2, <1>3, TypeCorrect, PTL DEF Spec
=============================================================================
