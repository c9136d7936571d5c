--------------------------- MODULE FinalizeProofs ---------------------------
(***************************************************************************)
(* Theorems about Finalize, for any runs, tool calls and analyses and any   *)
(* number of faults, cancellations and crashes.                             *)
(***************************************************************************)
EXTENDS Finalize, FiniteSetTheorems, SequenceTheorems, WellFoundedInduction, TLAPS

\* The newest number exists: a finite set of numbers has a greatest.
LEMMA GreatestExists ==
    ASSUME NEW S, S \subseteq Nat, IsFiniteSet(S), S # {}
    PROVE  \E m \in S : \A n \in S : n <= m
<1> DEFINE Above(x) == {y \in S : y > x}
           T == {Above(x) : x \in S}
           R == StrictSubsetOrdering(S)
<1>1. IsWellFoundedOn(R, FiniteSubsetsOf(S))
  BY FS_StrictSubsetOrderingWellFounded
<1>2. T \subseteq FiniteSubsetsOf(S) /\ T # {}
  <2>1. \A x \in S : Above(x) \in SUBSET S /\ IsFiniteSet(Above(x))
    BY FS_Subset
  <2> HIDE DEF Above
  <2> QED BY <2>1 DEF FiniteSubsetsOf
<1> HIDE DEF R
<1>3. \E A \in T : \A B \in T : <<B, A>> \notin R
  <2> HIDE DEF T
  <2> QED BY <1>1, <1>2, WFMin
<1>4. PICK m \in S : \A B \in T : <<B, Above(m)>> \notin R
  BY <1>3
<1>5. ASSUME NEW n \in S PROVE n <= m
  <2>1. SUFFICES ASSUME n > m PROVE FALSE
    OBVIOUS
  <2>2. Above(n) \subseteq Above(m) /\ m \in Nat /\ n \in Nat
    <3>1. m \in Nat /\ n \in Nat
      OBVIOUS
    <3>2. ASSUME NEW y \in S, y > n PROVE y > m
      BY <2>1, <3>1, <3>2
    <3> QED BY <3>1, <3>2
  <2>3. n \in Above(m) /\ n \notin Above(n)
    BY <2>1, <2>2
  <2>4. <<Above(n), Above(m)>> \in (SUBSET S) \X (SUBSET S) /\ Above(n) # Above(m)
    BY <2>3
  <2>5. <<Above(n), Above(m)>> \in R
    BY <2>2, <2>4 DEF R, StrictSubsetOrdering
  <2> QED BY <1>4, <2>5
<1> QED BY <1>5

LEMMA NumberTyped ==
    ASSUME FinalizeTypeOK, NEW l \in Loggers
    PROVE  Number(l) \in Nat \ {0}
<1>1. Newest \in Nat
  BY GreatestExists DEF FinalizeTypeOK, Newest
<1> QED BY <1>1 DEF FinalizeTypeOK, Number

-----------------------------------------------------------------------------
(* The tables *)

LEMMA AfterTable ==
    /\ After["artifact"] = "artifact_event" /\ After["artifact_event"] = "plan"
    /\ After["plan"] = "plan_event" /\ After["plan_event"] = "completed_event"
    /\ After["completed_event"] = "completed_status"
    /\ After["completed_status"] = "completed_update"
    /\ After["completed_update"] = "memories"
    /\ After["memories"] = "memory_event" /\ After["memory_event"] = "skill"
    /\ After["skill"] = "eval" /\ After["eval"] = "eval_event"
    /\ After["eval_event"] = "task_event" /\ After["task_event"] = "clear"
    /\ After["clear"] = "completed" /\ After["failed_event"] = "failed_status"
    /\ After["failed_status"] = "failed_update"
    /\ After["failed_update"] = "failure_event" /\ After["failure_event"] = "failed"
  BY DEF After

Statements ==
    {"artifact", "artifact_event", "plan", "plan_event", "completed_event",
     "completed_status", "completed_update", "memories", "memory_event", "skill",
     "eval", "eval_event", "task_event", "clear", "failed_event", "failed_status",
     "failed_update", "failure_event"}

LEMMA Domains ==
    /\ DOMAIN After = Statements
    /\ DOMAIN EventOf = {"artifact_event", "plan_event", "completed_event", "memory_event",
                         "eval_event", "task_event", "failed_event", "failure_event"}
    /\ DOMAIN StatusOf = {"completed_status", "completed_update", "failed_status",
                          "failed_update"}
  BY DEF After, Statements, EventOf, StatusOf

LEMMA AfterTyped == \A s \in Statements : After[s] \in Statements \cup RunEnd
  BY AfterTable DEF Statements, RunEnd

LEMMA EventTable ==
    /\ EventOf["artifact_event"] = "artifact.created"
    /\ EventOf["plan_event"] = "rollback_plan.created"
    /\ EventOf["completed_event"] = "to completed"
    /\ EventOf["memory_event"] = "memory.updated"
    /\ EventOf["eval_event"] = "eval.completed"
    /\ EventOf["task_event"] = "task.completed"
    /\ EventOf["failed_event"] = "to failed"
    /\ EventOf["failure_event"] = "task.failed"
  BY DEF EventOf

LEMMA StatusTyped == \A s \in DOMAIN StatusOf : StatusOf[s] \in Statuses
  BY DEF StatusOf, Statuses

\* The memories of a run are a nonempty sequence of memory types.
LEMMA MemoriesOfTyped ==
    ASSUME FinalizeTypeOK, NEW r \in Runs
    PROVE  MemoriesOf(r) \in Seq(MemoryTypes) /\ Len(MemoriesOf(r)) >= 1
<1> DEFINE c == run[r].calls
           tools == IF c.ok + c.failed > 0 THEN <<"semantic", "performance">> ELSE <<>>
           pitfalls == [i \in 1..c.failed |-> "procedural"]
<1>1. c.failed \in Nat /\ c.ok \in Nat
  BY CallsAssumption DEF FinalizeTypeOK, Calls
<1>2. pitfalls \in Seq(MemoryTypes)
  BY <1>1 DEF MemoryTypes
<1>3. tools \in Seq(MemoryTypes) /\ <<"episodic">> \in Seq(MemoryTypes)
  <2>1. {"episodic", "semantic", "performance"} \subseteq MemoryTypes
    BY DEF MemoryTypes
  <2>2. /\ <<"episodic">> \in Seq(MemoryTypes) /\ <<>> \in Seq(MemoryTypes)
        /\ <<"semantic", "performance">> \in Seq(MemoryTypes)
    BY <2>1
  <2> QED BY <2>2
<1> HIDE DEF pitfalls, tools
<1>4. /\ (<<"episodic">> \o tools) \in Seq(MemoryTypes)
      /\ Len(<<"episodic">> \o tools) = 1 + Len(tools)
  BY <1>3, ConcatProperties
<1>5. /\ ((<<"episodic">> \o tools) \o pitfalls) \in Seq(MemoryTypes)
      /\ Len((<<"episodic">> \o tools) \o pitfalls) = 1 + Len(tools) + Len(pitfalls)
  BY <1>2, <1>4, ConcatProperties
<1>6. Len(tools) \in Nat /\ Len(pitfalls) \in Nat
  BY <1>2, <1>3
<1>7. MemoriesOf(r) = (<<"episodic">> \o tools) \o pitfalls
  BY DEF MemoriesOf, tools, pitfalls
<1> QED BY <1>5, <1>6, <1>7

-----------------------------------------------------------------------------
(* Types.  A subagent is inserted only while a role has none, and a memory   *)
(* only while one of the run's is missing.                                   *)

RolesLeft ==
    \A a \in Analyses :
        /\ request[a].n <= request[a].roles
        /\ request[a].pc = "insert" => request[a].n < request[a].roles

Until == {"artifact", "artifact_event", "plan", "plan_event", "completed_event",
          "completed_status", "completed_update", "memories"}

MadeSoFar ==
    \A r \in Runs : pc[r] \in Until =>
        /\ Len(memories[r]) < Len(MemoriesOf(r))
        /\ \A i \in 1..Len(memories[r]) : memories[r][i] = MemoriesOf(r)[i]

TypeInv == FinalizeTypeOK /\ RolesLeft /\ MadeSoFar

\* What EventLogger.log leaves in the variables it has.
LEMMA LogTyped ==
    ASSUME FinalizeTypeOK, NEW l \in Loggers, TakesNumber(l),
           used' = used \/ used' = used \cup {Number(l)}
    PROVE  /\ used' \subseteq Nat \ {0} /\ IsFiniteSet(used')
           /\ cache' \in [Loggers -> Nat] /\ warm' \subseteq Loggers
<1>1. Number(l) \in Nat \ {0}
  BY NumberTyped
<1>2. IsFiniteSet(used \cup {Number(l)})
  BY FS_AddElement DEF FinalizeTypeOK
<1> QED BY <1>1, <1>2 DEF FinalizeTypeOK, TakesNumber

LEMMA FaultTyped ==
    ASSUME FinalizeTypeOK, FaultUsed
    PROVE  left' \in [faults : 0..MaxFaults, cancels : 0..MaxCancels, crashes : 0..MaxCrashes]
<1>1. MaxFaults \in Nat
  BY BoundsAssumption
<1>2. left.faults \in 0..MaxFaults /\ left.faults - 1 \in 0..MaxFaults
  BY <1>1 DEF FinalizeTypeOK, FaultUsed
<1> QED BY <1>2 DEF FinalizeTypeOK, FaultUsed

\* Where an exception or the next statement takes a run.
LEMMA RunMoves ==
    ASSUME FinalizeTypeOK, NEW r \in Runs, pc[r] \in Statements, Advances(r) \/ Raises(r)
    PROVE  /\ pc' \in [Runs -> DOMAIN After \cup RunEnd]
           /\ \A q \in Runs \ {r} : pc'[q] = pc[q]
           /\ \/ pc'[r] = After[pc[r]]
              \/ pc'[r] = IF pc[r] \in Handler THEN "escaped" ELSE "failed_event"
<1>1. After[pc[r]] \in Statements \cup RunEnd
  BY AfterTyped
<1>2. "escaped" \in RunEnd /\ "failed_event" \in Statements
  BY DEF RunEnd, Statements
<1>3. PICK s \in Statements \cup RunEnd :
        /\ pc' = [pc EXCEPT ![r] = s]
        /\ \/ s = After[pc[r]]
           \/ s = IF pc[r] \in Handler THEN "escaped" ELSE "failed_event"
  <2>1. CASE Advances(r)
    BY <1>1, <2>1 DEF Advances
  <2>2. CASE Raises(r)
    <3>1. pc' = [pc EXCEPT ![r] = IF pc[r] \in Handler THEN "escaped" ELSE "failed_event"]
      BY <2>2 DEF Raises
    <3> QED BY <1>2, <3>1
  <2> QED BY <2>1, <2>2
<1>4. pc \in [Runs -> Statements \cup RunEnd]
  BY Domains DEF FinalizeTypeOK
<1> QED BY <1>3, <1>4, Domains

\* No statement leads back to one before the memories.
LEMMA NoWayBack ==
    \A s \in Statements : After[s] \in Until => s \in Until
  BY AfterTable DEF Statements, Until

LEMMA KeepsMade ==
    ASSUME MadeSoFar, UNCHANGED <<run, memories>>,
           \A r \in Runs : pc'[r] \in Until => pc[r] \in Until
    PROVE  MadeSoFar'
<1>1. \A r \in Runs : MemoriesOf(r)' = MemoriesOf(r)
  BY DEF MemoriesOf
<1> QED BY <1>1 DEF MadeSoFar

\* The next memory is one of the run's.
LEMMA MemoryMade ==
    ASSUME TypeInv, NEW r \in Runs, CreateMemory(r)
    PROVE  /\ memories' \in [Runs -> Seq(MemoryTypes)]
           /\ MadeSoFar'
           /\ Advances(r) => memories'[r] = MemoriesOf(r)
           /\ Advances(r) \/ pc' = pc
<1> DEFINE M == MemoriesOf(r)
           made == Len(memories[r])
<1>1. /\ FinalizeTypeOK /\ pc[r] = "memories" /\ memories[r] \in Seq(MemoryTypes)
      /\ M \in Seq(MemoryTypes) /\ Len(M) \in Nat /\ made \in Nat /\ made < Len(M)
      /\ \A i \in 1..made : memories[r][i] = M[i]
  <2>1. FinalizeTypeOK /\ MadeSoFar /\ pc[r] = "memories" /\ pc[r] \in Until
    BY DEF TypeInv, CreateMemory, Until
  <2>2. memories[r] \in Seq(MemoryTypes) /\ M \in Seq(MemoryTypes)
    BY <2>1, MemoriesOfTyped DEF FinalizeTypeOK
  <2>3. made < Len(M) /\ \A i \in 1..made : memories[r][i] = M[i]
    BY <2>1 DEF MadeSoFar
  <2> HIDE DEF M
  <2> QED BY <2>1, <2>2, <2>3
<1>2. /\ memories' = [memories EXCEPT ![r] = Append(@, M[made + 1])]
      /\ IF made + 1 = Len(M) THEN Advances(r) ELSE pc' = pc
      /\ run' = run
  BY DEF CreateMemory
<1>3. \A q \in Runs : MemoriesOf(q)' = MemoriesOf(q)
  BY <1>2 DEF MemoriesOf
<1> HIDE DEF M
<1>4. M[made + 1] \in MemoryTypes
  BY <1>1
<1>5. /\ memories'[r] = Append(memories[r], M[made + 1])
      /\ memories'[r] \in Seq(MemoryTypes) /\ Len(memories'[r]) = made + 1
      /\ \A i \in 1..made : memories'[r][i] = memories[r][i]
      /\ memories'[r][made + 1] = M[made + 1]
      /\ memories' \in [Runs -> Seq(MemoryTypes)]
      /\ \A q \in Runs \ {r} : memories'[q] = memories[q]
  BY <1>1, <1>2, <1>4 DEF FinalizeTypeOK
<1>6. \A i \in 1..(made + 1) : memories'[r][i] = M[i]
  BY <1>1, <1>5
<1>7. \/ Advances(r) /\ made + 1 = Len(M)
      \/ pc' = pc /\ made + 1 # Len(M)
  BY <1>2
<1>8. Advances(r) => /\ pc'[r] = "memory_event"
                    /\ \A q \in Runs \ {r} : pc'[q] = pc[q]
  BY <1>1, AfterTable DEF Advances, FinalizeTypeOK
<1>9. CASE Advances(r) /\ made + 1 = Len(M)
  <2>1. memories'[r] = M
    BY <1>1, <1>5, <1>6, <1>9, SeqEqual
  <2>2. MadeSoFar'
    BY <1>3, <1>5, <1>8, <1>9 DEF MadeSoFar, TypeInv, Until
  <2> QED BY <1>5, <1>9, <2>1, <2>2 DEF M
<1>10. CASE pc' = pc /\ made + 1 # Len(M)
  <2>1. ~Advances(r)
    BY <1>1, <1>8, <1>10
  <2>2. Len(memories'[r]) < Len(M)
    BY <1>1, <1>5, <1>10
  <2>3. ASSUME NEW q \in Runs, pc'[q] \in Until
        PROVE  /\ Len(memories'[q]) < Len(MemoriesOf(q))
               /\ \A i \in 1..Len(memories'[q]) : memories'[q][i] = MemoriesOf(q)[i]
    <3>1. CASE q = r
      BY <1>5, <1>6, <2>2, <3>1 DEF M
    <3>2. CASE q # r
      BY <1>5, <1>10, <2>3, <3>2 DEF MadeSoFar, TypeInv
    <3> QED BY <3>1, <3>2
  <2>4. MadeSoFar'
    BY <1>3, <2>3 DEF MadeSoFar
  <2> QED BY <1>5, <1>10, <2>1, <2>4
<1> QED BY <1>7, <1>9, <1>10

\* Every statement of a run goes on to the next, raises, or makes one more
\* memory; pc stays a place in the run.
LEMMA RunStep ==
    ASSUME TypeInv, NEW r \in Runs, Run(r) \/ StatementFails(r)
    PROVE  /\ pc[r] \in Statements
           /\ Advances(r) \/ Raises(r) \/ pc' = pc
           /\ pc' \in [Runs -> DOMAIN After \cup RunEnd]
           /\ MadeSoFar'
           /\ UNCHANGED <<run, request, cancel>>
<1>1. FinalizeTypeOK /\ MadeSoFar
  BY DEF TypeInv
<1>2. pc[r] \in Statements
  BY Domains DEF Run, Log, WriteStatus, ClearState, GenerateArtifact, CreateRollbackPlan,
     RecordEval, CreateMemory, NoSkill, ProposeUpdate, ExtractSop, StatementFails, Statements
<1>3. Advances(r) \/ Raises(r) \/ (CreateMemory(r) /\ pc' = pc)
  BY MemoryMade DEF Run, Log, WriteStatus, ClearState, GenerateArtifact, CreateRollbackPlan,
     RecordEval, Inserts, NoSkill, ProposeUpdate, ExtractSop, StatementFails
<1>4. pc' \in [Runs -> DOMAIN After \cup RunEnd]
  BY <1>1, <1>2, <1>3, RunMoves DEF FinalizeTypeOK
<1>5. UNCHANGED <<run, request, cancel>>
  BY DEF Run, Log, WriteStatus, ClearState, GenerateArtifact, CreateRollbackPlan, RecordEval,
         Inserts, CreateMemory, NoSkill, ProposeUpdate, ExtractSop, StatementFails
<1>6. CASE CreateMemory(r)
  BY <1>2, <1>3, <1>4, <1>5, <1>6, MemoryMade
<1>7. CASE ~CreateMemory(r)
  <2>1. memories' = memories
    BY <1>7 DEF Run, Log, WriteStatus, ClearState, GenerateArtifact, CreateRollbackPlan,
       RecordEval, Inserts, NoSkill, ProposeUpdate, ExtractSop, StatementFails, rowVars
  <2>2. \A q \in Runs : pc'[q] \in Until => pc[q] \in Until
    <3>1. "escaped" \notin Until /\ "failed_event" \notin Until
      BY DEF Until
    <3> QED BY <1>1, <1>2, <1>3, <1>7, <3>1, RunMoves, NoWayBack
  <2>3. MadeSoFar'
    BY <1>1, <1>5, <2>1, <2>2, KeepsMade
  <2> QED BY <1>2, <1>3, <1>4, <1>5, <2>3
<1> QED BY <1>6, <1>7

LEMMA RunTyped ==
    ASSUME TypeInv, NEW r \in Runs, Run(r) \/ StatementFails(r)
    PROVE  TypeInv'
<1>1. FinalizeTypeOK
  BY DEF TypeInv
<1>2. /\ MadeSoFar' /\ UNCHANGED <<run, request, cancel>>
      /\ pc' \in [Runs -> DOMAIN After \cup RunEnd]
      /\ RolesLeft'
  BY RunStep DEF TypeInv, RolesLeft
<1>3. CASE Log(r)
  <2>1. TakesNumber("executor") /\ (used' = used \/ used' = used \cup {Number("executor")})
    BY <1>3 DEF Log, Logs, Refused, LogFails
  <2>2. /\ used' \subseteq Nat \ {0} /\ IsFiniteSet(used')
        /\ cache' \in [Loggers -> Nat] /\ warm' \subseteq Loggers
    BY <1>1, <2>1, LogTyped DEF Loggers
  <2>3. left' \in [faults : 0..MaxFaults, cancels : 0..MaxCancels, crashes : 0..MaxCrashes]
    BY <1>1, <1>3, FaultTyped DEF Log, LogFails, FinalizeTypeOK
  <2>4. UNCHANGED rowVars
    BY <1>3 DEF Log
  <2> QED BY <1>1, <1>2, <2>2, <2>3, <2>4 DEF TypeInv, FinalizeTypeOK, rowVars
<1>4. CASE GenerateArtifact(r) \/ CreateRollbackPlan(r) \/ RecordEval(r)
  <2>1. PICK table \in {"artifacts", "rollback_plans", "eval_runs"} : Inserts(r, table)
    BY <1>4 DEF GenerateArtifact, CreateRollbackPlan, RecordEval
  <2>2. rows' \subseteq {"artifacts", "rollback_plans", "eval_runs"} \X Runs
    BY <1>1, <2>1 DEF Inserts, FinalizeTypeOK
  <2> QED BY <1>1, <1>2, <2>1, <2>2 DEF TypeInv, FinalizeTypeOK, Inserts, logVars
<1>5. CASE WriteStatus(r)
  <2>1. task' \in [status : Statuses, result : BOOLEAN]
    BY <1>1, <1>5, StatusTyped DEF WriteStatus, FinalizeTypeOK
  <2> QED BY <1>1, <1>2, <1>5, <2>1 DEF TypeInv, FinalizeTypeOK, WriteStatus, logVars
<1>6. CASE CreateMemory(r)
  BY <1>1, <1>2, <1>6, MemoryMade DEF TypeInv, FinalizeTypeOK, CreateMemory, logVars
<1>7. CASE NoSkill(r) \/ ProposeUpdate(r) \/ ExtractSop(r) \/ ClearState(r)
  <2>1. UNCHANGED <<rowVars, logVars, left>>
    BY <1>7 DEF NoSkill, ProposeUpdate, ExtractSop, ClearState
  <2> QED BY <1>1, <1>2, <2>1 DEF TypeInv, FinalizeTypeOK, rowVars, logVars
<1>8. CASE StatementFails(r)
  <2>1. left' \in [faults : 0..MaxFaults, cancels : 0..MaxCancels, crashes : 0..MaxCrashes]
    BY <1>1, <1>8, FaultTyped DEF StatementFails
  <2> QED BY <1>1, <1>2, <1>8, <2>1
          DEF TypeInv, FinalizeTypeOK, StatementFails, rowVars, logVars
<1> QED BY <1>3, <1>4, <1>5, <1>6, <1>7, <1>8 DEF Run

RequestStates == [pc : RequestPC, roles : 0..MaxRoles, n : 0..MaxRoles]

LEMMA RequestMoves ==
    ASSUME TypeInv, NEW a \in Analyses, NEW x \in RequestStates,
           request' = [request EXCEPT ![a] = x],
           x.n <= x.roles, x.pc = "insert" => x.n < x.roles
    PROVE  request' \in [Analyses -> RequestStates] /\ RolesLeft'
  BY DEF TypeInv, FinalizeTypeOK, RequestStates, RolesLeft

LEMMA GoesTyped ==
    ASSUME TypeInv, NEW a \in Analyses, NEW where \in RequestPC, Goes(a, where),
           where = "insert" => request[a].n < request[a].roles
    PROVE  request' \in [Analyses -> RequestStates] /\ RolesLeft'
<1>1. request[a] \in RequestStates /\ request[a].n <= request[a].roles
  BY DEF TypeInv, FinalizeTypeOK, RequestStates, RolesLeft
<1>2. PICK x : x = [request[a] EXCEPT !.pc = where]
  OBVIOUS
<1>3. /\ x \in RequestStates /\ x.n <= x.roles
      /\ x.pc = "insert" => x.n < x.roles
  BY <1>1, <1>2 DEF RequestStates
<1>4. request' = [request EXCEPT ![a] = x]
  BY <1>2 DEF Goes
<1> QED BY <1>3, <1>4, RequestMoves

LEMMA AnalysisTyped ==
    ASSUME TypeInv, NEW a \in Analyses, Analysis(a) \/ AnalysisFails(a)
    PROVE  TypeInv'
<1> DEFINE q == request[a]
<1>1. /\ FinalizeTypeOK /\ q \in RequestStates /\ q.n <= q.roles
      /\ q.pc = "insert" => q.n < q.roles
      /\ MaxRoles \in Nat
  BY BoundsAssumption DEF TypeInv, FinalizeTypeOK, RolesLeft, RequestStates
<1>2. UNCHANGED <<runVars, cancel, memories>>
  BY DEF Analysis, NextRole, CreateSubagent, AnnounceSubagent, ExecuteSubagent, AnalysisFails,
         rowVars
<1>0. MadeSoFar'
  BY <1>2, KeepsMade DEF TypeInv, runVars
<1>3. CASE NextRole(a) \/ ExecuteSubagent(a)
  <2>1. UNCHANGED <<rowVars, logVars, left>>
    BY <1>3 DEF NextRole, ExecuteSubagent
  <2>2. PICK where \in RequestPC : /\ Goes(a, where)
                                   /\ where = "insert" => q.n < q.roles
    BY <1>3 DEF NextRole, ExecuteSubagent, RequestPC, RequestEnd
  <2>3. request' \in [Analyses -> RequestStates] /\ RolesLeft'
    BY <2>2, GoesTyped
  <2> QED BY <1>0, <1>1, <1>2, <2>1, <2>3
          DEF TypeInv, RequestStates, FinalizeTypeOK, rowVars, logVars, runVars
<1>4. CASE CreateSubagent(a)
  <2>1. q.n + 1 \in 1..MaxRoles /\ q.n + 1 <= q.roles
    <3>1. q.n \in 0..MaxRoles /\ q.roles \in 0..MaxRoles /\ q.n < q.roles
      BY <1>1, <1>4 DEF CreateSubagent, RequestStates
    <3> QED BY <1>1, <3>1
  <2>2. PICK x : x = [q EXCEPT !.pc = "event", !.n = q.n + 1]
    OBVIOUS
  <2>3. x \in RequestStates /\ x.n <= x.roles /\ x.pc # "insert"
    <3>1. x.pc = "event" /\ x.n = q.n + 1 /\ x.roles = q.roles
      BY <1>1, <2>2 DEF RequestStates
    <3>2. "event" \in RequestPC /\ q.n + 1 \in 0..MaxRoles
      BY <1>1, <2>1 DEF RequestPC
    <3>3. x \in RequestStates
      BY <1>1, <2>2, <3>2 DEF RequestStates
    <3> QED BY <2>1, <3>1, <3>3
  <2>5. request' \in [Analyses -> RequestStates] /\ RolesLeft'
    <3>1. request' = [request EXCEPT ![a] = x]
      BY <1>4, <2>2 DEF CreateSubagent
    <3> QED BY <2>3, <3>1, RequestMoves
  <2>4. subagents' \subseteq Analyses \X (1..MaxRoles)
    BY <1>1, <1>4, <2>1 DEF CreateSubagent, FinalizeTypeOK
  <2> QED BY <1>0, <1>1, <1>2, <1>4, <2>4, <2>5
          DEF TypeInv, FinalizeTypeOK, RequestStates, CreateSubagent, logVars, runVars
<1>5. CASE AnnounceSubagent(a)
  <2>1. TakesNumber("subagents") /\ (used' = used \/ used' = used \cup {Number("subagents")})
    BY <1>5 DEF AnnounceSubagent, Logs, Refused, LogFails
  <2>2. /\ used' \subseteq Nat \ {0} /\ IsFiniteSet(used')
        /\ cache' \in [Loggers -> Nat] /\ warm' \subseteq Loggers
    BY <1>1, <2>1, LogTyped DEF Loggers
  <2>3. left' \in [faults : 0..MaxFaults, cancels : 0..MaxCancels, crashes : 0..MaxCrashes]
    BY <1>1, <1>5, FaultTyped DEF AnnounceSubagent, LogFails, FinalizeTypeOK
  <2>4. PICK where \in {"begin", "raised"} : Goes(a, where)
    BY <1>5 DEF AnnounceSubagent
  <2>5. request' \in [Analyses -> RequestStates] /\ RolesLeft'
    BY <2>4, GoesTyped DEF RequestPC, RequestEnd
  <2>6. UNCHANGED rowVars
    BY <1>5 DEF AnnounceSubagent
  <2> QED BY <1>0, <1>1, <1>2, <2>2, <2>3, <2>5, <2>6
          DEF TypeInv, FinalizeTypeOK, RequestStates, rowVars, runVars
<1>6. CASE AnalysisFails(a)
  <2>1. left' \in [faults : 0..MaxFaults, cancels : 0..MaxCancels, crashes : 0..MaxCrashes]
    BY <1>1, <1>6, FaultTyped DEF AnalysisFails
  <2>2. request' \in [Analyses -> RequestStates] /\ RolesLeft'
    BY <1>6, GoesTyped DEF AnalysisFails, RequestPC, RequestEnd
  <2> QED BY <1>0, <1>1, <1>2, <1>6, <2>1, <2>2
          DEF TypeInv, FinalizeTypeOK, RequestStates, AnalysisFails, rowVars, logVars, runVars
<1> QED BY <1>3, <1>4, <1>5, <1>6 DEF Analysis

LEMMA CancelTyped ==
    ASSUME TypeInv, CancelRequest \/ CancelWrites \/ CancelLogs \/ Crash
    PROVE  TypeInv'
<1>1. /\ FinalizeTypeOK
      /\ MaxCancels \in Nat /\ MaxCrashes \in Nat
  BY BoundsAssumption DEF TypeInv
<1>0. MadeSoFar'
  <2>1. UNCHANGED <<run, memories>>
    BY DEF CancelRequest, CancelWrites, CancelLogs, Crash, rowVars, runVars
  <2>2. \A r \in Runs : pc'[r] \in Until => pc[r] \in Until
    BY <1>1 DEF CancelRequest, CancelWrites, CancelLogs, Crash, runVars, FinalizeTypeOK, Until
  <2> QED BY <2>1, <2>2, KeepsMade DEF TypeInv
<1>2. CASE CancelRequest
  <2>1. pc' \in [Runs -> DOMAIN After \cup RunEnd]
    BY <1>1, <1>2 DEF CancelRequest, FinalizeTypeOK, RunEnd
  <2>2. left' \in [faults : 0..MaxFaults, cancels : 0..MaxCancels, crashes : 0..MaxCrashes]
    <3>1. left.cancels - 1 \in 0..MaxCancels
      BY <1>1, <1>2 DEF CancelRequest, FinalizeTypeOK
    <3> QED BY <1>1, <1>2, <3>1 DEF CancelRequest, FinalizeTypeOK
  <2> QED BY <1>0, <1>1, <1>2, <2>1, <2>2
          DEF CancelRequest, TypeInv, FinalizeTypeOK, RolesLeft, rowVars, logVars
<1>3. CASE CancelWrites
  BY <1>0, <1>1, <1>3 DEF CancelWrites, TypeInv, FinalizeTypeOK, RolesLeft, logVars, runVars, Statuses
<1>4. CASE CancelLogs
  <2>1. TakesNumber("executor") /\ (used' = used \/ used' = used \cup {Number("executor")})
    BY <1>4 DEF CancelLogs, Logs, Refused, LogFails
  <2>2. /\ used' \subseteq Nat \ {0} /\ IsFiniteSet(used')
        /\ cache' \in [Loggers -> Nat] /\ warm' \subseteq Loggers
    BY <1>1, <2>1, LogTyped DEF Loggers
  <2>3. left' \in [faults : 0..MaxFaults, cancels : 0..MaxCancels, crashes : 0..MaxCrashes]
    BY <1>1, <1>4, FaultTyped DEF CancelLogs, LogFails, FinalizeTypeOK
  <2> QED BY <1>0, <1>1, <1>4, <2>2, <2>3
          DEF CancelLogs, TypeInv, FinalizeTypeOK, RolesLeft, rowVars, runVars
<1>5. CASE Crash
  <2>1. pc' \in [Runs -> DOMAIN After \cup RunEnd]
    BY <1>1, <1>5 DEF Crash, FinalizeTypeOK, RunEnd
  <2>2. left' \in [faults : 0..MaxFaults, cancels : 0..MaxCancels, crashes : 0..MaxCrashes]
    <3>1. left.crashes - 1 \in 0..MaxCrashes
      BY <1>1, <1>5 DEF Crash, FinalizeTypeOK
    <3> QED BY <1>1, <1>5, <3>1 DEF Crash, FinalizeTypeOK
  <2>3. ASSUME NEW a \in Analyses
        PROVE  /\ request'[a] \in RequestStates
               /\ request'[a].n <= request'[a].roles
               /\ request'[a].pc = "insert" => request'[a].n < request'[a].roles
    <3>1. /\ request[a] \in RequestStates /\ request[a].n <= request[a].roles
          /\ request[a].pc = "insert" => request[a].n < request[a].roles
      BY <1>1 DEF TypeInv, RolesLeft, FinalizeTypeOK, RequestStates
    <3>2. CASE request'[a] = request[a]
      BY <3>1, <3>2
    <3>3. CASE request'[a] = [request[a] EXCEPT !.pc = "lost"]
      BY <3>1, <3>3 DEF RequestStates, RequestPC, RequestEnd
    <3> QED BY <1>5, <3>2, <3>3 DEF Crash
  <2>4. request' \in [Analyses -> RequestStates]
    <3>1. request' = [a \in Analyses |-> request'[a]]
      BY <1>5 DEF Crash
    <3> QED BY <2>3, <3>1
  <2>5. RolesLeft'
    BY <2>3 DEF RolesLeft
  <2> QED BY <1>0, <1>1, <1>5, <2>1, <2>2, <2>4, <2>5
          DEF Crash, TypeInv, FinalizeTypeOK, RequestStates, rowVars, logVars
<1> QED BY <1>2, <1>3, <1>4, <1>5

-----------------------------------------------------------------------------

LEMMA InitTyped == FinalizeInit => TypeInv
<1> SUFFICES ASSUME FinalizeInit PROVE TypeInv
  OBVIOUS
<1>1. FinalizeTypeOK
  <2>1. /\ MaxFaults \in Nat /\ MaxCancels \in Nat /\ MaxCrashes \in Nat /\ MaxRoles \in Nat
    BY BoundsAssumption
  <2>2. "artifact" \in DOMAIN After /\ "executor" \in Loggers /\ "running" \in Statuses
    BY Domains DEF Statements, Loggers, Statuses
  <2>3. IsFiniteSet(used)
    BY FS_EmptySet DEF FinalizeInit
  <2>4. request \in [Analyses -> [pc : RequestPC, roles : 0..MaxRoles, n : 0..MaxRoles]]
    BY <2>1 DEF FinalizeInit, RequestPC
  <2> QED BY <2>1, <2>2, <2>3, <2>4 DEF FinalizeInit, FinalizeTypeOK
<1>2. RolesLeft
  <2>1. MaxRoles \in Nat
    BY BoundsAssumption
  <2> QED BY <2>1 DEF FinalizeInit, RolesLeft
<1>3. MadeSoFar
  <2>1. ASSUME NEW r \in Runs
        PROVE  memories[r] = <<>> /\ Len(MemoriesOf(r)) >= 1 /\ Len(MemoriesOf(r)) \in Nat
    BY <1>1, MemoriesOfTyped DEF FinalizeInit
  <2> QED BY <2>1 DEF MadeSoFar
<1> QED BY <1>1, <1>2, <1>3 DEF TypeInv

LEMMA NextTyped == TypeInv /\ [FinalizeNext]_finalizeVars => TypeInv'
<1> SUFFICES ASSUME TypeInv, [FinalizeNext]_finalizeVars PROVE TypeInv'
  OBVIOUS
<1>1. CASE UNCHANGED finalizeVars
  <2>1. MadeSoFar'
    BY <1>1, KeepsMade DEF finalizeVars, rowVars, runVars, TypeInv
  <2> QED BY <1>1, <2>1
          DEF TypeInv, FinalizeTypeOK, RolesLeft, finalizeVars, rowVars, logVars, runVars
<1>2. ASSUME NEW r \in Runs, Run(r) \/ StatementFails(r) PROVE TypeInv'
  BY <1>2, RunTyped
<1>3. ASSUME NEW a \in Analyses, Analysis(a) \/ AnalysisFails(a) PROVE TypeInv'
  BY <1>3, AnalysisTyped
<1>4. CASE CancelRequest \/ CancelWrites \/ CancelLogs \/ Crash
  BY <1>4, CancelTyped
<1> QED BY <1>1, <1>2, <1>3, <1>4 DEF FinalizeNext

LEMMA AlwaysTyped == FinalizeSpec => []TypeInv
  BY InitTyped, NextTyped, PTL DEF FinalizeSpec

\* The variables keep their types: in particular no analysis makes more
\* subagents than it has roles (run_multi_perspective_analysis).
THEOREM FinalizeTypeCorrect == FinalizeSpec => []FinalizeTypeOK
  BY AlwaysTyped, PTL DEF TypeInv

-----------------------------------------------------------------------------
(* What a run has written when it gets to a statement, and what the events    *)
(* it has logged tell.                                                       *)

AfterEval     == {"eval_event", "task_event", "clear", "completed"}
AfterSkill    == {"eval"} \cup AfterEval
AfterMemories == {"memory_event", "skill"} \cup AfterSkill
AfterPlan     == {"plan_event", "completed_event", "completed_status", "completed_update",
                  "memories"} \cup AfterMemories
AfterArtifact == {"artifact_event", "plan"} \cup AfterPlan

Written(r) ==
    /\ pc[r] \in AfterArtifact => <<"artifacts", r>> \in rows
    /\ pc[r] \in AfterPlan => <<"rollback_plans", r>> \in rows
    /\ pc[r] \in AfterMemories => memories[r] = MemoriesOf(r)
    /\ pc[r] \in AfterSkill => run[r].skill = "none"
    /\ pc[r] \in AfterEval => <<"eval_runs", r>> \in rows

\* No event tells of memories that are still being made.
Unsaid(r) ==
    pc[r] \in Until => /\ <<"memory.updated", r>> \notin announced
                      /\ <<"task.completed", r>> \notin announced

Told(r) ==
    /\ <<"artifact.created", r>> \in announced => <<"artifacts", r>> \in rows
    /\ <<"rollback_plan.created", r>> \in announced => <<"rollback_plans", r>> \in rows
    /\ <<"memory.updated", r>> \in announced => memories[r] = MemoriesOf(r)
    /\ <<"eval.completed", r>> \in announced => <<"eval_runs", r>> \in rows
    /\ <<"task.completed", r>> \in announced =>
         /\ <<"artifacts", r>> \in rows /\ <<"rollback_plans", r>> \in rows
         /\ <<"eval_runs", r>> \in rows
         /\ memories[r] = MemoriesOf(r) /\ run[r].skill = "none"

RunRows == \A r \in Runs : Written(r) /\ Unsaid(r) /\ Told(r)

SubagentRows ==
    /\ \A a \in Analyses : request[a].pc = "event" => <<a, request[a].n>> \in subagents
    /\ \A a \in Analyses, n \in 1..MaxRoles :
         <<"subagent.created", <<a, n>>>> \in announced => <<a, n>> \in subagents

RowsInv == RunRows /\ SubagentRows

LEMMA RowsInvTells == RowsInv => EventsTellOfRows
<1> SUFFICES ASSUME RowsInv PROVE EventsTellOfRows
  OBVIOUS
<1>1. ASSUME NEW r \in Runs, <<"task.completed", r>> \in announced
      PROVE  {"artifacts", "rollback_plans", "eval_runs"} \X {r} \subseteq rows
  <2>1. <<"artifacts", r>> \in rows /\ <<"rollback_plans", r>> \in rows /\ <<"eval_runs", r>> \in rows
    BY <1>1 DEF RowsInv, RunRows, Told
  <2> QED BY <2>1
<1> QED BY <1>1 DEF RowsInv, RunRows, Told, SubagentRows, EventsTellOfRows

\* A run keeps what is true of it while others add rows and events.
LEMMA OthersKeep ==
    ASSUME NEW q \in Runs, Written(q), Unsaid(q), Told(q), run' = run,
           pc'[q] = pc[q] \/ pc'[q] \in RunEnd \ {"completed"},
           memories'[q] = memories[q], rows \subseteq rows',
           \A e \in announced' \ announced : e[2] # q
    PROVE  Written(q)' /\ Unsaid(q)' /\ Told(q)'
<1>1. MemoriesOf(q)' = MemoriesOf(q)
  BY DEF MemoriesOf
<1>2. ASSUME NEW t PROVE <<t, q>> \in announced' => <<t, q>> \in announced
  OBVIOUS
<1>3. CASE pc'[q] = pc[q]
  BY <1>1, <1>2, <1>3 DEF Written, Unsaid, Told
<1>4. CASE pc'[q] \in RunEnd \ {"completed"}
  <2>1. pc'[q] \notin AfterArtifact \cup Until
    BY <1>4 DEF RunEnd, AfterArtifact, AfterPlan, AfterMemories, AfterSkill, AfterEval, Until
  <2> QED BY <1>1, <1>2, <2>1 DEF Written, Unsaid, Told,
             AfterArtifact, AfterPlan, AfterMemories, AfterSkill
<1> QED BY <1>3, <1>4

\* A statement of r that logs nothing.
LEMMA SilentKeeps ==
    ASSUME TypeInv, RunRows, NEW r \in Runs, Run(r) \/ StatementFails(r), ~Log(r)
    PROVE  RunRows'
<1>1. /\ FinalizeTypeOK /\ Written(r) /\ Unsaid(r) /\ Told(r)
      /\ pc[r] \in Statements /\ run' = run
      /\ pc' \in [Runs -> DOMAIN After \cup RunEnd]
  BY RunStep DEF TypeInv, RunRows
<1>2. /\ announced' = announced /\ rows \subseteq rows'
      /\ \A q \in Runs \ {r} : memories'[q] = memories[q] /\ pc'[q] = pc[q]
  <2>1. announced' = announced /\ rows \subseteq rows'
    BY DEF Run, WriteStatus, ClearState, GenerateArtifact, CreateRollbackPlan, RecordEval,
       Inserts, CreateMemory, NoSkill, ProposeUpdate, ExtractSop, StatementFails, logVars, rowVars
  <2>2. \A q \in Runs \ {r} : memories'[q] = memories[q]
    BY <1>1 DEF Run, WriteStatus, ClearState, GenerateArtifact, CreateRollbackPlan, RecordEval,
       Inserts, CreateMemory, NoSkill, ProposeUpdate, ExtractSop, StatementFails, rowVars,
       FinalizeTypeOK
  <2>3. Advances(r) \/ Raises(r) \/ pc' = pc
    BY RunStep
  <2> QED BY <1>1, <2>1, <2>2, <2>3, RunMoves
<1>3. \A q \in Runs \ {r} : Written(q)' /\ Unsaid(q)' /\ Told(q)'
  BY <1>1, <1>2, OthersKeep DEF RunRows
<1>4. MemoriesOf(r)' = MemoriesOf(r)
  BY <1>1 DEF MemoriesOf
<1>5. CASE CreateMemory(r)
  <2>1. /\ pc[r] = "memories"
        /\ Advances(r) \/ pc' = pc
        /\ Advances(r) => memories'[r] = MemoriesOf(r)
    BY <1>5, MemoryMade DEF CreateMemory
  <2>2. rows' = rows
    BY <1>5 DEF CreateMemory
  <2>3. Advances(r) => pc'[r] = "memory_event"
    BY <1>1, <2>1, AfterTable DEF Advances, FinalizeTypeOK
  <2>4. <<"memory.updated", r>> \notin announced' /\ <<"task.completed", r>> \notin announced'
    BY <1>1, <1>2, <2>1 DEF Unsaid, Until
  <2>5. <<"artifacts", r>> \in rows /\ <<"rollback_plans", r>> \in rows
    BY <1>1, <2>1 DEF Written, AfterArtifact, AfterPlan
  <2>6. Told(r)'
    BY <1>1, <1>2, <2>2, <2>4 DEF Told
  <2>7. {"memories", "memory_event"} \cap AfterSkill = {} /\ "memories" \notin AfterMemories
    BY DEF AfterMemories, AfterSkill, AfterEval
  <2>8. pc'[r] \notin AfterSkill /\ pc'[r] \notin AfterEval
    BY <2>1, <2>3, <2>7 DEF AfterSkill
  <2>9. pc'[r] \in AfterMemories => memories'[r] = MemoriesOf(r)
    BY <2>1, <2>7
  <2>10. Written(r)'
    BY <1>4, <2>2, <2>5, <2>8, <2>9 DEF Written
  <2>11. Unsaid(r)'
    BY <2>4 DEF Unsaid
  <2> QED BY <1>3, <2>6, <2>10, <2>11 DEF RunRows
<1>6. CASE ~CreateMemory(r)
  <2>1. memories' = memories
    BY <1>6 DEF Run, WriteStatus, ClearState, GenerateArtifact, CreateRollbackPlan, RecordEval,
       Inserts, NoSkill, ProposeUpdate, ExtractSop, StatementFails, rowVars
  <2>2. Told(r)'
    BY <1>1, <1>2, <1>4, <2>1 DEF Told
  <2>3. CASE Raises(r)
    <3>1. pc'[r] \in {"escaped", "failed_event"}
      BY <1>1, <2>3 DEF Raises, FinalizeTypeOK
    <3>2. pc'[r] \notin AfterArtifact \cup Until
      BY <3>1 DEF AfterArtifact, AfterPlan, AfterMemories, AfterSkill, AfterEval, Until
    <3>3. Written(r)' /\ Unsaid(r)'
      BY <3>2 DEF Written, Unsaid, AfterArtifact, AfterPlan, AfterMemories, AfterSkill
    <3> QED BY <1>3, <2>2, <3>3 DEF RunRows
  <2>4. CASE Advances(r)
    <3>1. /\ pc'[r] = After[pc[r]]
          /\ pc[r] = "artifact" => <<"artifacts", r>> \in rows'
          /\ pc[r] = "plan" => <<"rollback_plans", r>> \in rows'
          /\ pc[r] = "eval" => <<"eval_runs", r>> \in rows'
          /\ pc[r] = "skill" => run[r].skill = "none"
          /\ pc[r] \notin {"memories", "artifact_event", "plan_event", "completed_event",
                          "memory_event", "eval_event", "task_event", "failed_event",
                          "failure_event"}
      <4>1. pc'[r] = After[pc[r]]
        BY <1>1, <2>4 DEF Advances, FinalizeTypeOK
      <4>2. CASE StatementFails(r)
        <5>1. Raises(r) /\ pc[r] \notin DOMAIN EventOf
          BY <4>2 DEF StatementFails
        <5>2. pc'[r] \in {"escaped", "failed_event"}
          BY <1>1, <5>1 DEF Raises, FinalizeTypeOK
        <5> QED BY <1>1, <4>1, <5>2, AfterTable DEF Statements
      <4>3. CASE Run(r)
        <5>1. CASE ProposeUpdate(r) \/ ExtractSop(r)
          <6>1. pc[r] = "skill" /\ Raises(r)
            BY <5>1 DEF ProposeUpdate, ExtractSop
          <6>2. pc'[r] \in {"escaped", "failed_event"}
            BY <1>1, <6>1 DEF Raises, FinalizeTypeOK
          <6> QED BY <4>1, <6>1, <6>2, AfterTable
        <5>2. CASE GenerateArtifact(r) \/ CreateRollbackPlan(r) \/ RecordEval(r)
          BY <4>1, <5>2 DEF GenerateArtifact, CreateRollbackPlan, RecordEval, Inserts
        <5>3. CASE WriteStatus(r)
          BY <4>1, <5>3, Domains DEF WriteStatus
        <5>4. CASE NoSkill(r) \/ ClearState(r)
          BY <4>1, <5>4 DEF NoSkill, ClearState
        <5> QED BY <1>6, <4>3, <5>1, <5>2, <5>3, <5>4 DEF Run
      <4> QED BY <4>2, <4>3
    <3>2. Written(r)'
      BY <1>1, <1>2, <1>4, <2>1, <3>1, AfterTable
         DEF Written, Statements, AfterArtifact, AfterPlan, AfterMemories, AfterSkill, AfterEval
    <3>3. Unsaid(r)'
      BY <1>1, <1>2, <3>1, NoWayBack DEF Unsaid
    <3> QED BY <1>3, <2>2, <3>2, <3>3 DEF RunRows
  <2>5. CASE pc' = pc
    BY <1>1, <1>2, <1>3, <1>4, <2>1, <2>2, <2>5 DEF RunRows, Written, Unsaid
  <2> QED BY <2>3, <2>4, <2>5, RunStep
<1> QED BY <1>5, <1>6

\* The event of r is added once what it tells of is there.
LEMMA LogKeeps ==
    ASSUME TypeInv, RunRows, NEW r \in Runs, Log(r)
    PROVE  RunRows'
<1>1. /\ FinalizeTypeOK /\ Written(r) /\ Unsaid(r) /\ Told(r)
      /\ pc[r] \in DOMAIN EventOf /\ UNCHANGED <<run, rowVars>>
      /\ pc[r] \in Statements
  BY RunStep DEF TypeInv, RunRows, Log, Run
<1>2. \A q \in Runs : MemoriesOf(q)' = MemoriesOf(q)
  BY <1>1 DEF MemoriesOf
<1>3. /\ Advances(r) \/ Raises(r)
      /\ \A q \in Runs \ {r} : pc'[q] = pc[q]
      /\ \/ announced' = announced
         \/ announced' = announced \cup {<<EventOf[pc[r]], r>>} /\ Advances(r)
  <2>1. Advances(r) \/ Raises(r)
    BY DEF Log
  <2>2. \/ announced' = announced
        \/ announced' = announced \cup {<<EventOf[pc[r]], r>>} /\ Advances(r)
    BY DEF Log, Logs, Refused, LogFails
  <2> QED BY <1>1, <2>1, <2>2, RunMoves
<1>4. \A q \in Runs \ {r} : Written(q)' /\ Unsaid(q)' /\ Told(q)'
  BY <1>1, <1>3, OthersKeep DEF RunRows, rowVars
<1>5. CASE Raises(r) /\ announced' = announced
  <2>1. pc'[r] \in {"escaped", "failed_event"}
    BY <1>1, <1>5 DEF Raises, FinalizeTypeOK
  <2>2. pc'[r] \notin AfterArtifact \cup Until
    BY <2>1 DEF AfterArtifact, AfterPlan, AfterMemories, AfterSkill, AfterEval, Until
  <2>3. Written(r)' /\ Unsaid(r)' /\ Told(r)'
    BY <1>1, <1>2, <1>5, <2>2
       DEF Written, Unsaid, Told, rowVars, AfterArtifact, AfterPlan, AfterMemories, AfterSkill
  <2> QED BY <1>4, <2>3 DEF RunRows
<1>6. CASE Advances(r)
  <2>1. pc'[r] = After[pc[r]]
    BY <1>1, <1>6 DEF Advances, FinalizeTypeOK
  <2>2. Written(r)'
    BY <1>1, <1>2, <2>1, AfterTable, Domains
       DEF Written, rowVars, AfterArtifact, AfterPlan, AfterMemories, AfterSkill, AfterEval
  <2>3. Unsaid(r)'
    <3>1. SUFFICES ASSUME pc'[r] \in Until
                   PROVE  /\ <<"memory.updated", r>> \notin announced'
                          /\ <<"task.completed", r>> \notin announced'
      BY DEF Unsaid
    <3>2. pc[r] \in Until
      BY <1>1, <2>1, <3>1, NoWayBack
    <3>3. EventOf[pc[r]] \notin {"memory.updated", "task.completed"}
      BY <1>1, <3>2, EventTable, Domains DEF Until
    <3> QED BY <1>1, <1>3, <3>2, <3>3 DEF Unsaid
  <2>4. Told(r)'
    <3>1. CASE announced' = announced
      BY <1>1, <1>2, <3>1 DEF Told, rowVars
    <3>2. CASE announced' = announced \cup {<<EventOf[pc[r]], r>>}
      <4>1. \A t : <<t, r>> \in announced' <=> <<t, r>> \in announced \/ t = EventOf[pc[r]]
        BY <3>2
      <4>2. /\ EventOf[pc[r]] = "artifact.created" => <<"artifacts", r>> \in rows
            /\ EventOf[pc[r]] = "rollback_plan.created" => <<"rollback_plans", r>> \in rows
            /\ EventOf[pc[r]] = "memory.updated" => memories[r] = MemoriesOf(r)
            /\ EventOf[pc[r]] = "eval.completed" => <<"eval_runs", r>> \in rows
            /\ EventOf[pc[r]] = "task.completed" =>
                 /\ <<"artifacts", r>> \in rows /\ <<"rollback_plans", r>> \in rows
                 /\ <<"eval_runs", r>> \in rows
                 /\ memories[r] = MemoriesOf(r) /\ run[r].skill = "none"
        BY <1>1, EventTable, Domains
           DEF Written, AfterArtifact, AfterPlan, AfterMemories, AfterSkill, AfterEval
      <4> QED BY <1>1, <1>2, <4>1, <4>2 DEF Told, rowVars
    <3> QED BY <1>3, <3>1, <3>2
  <2> QED BY <1>4, <2>2, <2>3, <2>4 DEF RunRows
<1> QED BY <1>3, <1>5, <1>6

\* Subagents, cancellation and crash add rows and events of their own.
LEMMA ElsewhereKeeps ==
    ASSUME TypeInv, RunRows,
           \/ \E a \in Analyses : Analysis(a) \/ AnalysisFails(a)
           \/ CancelRequest \/ CancelWrites \/ CancelLogs \/ Crash
    PROVE  RunRows'
<1>1. UNCHANGED <<run, rows, memories>>
  BY DEF Analysis, NextRole, CreateSubagent, AnnounceSubagent, ExecuteSubagent, AnalysisFails,
     CancelRequest, CancelWrites, CancelLogs, Crash, rowVars, runVars
<1>2. \A q \in Runs : pc'[q] = pc[q] \/ pc'[q] \in RunEnd \ {"completed"}
  <2>1. {"cancelled", "lost"} \subseteq RunEnd \ {"completed"}
    BY DEF RunEnd
  <2>2. pc \in [Runs -> DOMAIN After \cup RunEnd]
    BY DEF TypeInv, FinalizeTypeOK
  <2>3. CASE \E a \in Analyses : Analysis(a) \/ AnalysisFails(a)
    BY <2>3 DEF Analysis, NextRole, CreateSubagent, AnnounceSubagent, ExecuteSubagent,
       AnalysisFails, runVars
  <2>4. CASE CancelRequest
    BY <2>1, <2>2, <2>4 DEF CancelRequest
  <2>5. CASE Crash
    BY <2>1, <2>2, <2>5 DEF Crash
  <2>6. CASE CancelWrites \/ CancelLogs
    BY <2>6 DEF CancelWrites, CancelLogs, runVars
  <2> QED BY <2>3, <2>4, <2>5, <2>6
<1>3. \A e \in announced' \ announced :
        e[1] \in {"subagent.created", "task.cancelled"}
  <2>1. ASSUME NEW a \in Analyses, Analysis(a) \/ AnalysisFails(a)
        PROVE  \/ announced' = announced
               \/ announced' = announced \cup {<<"subagent.created", <<a, request[a].n>>>>}
    <3>1. CASE AnnounceSubagent(a)
      BY <3>1 DEF AnnounceSubagent, Logs, Refused, LogFails
    <3>2. CASE ~AnnounceSubagent(a)
      BY <2>1, <3>2 DEF Analysis, NextRole, CreateSubagent, ExecuteSubagent, AnalysisFails, logVars
    <3> QED BY <3>1, <3>2
  <2>2. CASE CancelLogs
    BY <2>2 DEF CancelLogs, Logs, Refused, LogFails
  <2>3. CASE CancelRequest \/ CancelWrites \/ Crash
    BY <2>3 DEF CancelRequest, CancelWrites, Crash, logVars
  <2> QED BY <2>1, <2>2, <2>3
<1>4. ASSUME NEW q \in Runs PROVE Written(q)' /\ Unsaid(q)' /\ Told(q)'
  <2>1. Written(q) /\ Unsaid(q) /\ Told(q) /\ MemoriesOf(q)' = MemoriesOf(q)
    BY <1>1 DEF RunRows, MemoriesOf
  <2>2. ASSUME NEW t \in {"artifact.created", "rollback_plan.created", "memory.updated",
                         "eval.completed", "task.completed"},
               <<t, q>> \in announced'
        PROVE  <<t, q>> \in announced
    BY <1>3, <2>2
  <2>3. CASE pc'[q] = pc[q]
    BY <1>1, <2>1, <2>2, <2>3 DEF Written, Unsaid, Told
  <2>4. CASE pc'[q] \in RunEnd \ {"completed"}
    <3>1. pc'[q] \notin AfterArtifact \cup Until
      BY <2>4 DEF RunEnd, AfterArtifact, AfterPlan, AfterMemories, AfterSkill, AfterEval, Until
    <3> QED BY <1>1, <2>1, <2>2, <3>1 DEF Written, Unsaid, Told,
               AfterArtifact, AfterPlan, AfterMemories, AfterSkill
  <2> QED BY <1>2, <2>3, <2>4
<1> QED BY <1>4 DEF RunRows

\* A subagent is announced once its row is there.
LEMMA SubagentsKeep ==
    ASSUME TypeInv, RowsInv, FinalizeNext
    PROVE  SubagentRows'
<1>1. SubagentRows /\ FinalizeTypeOK
  BY DEF RowsInv, TypeInv
<1>2. CASE \E r \in Runs : Run(r) \/ StatementFails(r)
  <2>1. PICK r \in Runs : Run(r) \/ StatementFails(r)
    BY <1>2
  <2>2. UNCHANGED <<request, subagents>>
    BY <2>1 DEF Run, Log, WriteStatus, ClearState, GenerateArtifact, CreateRollbackPlan,
       RecordEval, Inserts, CreateMemory, NoSkill, ProposeUpdate, ExtractSop, StatementFails,
       rowVars
  <2>3. \A e \in announced' \ announced : e[1] # "subagent.created"
    <3>1. \A s \in DOMAIN EventOf : EventOf[s] # "subagent.created"
      BY EventTable, Domains
    <3>2. CASE Log(r)
      BY <3>1, <3>2 DEF Log, Logs, Refused, LogFails
    <3>3. CASE ~Log(r)
      BY <2>1, <3>3 DEF Run, WriteStatus, ClearState, GenerateArtifact, CreateRollbackPlan,
         RecordEval, Inserts, CreateMemory, NoSkill, ProposeUpdate, ExtractSop, StatementFails,
         logVars
    <3> QED BY <3>2, <3>3
  <2> QED BY <1>1, <2>2, <2>3 DEF SubagentRows
<1>3. CASE \E a \in Analyses : Analysis(a) \/ AnalysisFails(a)
  <2>1. PICK a \in Analyses : Analysis(a) \/ AnalysisFails(a)
    BY <1>3
  <2>2. CASE CreateSubagent(a)
    <3>1. /\ subagents' = subagents \cup {<<a, request[a].n + 1>>}
          /\ announced' = announced
          /\ request'[a].n = request[a].n + 1
          /\ \A b \in Analyses \ {a} : request'[b] = request[b]
      BY <1>1, <2>2 DEF CreateSubagent, FinalizeTypeOK, logVars
    <3> QED BY <1>1, <3>1 DEF SubagentRows
  <2>3. CASE AnnounceSubagent(a)
    <3>1. /\ subagents' = subagents
          /\ announced' \subseteq announced \cup {<<"subagent.created", <<a, request[a].n>>>>}
          /\ request'[a].pc # "event"
          /\ \A b \in Analyses \ {a} : request'[b] = request[b]
          /\ <<a, request[a].n>> \in subagents
      <4>1. request'[a].pc # "event" /\ \A b \in Analyses \ {a} : request'[b] = request[b]
        BY <1>1, <2>3 DEF AnnounceSubagent, Goes, FinalizeTypeOK
      <4>2. announced' \subseteq announced \cup {<<"subagent.created", <<a, request[a].n>>>>}
        BY <2>3 DEF AnnounceSubagent, Logs, Refused, LogFails
      <4> QED BY <1>1, <2>3, <4>1, <4>2 DEF AnnounceSubagent, rowVars, SubagentRows
    <3> QED BY <1>1, <3>1 DEF SubagentRows
  <2>4. CASE NextRole(a) \/ ExecuteSubagent(a) \/ AnalysisFails(a)
    <3>1. /\ UNCHANGED <<subagents, announced>>
          /\ request'[a].pc # "event"
          /\ \A b \in Analyses \ {a} : request'[b] = request[b]
      BY <1>1, <2>4 DEF NextRole, ExecuteSubagent, AnalysisFails, Goes, FinalizeTypeOK,
         rowVars, logVars
    <3> QED BY <1>1, <3>1 DEF SubagentRows
  <2> QED BY <2>1, <2>2, <2>3, <2>4 DEF Analysis
<1>4. CASE CancelRequest \/ CancelWrites
  <2>1. UNCHANGED <<request, subagents, announced>>
    BY <1>4 DEF CancelRequest, CancelWrites, rowVars, logVars
  <2> QED BY <1>1, <2>1 DEF SubagentRows
<1>5. CASE CancelLogs
  <2>1. /\ UNCHANGED <<request, subagents>>
        /\ \A e \in announced' \ announced : e[1] # "subagent.created"
    BY <1>5 DEF CancelLogs, Logs, Refused, LogFails, rowVars
  <2> QED BY <1>1, <2>1 DEF SubagentRows
<1>6. CASE Crash
  <2>1. UNCHANGED <<subagents, announced>>
    BY <1>6 DEF Crash, rowVars
  <2>2. ASSUME NEW a \in Analyses, request'[a].pc = "event"
        PROVE  request'[a] = request[a]
    <3>1. \/ request'[a] = request[a]
          \/ request'[a] = [request[a] EXCEPT !.pc = "lost"]
      BY <1>6 DEF Crash
    <3> QED BY <1>1, <2>2, <3>1 DEF FinalizeTypeOK
  <2> QED BY <1>1, <2>1, <2>2 DEF SubagentRows
<1> QED BY <1>2, <1>3, <1>4, <1>5, <1>6 DEF FinalizeNext

LEMMA NextRows == TypeInv /\ RowsInv /\ [FinalizeNext]_finalizeVars => RowsInv'
<1> SUFFICES ASSUME TypeInv, RowsInv, [FinalizeNext]_finalizeVars PROVE RowsInv'
  OBVIOUS
<1>1. CASE UNCHANGED finalizeVars
  <2>1. \A r \in Runs : MemoriesOf(r)' = MemoriesOf(r)
    BY <1>1 DEF finalizeVars, runVars, MemoriesOf
  <2>2. RunRows'
    BY <1>1, <2>1 DEF RowsInv, RunRows, Written, Unsaid, Told,
                      finalizeVars, rowVars, logVars, runVars
  <2>3. SubagentRows'
    BY <1>1 DEF RowsInv, SubagentRows, finalizeVars, rowVars, logVars
  <2> QED BY <2>2, <2>3 DEF RowsInv
<1>2. CASE FinalizeNext
  <2>1. RunRows'
    <3>1. CASE \E r \in Runs : Run(r) \/ StatementFails(r)
      BY <3>1, SilentKeeps, LogKeeps DEF RowsInv
    <3>2. CASE \/ \E a \in Analyses : Analysis(a) \/ AnalysisFails(a)
               \/ CancelRequest \/ CancelWrites \/ CancelLogs \/ Crash
      BY <3>2, ElsewhereKeeps DEF RowsInv
    <3> QED BY <1>2, <3>1, <3>2 DEF FinalizeNext
  <2> QED BY <1>2, <2>1, SubagentsKeep DEF RowsInv
<1> QED BY <1>1, <1>2

\* Readers of the log find the row an event tells of, through faults, refused
\* numbers, cancellations and crashes (task_executor.py, _finalize_execution).
THEOREM EventsAlwaysTellOfRows == FinalizeSpec => []EventsTellOfRows
<1>1. FinalizeInit => RowsInv
  <2> SUFFICES ASSUME FinalizeInit PROVE RowsInv
    OBVIOUS
  <2>1. "artifact" \notin AfterArtifact
    BY DEF AfterArtifact, AfterPlan, AfterMemories, AfterSkill, AfterEval
  <2>2. \A r \in Runs : Written(r) /\ Unsaid(r) /\ Told(r)
    BY <2>1 DEF FinalizeInit, Written, Unsaid, Told,
                AfterArtifact, AfterPlan, AfterMemories, AfterSkill
  <2>3. SubagentRows
    BY DEF FinalizeInit, SubagentRows
  <2> QED BY <2>2, <2>3 DEF RowsInv, RunRows
<1> QED BY <1>1, NextRows, AlwaysTyped, RowsInvTells, PTL DEF FinalizeSpec

-----------------------------------------------------------------------------
(* Only the newest subagent of an analysis can be without its event. *)

Unannounced(a, n) == /\ <<a, n>> \in subagents
                     /\ <<"subagent.created", <<a, n>>>> \notin announced

NewestOnly ==
    \A a \in Analyses, n \in 1..MaxRoles :
        /\ <<a, n>> \in subagents => n <= request[a].n
        /\ Unannounced(a, n) => /\ n = request[a].n
                               /\ request[a].pc \notin {"begin", "insert", "execute"}

\* A step that makes no subagent and takes back no event.
LEMMA QuietNewest ==
    ASSUME TypeInv, NewestOnly, subagents' = subagents, announced \subseteq announced',
           \A a \in Analyses :
              /\ request'[a].n = request[a].n
              /\ request'[a].pc \in {"begin", "insert", "execute"} =>
                   \/ request[a].pc \in {"begin", "insert", "execute"}
                   \/ <<"subagent.created", <<a, request[a].n>>>> \in announced'
    PROVE  NewestOnly'
  BY DEF NewestOnly, Unannounced

LEMMA NextNewest == TypeInv /\ NewestOnly /\ [FinalizeNext]_finalizeVars => NewestOnly'
<1> SUFFICES ASSUME TypeInv, NewestOnly, [FinalizeNext]_finalizeVars PROVE NewestOnly'
  OBVIOUS
<1>0. FinalizeTypeOK
  BY DEF TypeInv
<1>1. CASE UNCHANGED finalizeVars
  BY <1>1, QuietNewest DEF finalizeVars, rowVars, logVars
<1>2. ASSUME NEW r \in Runs, Run(r) \/ StatementFails(r) PROVE NewestOnly'
  <2>1. UNCHANGED <<request, subagents>> /\ announced \subseteq announced'
    BY <1>2 DEF Run, Log, Logs, Refused, LogFails, WriteStatus, ClearState, GenerateArtifact,
       CreateRollbackPlan, RecordEval, Inserts, CreateMemory, NoSkill, ProposeUpdate, ExtractSop,
       StatementFails, rowVars, logVars
  <2> QED BY <2>1, QuietNewest
<1>3. ASSUME NEW a \in Analyses, CreateSubagent(a) PROVE NewestOnly'
  <2>1. /\ request[a].pc = "insert" /\ request[a].n \in Nat
        /\ subagents' = subagents \cup {<<a, request[a].n + 1>>}
        /\ announced' = announced
        /\ request'[a].n = request[a].n + 1 /\ request'[a].pc = "event"
        /\ \A b \in Analyses \ {a} : request'[b] = request[b]
    BY <1>0, <1>3 DEF CreateSubagent, FinalizeTypeOK, logVars
  <2>2. ASSUME NEW n \in 1..MaxRoles
        PROVE  /\ <<a, n>> \in subagents' => n <= request'[a].n
               /\ <<a, n>> \in subagents' /\ <<"subagent.created", <<a, n>>>> \notin announced'
                    => n = request'[a].n
    BY <2>1, <2>2 DEF NewestOnly, Unannounced
  <2> QED BY <2>1, <2>2 DEF NewestOnly, Unannounced
<1>4. ASSUME NEW a \in Analyses, AnnounceSubagent(a) PROVE NewestOnly'
  <2>1. /\ request'[a].n = request[a].n
        /\ \A b \in Analyses \ {a} : request'[b] = request[b]
        /\ request'[a].pc \in {"begin", "raised"}
    BY <1>0, <1>4 DEF AnnounceSubagent, Goes, FinalizeTypeOK
  <2>2. /\ subagents' = subagents /\ announced \subseteq announced'
        /\ request'[a].pc = "begin" => <<"subagent.created", <<a, request[a].n>>>> \in announced'
    <3>1. CASE Goes(a, "begin") /\ Logs("subagents", "subagent.created", <<a, request[a].n>>)
      BY <1>4, <3>1 DEF AnnounceSubagent, Logs, rowVars
    <3>2. CASE Goes(a, "raised") /\ announced' = announced
      <4>1. request'[a].pc = "raised"
        BY <1>0, <3>2 DEF Goes, FinalizeTypeOK
      <4> QED BY <1>4, <3>2, <4>1 DEF AnnounceSubagent, rowVars
    <3> QED BY <1>4, <3>1, <3>2 DEF AnnounceSubagent, Refused, LogFails
  <2> QED BY <2>1, <2>2, QuietNewest
<1>5. ASSUME NEW a \in Analyses, NextRole(a) \/ ExecuteSubagent(a) \/ AnalysisFails(a)
      PROVE  NewestOnly'
  <2>1. /\ UNCHANGED <<subagents, announced>>
        /\ request[a].pc \in {"begin", "insert", "execute"}
        /\ request'[a].n = request[a].n
        /\ \A b \in Analyses \ {a} : request'[b] = request[b]
    BY <1>0, <1>5 DEF NextRole, ExecuteSubagent, AnalysisFails, Goes, FinalizeTypeOK,
       rowVars, logVars
  <2> QED BY <2>1, QuietNewest
<1>6. CASE CancelRequest \/ CancelWrites \/ CancelLogs
  <2>1. UNCHANGED <<request, subagents>> /\ announced \subseteq announced'
    BY <1>6 DEF CancelRequest, CancelWrites, CancelLogs, Logs, Refused, LogFails, rowVars, logVars
  <2> QED BY <2>1, QuietNewest
<1>7. CASE Crash
  <2>1. UNCHANGED <<subagents, announced>>
    BY <1>7 DEF Crash, rowVars
  <2>2. ASSUME NEW a \in Analyses
        PROVE  /\ request'[a].n = request[a].n
               /\ request'[a].pc = request[a].pc \/ request'[a].pc = "lost"
    <3>1. \/ request'[a] = request[a]
          \/ request'[a] = [request[a] EXCEPT !.pc = "lost"]
      BY <1>7 DEF Crash
    <3> QED BY <1>0, <3>1 DEF FinalizeTypeOK
  <2> QED BY <2>1, <2>2, QuietNewest
<1> QED BY <1>1, <1>2, <1>3, <1>4, <1>5, <1>6, <1>7 DEF FinalizeNext, Analysis

\* subagent_manager.create_subagent: an analysis stops at the first event
\* that is refused, so at most one of its rows has none.
THEOREM AtMostOneUnannounced == FinalizeSpec => []OneUnannounced
<1>1. FinalizeInit => NewestOnly
  BY DEF FinalizeInit, NewestOnly, Unannounced
<1>2. NewestOnly => OneUnannounced
  <2> SUFFICES ASSUME NewestOnly, NEW a \in Analyses
               PROVE  Cardinality({n \in 1..MaxRoles : Unannounced(a, n)}) <= 1
    BY DEF OneUnannounced, Unannounced
  <2> DEFINE S == {n \in 1..MaxRoles : Unannounced(a, n)}
  <2>1. S \subseteq {request[a].n}
    BY DEF NewestOnly
  <2>2. S = {} \/ S = {request[a].n}
    BY <2>1
  <2>3. Cardinality({}) = 0 /\ Cardinality({request[a].n}) = 1
    BY FS_EmptySet, FS_Singleton
  <2> HIDE DEF S
  <2> QED BY <2>2, <2>3 DEF S
<1> QED BY <1>1, <1>2, NextNewest, AlwaysTyped, PTL DEF FinalizeSpec

-----------------------------------------------------------------------------
(* What leaves a task running.  The numbers in use split into those taken by  *)
(* the executor's logger, none above its cache, and those the subagents took, *)
(* no more than their events.  Each exception of a run was paid for: by a     *)
(* fault, or by a number of a subagent that the cache has passed.             *)

Taken == {e \in announced : e[1] = "subagent.created"}

Foreign(O) == {n \in used \ O : n <= cache["executor"]}
Costs(O)   == (MaxFaults - left.faults) + Cardinality(Foreign(O))

\* The places of a run that has written the task completed or failed.
WroteStatus == {"completed_update", "memories", "memory_event", "skill", "eval", "eval_event",
                "task_event", "clear", "completed", "failed_update", "failure_event", "failed"}

PaidFor(O, r) ==
    /\ pc[r] \notin WroteStatus
    /\ pc[r] \in {"failed_event", "failed_status"} => Costs(O) >= 1
    /\ pc[r] = "escaped" => Costs(O) >= 2

Split(O) ==
    /\ \A n \in O : n <= cache["executor"]
    /\ Cardinality(used \ O) <= Cardinality(Taken)
    /\ task.status = "running" => \A r \in Runs : PaidFor(O, r)

\* No event of a subagent is logged twice.
Fresh ==
    /\ IsFiniteSet(Taken)
    /\ \A a \in Analyses, k \in Nat :
         <<"subagent.created", <<a, k>>>> \in announced =>
             k <= request[a].n /\ (request[a].pc = "event" => k < request[a].n)

Uncancelled ==
    /\ cancel = "none" /\ task.status \in {"running", "completed", "failed"}
    /\ \A r \in Runs : pc[r] # "cancelled"
    /\ (\E r \in Runs : pc[r] \notin RunEnd) => "executor" \in warm
    /\ \E O \in SUBSET used : Split(O)

TwoInv == Fresh /\ (left.cancels = MaxCancels => Uncancelled)

\* The subagents' events, over a step that logs none.
LEMMA FreshKept ==
    ASSUME TypeInv, Fresh, announced \subseteq announced',
           \A e \in announced' \ announced : e[1] # "subagent.created",
           \A a \in Analyses : /\ request'[a].n = request[a].n
                               /\ request'[a].pc = "event" => request[a].pc = "event"
    PROVE  Fresh' /\ Taken' = Taken
<1>1. Taken' = Taken
  BY DEF Taken
<1>2. ASSUME NEW a \in Analyses, NEW k \in Nat,
             <<"subagent.created", <<a, k>>>> \in announced'
      PROVE  <<"subagent.created", <<a, k>>>> \in announced
  BY <1>2
<1> QED BY <1>1, <1>2 DEF Fresh

\* A statement of a run logs no event of a subagent.
LEMMA RunEvents ==
    ASSUME NEW r \in Runs, Run(r) \/ StatementFails(r)
    PROVE  /\ announced \subseteq announced'
           /\ \A e \in announced' \ announced : e[1] # "subagent.created"
<1>1. \A s \in DOMAIN EventOf : EventOf[s] # "subagent.created"
  BY EventTable, Domains
<1>2. CASE Log(r)
  BY <1>1, <1>2 DEF Log, Logs, Refused, LogFails
<1>3. CASE ~Log(r)
  BY <1>3 DEF Run, WriteStatus, ClearState, GenerateArtifact, CreateRollbackPlan, RecordEval,
     Inserts, CreateMemory, NoSkill, ProposeUpdate, ExtractSop, StatementFails, logVars
<1> QED BY <1>2, <1>3

\* The event an analysis logs is a new one.
LEMMA AnnounceFresh ==
    ASSUME TypeInv, Fresh, NEW a \in Analyses, AnnounceSubagent(a)
    PROVE  /\ Fresh'
           /\ announced' # announced =>
                /\ Logs("subagents", "subagent.created", <<a, request[a].n>>)
                /\ Cardinality(Taken') = Cardinality(Taken) + 1
           /\ Cardinality(Taken') >= Cardinality(Taken)
<1> DEFINE e == <<"subagent.created", <<a, request[a].n>>>>
<1>1. FinalizeTypeOK /\ request[a].pc = "event" /\ request[a].n \in Nat
  BY DEF TypeInv, FinalizeTypeOK, AnnounceSubagent
<1>2. /\ request'[a].n = request[a].n /\ request'[a].pc # "event"
      /\ \A b \in Analyses \ {a} : request'[b] = request[b]
  BY <1>1 DEF AnnounceSubagent, Goes, FinalizeTypeOK
<1>3. IsFiniteSet(Taken) /\ Cardinality(Taken) \in Nat
  BY FS_CardinalityType DEF Fresh
<1>4. CASE announced' = announced
  BY <1>2, <1>3, <1>4, FreshKept DEF Taken, Fresh
<1>5. CASE announced' # announced
  <2>1. Logs("subagents", "subagent.created", <<a, request[a].n>>)
    BY <1>5 DEF AnnounceSubagent, Refused, LogFails
  <2>2. announced' = announced \cup {e}
    BY <2>1 DEF Logs
  <2>3. Taken' = Taken \cup {e}
    BY <2>2 DEF Taken
  <2>4. e \notin Taken
    BY <1>1 DEF Fresh, Taken
  <2>5. IsFiniteSet(Taken') /\ Cardinality(Taken') = Cardinality(Taken) + 1
    BY <1>3, <2>3, <2>4, FS_AddElement
  <2>6. ASSUME NEW b \in Analyses, NEW k \in Nat,
               <<"subagent.created", <<b, k>>>> \in announced'
        PROVE  k <= request'[b].n /\ (request'[b].pc = "event" => k < request'[b].n)
    <3>1. CASE <<"subagent.created", <<b, k>>>> \in announced
      BY <1>2, <3>1 DEF Fresh
    <3>2. CASE <<"subagent.created", <<b, k>>>> = e
      BY <1>1, <1>2, <3>2
    <3> QED BY <2>2, <2>6, <3>1, <3>2
  <2> QED BY <1>3, <2>1, <2>5, <2>6 DEF Fresh
<1> QED BY <1>4, <1>5

\* Crash only marks what an analysis had begun as lost.
LEMMA CrashRequests ==
    ASSUME FinalizeTypeOK, Crash, NEW a \in Analyses
    PROVE  /\ request'[a].n = request[a].n
           /\ request'[a].pc = request[a].pc \/ request'[a].pc = "lost"
<1>1. \/ request'[a] = request[a]
      \/ request'[a] = [request[a] EXCEPT !.pc = "lost"]
  BY DEF Crash
<1> QED BY <1>1 DEF FinalizeTypeOK

LEMMA NextFresh == TypeInv /\ Fresh /\ [FinalizeNext]_finalizeVars => Fresh'
<1> SUFFICES ASSUME TypeInv, Fresh, [FinalizeNext]_finalizeVars PROVE Fresh'
  OBVIOUS
<1>0. FinalizeTypeOK
  BY DEF TypeInv
<1>1. CASE UNCHANGED finalizeVars
  BY <1>1, FreshKept DEF finalizeVars, logVars
<1>2. ASSUME NEW r \in Runs, Run(r) \/ StatementFails(r) PROVE Fresh'
  BY <1>2, RunStep, RunEvents, FreshKept
<1>3. ASSUME NEW a \in Analyses, CreateSubagent(a) PROVE Fresh'
  <2>1. /\ request[a].n \in Nat /\ announced' = announced
        /\ request'[a].n = request[a].n + 1
        /\ \A b \in Analyses \ {a} : request'[b] = request[b]
    BY <1>0, <1>3 DEF CreateSubagent, FinalizeTypeOK, logVars
  <2>2. Taken' = Taken
    BY <2>1 DEF Taken
  <2>3. ASSUME NEW b \in Analyses, NEW k \in Nat,
               <<"subagent.created", <<b, k>>>> \in announced'
        PROVE  k <= request'[b].n /\ (request'[b].pc = "event" => k < request'[b].n)
    <3>1. CASE b = a
      BY <2>1, <2>3, <3>1 DEF Fresh
    <3>2. CASE b # a
      BY <2>1, <2>3, <3>2 DEF Fresh
    <3> QED BY <3>1, <3>2
  <2> QED BY <2>2, <2>3 DEF Fresh
<1>4. ASSUME NEW a \in Analyses, AnnounceSubagent(a) PROVE Fresh'
  BY <1>4, AnnounceFresh
<1>5. ASSUME NEW a \in Analyses, NextRole(a) \/ ExecuteSubagent(a) \/ AnalysisFails(a)
      PROVE  Fresh'
  <2>1. /\ announced' = announced
        /\ request'[a].n = request[a].n /\ request'[a].pc # "event"
        /\ \A b \in Analyses \ {a} : request'[b] = request[b]
    BY <1>0, <1>5 DEF NextRole, ExecuteSubagent, AnalysisFails, Goes, FinalizeTypeOK, logVars
  <2> QED BY <2>1, FreshKept
<1>6. CASE CancelRequest \/ CancelWrites \/ CancelLogs
  <2>1. /\ request' = request /\ announced \subseteq announced'
        /\ \A e \in announced' \ announced : e[1] # "subagent.created"
    BY <1>6 DEF CancelRequest, CancelWrites, CancelLogs, Logs, Refused, LogFails, logVars
  <2> QED BY <2>1, FreshKept
<1>7. CASE Crash
  <2>1. announced' = announced
    BY <1>7 DEF Crash
  <2>2. \A a \in Analyses : /\ request'[a].n = request[a].n
                            /\ request'[a].pc = "event" => request[a].pc = "event"
    BY <1>0, <1>7, CrashRequests
  <2> QED BY <2>1, <2>2, FreshKept
<1> QED BY <1>1, <1>2, <1>3, <1>4, <1>5, <1>6, <1>7 DEF FinalizeNext, Analysis

\* Costs only grow: numbers stay in use, the cache moves on, faults are used up.
LEMMA CostsGrow ==
    ASSUME FinalizeTypeOK, FinalizeTypeOK', NEW O, NEW P,
           used \subseteq used', P \cap used \subseteq O,
           cache["executor"] <= cache'["executor"], left'.faults <= left.faults
    PROVE  /\ Costs(O) \in Nat /\ Costs(P)' \in Nat
           /\ Costs(O) <= Costs(P)'
           /\ left'.faults = left.faults - 1 => Costs(O) + 1 <= Costs(P)'
           /\ (\E n \in used' \ P : cache["executor"] < n /\ n <= cache'["executor"])
                => Costs(O) + 1 <= Costs(P)'
<1> DEFINE A == Foreign(O)
           B == Foreign(P)'
<1>1. /\ used \subseteq Nat /\ cache["executor"] \in Nat /\ cache'["executor"] \in Nat
      /\ IsFiniteSet(used) /\ IsFiniteSet(used')
  BY DEF FinalizeTypeOK, Loggers
<1>2. A \subseteq B
  <2>1. ASSUME NEW n \in used, n \notin O, n <= cache["executor"]
        PROVE  n \in used' /\ n \notin P /\ n <= cache'["executor"]
    <3>1. n \in Nat
      BY <1>1
    <3> QED BY <1>1, <2>1, <3>1
  <2> QED BY <2>1 DEF Foreign
<1>3. ASSUME NEW n \in used' \ P, cache["executor"] < n, n <= cache'["executor"]
      PROVE  B # A
  <2>1. n \in Nat
    BY DEF FinalizeTypeOK
  <2>2. n \in B /\ n \notin A
    BY <1>1, <1>3, <2>1 DEF Foreign
  <2> QED BY <2>2
<1>4. IsFiniteSet(A) /\ IsFiniteSet(B)
  <2>1. A \subseteq used /\ B \subseteq used'
    BY DEF Foreign
  <2> QED BY <1>1, <2>1, FS_Subset
<1>5. /\ MaxFaults \in Nat /\ left.faults \in 0..MaxFaults /\ left'.faults \in 0..MaxFaults
  BY BoundsAssumption DEF FinalizeTypeOK
<1>6. /\ Costs(O) = (MaxFaults - left.faults) + Cardinality(A)
      /\ Costs(P)' = (MaxFaults - left'.faults) + Cardinality(B)
  BY DEF Costs
<1> HIDE DEF A, B
<1>7. /\ Cardinality(A) \in Nat /\ Cardinality(B) \in Nat
      /\ Cardinality(A) <= Cardinality(B)
      /\ B # A => Cardinality(A) # Cardinality(B)
  BY <1>2, <1>4, FS_Subset, FS_CardinalityType
<1>8. /\ Costs(O) \in Nat /\ Costs(P)' \in Nat /\ Costs(O) <= Costs(P)'
      /\ left'.faults = left.faults - 1 => Costs(O) + 1 <= Costs(P)'
      /\ B # A => Costs(O) + 1 <= Costs(P)'
  BY <1>5, <1>6, <1>7
<1> QED BY <1>3, <1>8 DEF A, B

\* The split goes on to hold if each run keeps its place or has paid for its new one.
LEMMA SplitKept ==
    ASSUME FinalizeTypeOK, FinalizeTypeOK', NEW O, NEW P, Split(O),
           used \subseteq used', P \cap used \subseteq O,
           cache["executor"] <= cache'["executor"], left'.faults <= left.faults,
           \A n \in P : n <= cache'["executor"],
           Cardinality(used' \ P) <= Cardinality(Taken'),
           task'.status = "running" => task.status = "running",
           \A r \in Runs : pc'[r] # pc[r] /\ task'.status = "running" => PaidFor(P, r)'
    PROVE  Split(P)'
<1>1. Costs(O) \in Nat /\ Costs(P)' \in Nat /\ Costs(O) <= Costs(P)'
  BY CostsGrow
<1>2. ASSUME task'.status = "running", NEW r \in Runs, pc'[r] = pc[r]
      PROVE  PaidFor(P, r)'
  <2>1. PaidFor(O, r)
    BY <1>2 DEF Split
  <2> QED BY <1>1, <1>2, <2>1 DEF PaidFor
<1> QED BY <1>2 DEF Split

\* A run that raises has paid once more.
LEMMA RaisePays ==
    ASSUME FinalizeTypeOK, NEW O, NEW P, NEW r \in Runs, PaidFor(O, r), pc[r] \in Statements,
           Raises(r), Costs(O) \in Nat, Costs(P)' \in Nat, Costs(O) + 1 <= Costs(P)'
    PROVE  PaidFor(P, r)'
<1>1. pc'[r] = IF pc[r] \in Handler THEN "escaped" ELSE "failed_event"
  BY DEF Raises, FinalizeTypeOK
<1>2. CASE pc[r] \in Handler
  <2>1. pc[r] \in {"failed_event", "failed_status"}
    BY <1>2 DEF PaidFor, Handler, WroteStatus
  <2>2. Costs(P)' >= 2
    BY <2>1 DEF PaidFor
  <2> QED BY <1>1, <1>2, <2>2 DEF PaidFor, WroteStatus
<1>3. CASE pc[r] \notin Handler
  BY <1>1, <1>3 DEF PaidFor, WroteStatus
<1> QED BY <1>2, <1>3

\* The next statement of a run that has not written its status, before it has.
LEMMA AdvancePays ==
    ASSUME FinalizeTypeOK, NEW O, NEW P, NEW r \in Runs, PaidFor(O, r), pc[r] \in Statements,
           pc[r] \notin DOMAIN StatusOf,
           Advances(r), Costs(O) \in Nat, Costs(P)' \in Nat, Costs(O) <= Costs(P)'
    PROVE  PaidFor(P, r)'
<1>1. pc'[r] = After[pc[r]]
  BY DEF Advances, FinalizeTypeOK
<1>2. pc[r] \in {"artifact", "artifact_event", "plan", "plan_event", "completed_event",
                "failed_event"}
  BY Domains DEF PaidFor, WroteStatus, Statements
<1>3. /\ pc'[r] \in {"artifact_event", "plan", "plan_event", "completed_event",
                    "completed_status", "failed_status"}
      /\ pc'[r] = "failed_status" => pc[r] = "failed_event"
  BY <1>1, <1>2, AfterTable
<1>4. pc'[r] = "failed_status" => Costs(P)' >= 1
  BY <1>3 DEF PaidFor
<1> QED BY <1>3, <1>4 DEF PaidFor, WroteStatus

\* A fault that happens is one fewer that may.
LEMMA FaultLess ==
    ASSUME FinalizeTypeOK, FaultUsed
    PROVE  left'.faults = left.faults - 1 /\ left'.faults <= left.faults
           /\ left'.cancels = left.cancels
<1>1. left.faults \in Nat
  BY BoundsAssumption DEF FinalizeTypeOK
<1> QED BY <1>1 DEF FinalizeTypeOK, FaultUsed

\* The split of the numbers after a log of the executor: its new number is its
\* own, unless a subagent has it, and then the cache passes that one.
LEMMA ExecutorLogs ==
    ASSUME FinalizeTypeOK, FinalizeTypeOK', NEW O \in SUBSET used, Split(O),
           "executor" \in warm, Taken' = Taken,
           TakesNumber("executor"), left'.faults <= left.faults,
           \/ Number("executor") \notin used /\ used' = used \cup {Number("executor")}
           \/ used' = used
    PROVE  \E P \in SUBSET used' :
              /\ used \subseteq used' /\ P \cap used \subseteq O
              /\ cache["executor"] <= cache'["executor"]
              /\ \A n \in P : n <= cache'["executor"]
              /\ Cardinality(used' \ P) <= Cardinality(Taken')
              /\ used' = used /\ Number("executor") \in used =>
                   \E n \in used' \ P : cache["executor"] < n /\ n <= cache'["executor"]
<1>1. /\ cache["executor"] \in Nat /\ Number("executor") = cache["executor"] + 1
      /\ cache'["executor"] = cache["executor"] + 1
      /\ used \subseteq Nat
  BY DEF FinalizeTypeOK, Loggers, Number, TakesNumber
<1>2. \A n \in O : n \in Nat /\ n <= cache["executor"]
  BY <1>1 DEF Split
<1>3. \A n \in O : n <= cache'["executor"]
  BY <1>1, <1>2
<1>4. CASE used' = used
  <2>1. Cardinality(used' \ O) <= Cardinality(Taken')
    BY <1>4 DEF Split
  <2>2. ASSUME Number("executor") \in used
        PROVE  \E n \in used' \ O : cache["executor"] < n /\ n <= cache'["executor"]
    <3>1. Number("executor") \notin O
      BY <1>1, <1>2
    <3> QED BY <1>1, <1>4, <2>2, <3>1
  <2>3. used \subseteq used' /\ O \cap used \subseteq O
    BY <1>4
  <2> O \in SUBSET used'
    BY <1>4
  <2> WITNESS O \in SUBSET used'
  <2> QED BY <1>1, <1>3, <1>4, <2>1, <2>2, <2>3
<1>5. CASE Number("executor") \notin used /\ used' = used \cup {Number("executor")}
  <2>1. PICK P : P = O \cup {Number("executor")}
    OBVIOUS
  <2>2. P \subseteq used' /\ P \cap used \subseteq O /\ used' \ P = used \ O
    BY <1>5, <2>1
  <2>3. \A n \in P : n <= cache'["executor"]
    BY <1>1, <1>3, <2>1
  <2>4. Cardinality(used' \ P) <= Cardinality(Taken')
    BY <2>2 DEF Split
  <2>5. used \subseteq used' /\ used' # used
    BY <1>5
  <2> P \in SUBSET used'
    BY <2>2
  <2> WITNESS P \in SUBSET used'
  <2> QED BY <1>1, <2>2, <2>3, <2>4, <2>5
<1> QED BY <1>4, <1>5

\* A step that takes no number of the executor: the split stays as it is.
LEMMA SameSplit ==
    ASSUME FinalizeTypeOK, FinalizeTypeOK', NEW O \in SUBSET used, Split(O),
           UNCHANGED <<task, used, cache>>, Taken' = Taken, left'.faults <= left.faults,
           \A r \in Runs : pc'[r] # pc[r] /\ task.status = "running" => PaidFor(O, r)'
    PROVE  \E P \in SUBSET used' : Split(P)'
<1>1. cache["executor"] <= cache'["executor"]
  BY DEF FinalizeTypeOK, Loggers
<1>2. /\ \A n \in O : n <= cache'["executor"]
      /\ Cardinality(used' \ O) <= Cardinality(Taken')
      /\ used \subseteq used' /\ O \cap used \subseteq O /\ task' = task
  BY DEF Split
<1>3. Split(O)'
  BY <1>1, <1>2, SplitKept
<1>4. O \in SUBSET used'
  OBVIOUS
<1> QED BY <1>3, <1>4

LEMMA LogSplits ==
    ASSUME TypeInv, TypeInv', NEW r \in Runs, Log(r), "executor" \in warm, Taken' = Taken,
           NEW O \in SUBSET used, Split(O)
    PROVE  \E P \in SUBSET used' : Split(P)'
<1>1. /\ FinalizeTypeOK /\ FinalizeTypeOK' /\ pc[r] \in Statements
      /\ pc[r] \notin DOMAIN StatusOf
  BY Domains DEF TypeInv, Log, Statements
<1>2. task' = task /\ TakesNumber("executor") /\ \A q \in Runs \ {r} : pc'[q] = pc[q]
  <2>1. Advances(r) \/ Raises(r)
    BY DEF Log
  <2> QED BY <1>1, <2>1, RunMoves DEF Log, Logs, Refused, LogFails, rowVars
<1>3. /\ left'.faults <= left.faults
      /\ LogFails("executor") => left'.faults = left.faults - 1
  <2>1. left.faults <= left.faults
    BY <1>1, BoundsAssumption DEF FinalizeTypeOK
  <2> QED BY <1>1, <2>1, FaultLess DEF Log, LogFails
<1>4. \/ Number("executor") \notin used /\ used' = used \cup {Number("executor")}
      \/ used' = used
  BY DEF Log, Logs, Refused, LogFails
<1>5. PICK P \in SUBSET used' :
        /\ used \subseteq used' /\ P \cap used \subseteq O
        /\ cache["executor"] <= cache'["executor"]
        /\ \A n \in P : n <= cache'["executor"]
        /\ Cardinality(used' \ P) <= Cardinality(Taken')
        /\ used' = used /\ Number("executor") \in used =>
             \E n \in used' \ P : cache["executor"] < n /\ n <= cache'["executor"]
  BY <1>1, <1>2, <1>3, <1>4, ExecutorLogs
<1>6. /\ Costs(O) \in Nat /\ Costs(P)' \in Nat /\ Costs(O) <= Costs(P)'
      /\ left'.faults = left.faults - 1 => Costs(O) + 1 <= Costs(P)'
      /\ used' = used /\ Number("executor") \in used => Costs(O) + 1 <= Costs(P)'
  BY <1>1, <1>3, <1>5, CostsGrow
<1>7. ASSUME task'.status = "running" PROVE PaidFor(P, r)'
  <2>1. PaidFor(O, r)
    BY <1>2, <1>7 DEF Split
  <2>2. CASE Logs("executor", EventOf[pc[r]], r) /\ Advances(r)
    BY <1>1, <1>6, <2>1, <2>2, AdvancePays
  <2>3. CASE Refused("executor") /\ Raises(r)
    <3>1. Costs(O) + 1 <= Costs(P)'
      BY <1>6, <2>3 DEF Refused
    <3> QED BY <1>1, <1>6, <2>1, <2>3, <3>1, RaisePays
  <2>4. CASE LogFails("executor") /\ Raises(r)
    <3>1. Costs(O) + 1 <= Costs(P)'
      BY <1>3, <1>6, <2>4
    <3> QED BY <1>1, <1>6, <2>1, <2>4, <3>1, RaisePays
  <2> QED BY <2>2, <2>3, <2>4 DEF Log
<1>8. task'.status = "running" => task.status = "running"
  BY <1>2
<1>9. \A q \in Runs : pc'[q] # pc[q] /\ task'.status = "running" => PaidFor(P, q)'
  BY <1>2, <1>7
<1>10. Split(P)'
  BY <1>1, <1>3, <1>5, <1>8, <1>9, SplitKept
<1> QED BY <1>10

LEMMA RunUncancelled ==
    ASSUME TypeInv, TypeInv', Fresh, Uncancelled, NEW r \in Runs, Run(r) \/ StatementFails(r)
    PROVE  Uncancelled'
<1>1. /\ FinalizeTypeOK /\ FinalizeTypeOK' /\ pc[r] \in Statements
      /\ UNCHANGED <<request, cancel>>
      /\ Advances(r) \/ Raises(r) \/ pc' = pc
  BY RunStep DEF TypeInv
<1>2. /\ \A q \in Runs \ {r} : pc'[q] = pc[q]
      /\ pc'[r] # "cancelled"
  <2>1. \A s \in Statements : After[s] # "cancelled" /\ s # "cancelled"
    BY AfterTable DEF Statements
  <2> QED BY <1>1, <2>1, RunMoves
<1>3. Taken' = Taken
  BY <1>1, RunEvents, FreshKept
<1>4. "executor" \in warm
  <2>1. pc[r] \notin RunEnd
    BY <1>1 DEF Statements, RunEnd
  <2> QED BY <2>1 DEF Uncancelled
<1>5. "executor" \in warm'
  BY <1>4 DEF Run, Log, Logs, Refused, LogFails, TakesNumber, WriteStatus, ClearState,
     GenerateArtifact, CreateRollbackPlan, RecordEval, Inserts, CreateMemory, NoSkill,
     ProposeUpdate, ExtractSop, StatementFails, logVars
<1>6. PICK O \in SUBSET used : Split(O)
  BY DEF Uncancelled
<1>7. /\ task'.status \in {"running", "completed", "failed"}
      /\ \E P \in SUBSET used' : Split(P)'
  <2>1. CASE Log(r)
    BY <1>3, <1>4, <1>6, <2>1, LogSplits DEF Log, rowVars, Uncancelled
  <2>2. CASE WriteStatus(r)
    <3>1. task'.status \in {"completed", "failed"}
      BY <2>2, Domains DEF WriteStatus, StatusOf
    <3>2. used' = used /\ cache' = cache
      BY <2>2 DEF WriteStatus, logVars
    <3>3. Split(O)'
      BY <1>3, <1>6, <3>1, <3>2 DEF Split
    <3> QED BY <1>6, <3>1, <3>2, <3>3
  <2>3. CASE StatementFails(r)
    <3>1. /\ UNCHANGED <<task, used, cache>> /\ Raises(r)
          /\ left'.faults = left.faults - 1 /\ left'.faults <= left.faults
      BY <1>1, <2>3, FaultLess DEF StatementFails, rowVars, logVars
    <3>2. ASSUME task.status = "running" PROVE PaidFor(O, r)'
      <4>1. PaidFor(O, r)
        BY <1>6, <3>2 DEF Split
      <4>2. cache["executor"] <= cache'["executor"]
        BY <1>1, <3>1 DEF FinalizeTypeOK, Loggers
      <4>3. /\ Costs(O) \in Nat /\ Costs(O)' \in Nat /\ Costs(O) + 1 <= Costs(O)'
        BY <1>1, <3>1, <4>2, CostsGrow
      <4> QED BY <1>1, <3>1, <4>1, <4>3, RaisePays
    <3>3. \A q \in Runs : pc'[q] # pc[q] /\ task.status = "running" => PaidFor(O, q)'
      BY <1>2, <3>2
    <3>4. \E P \in SUBSET used' : Split(P)'
      BY <1>1, <1>3, <1>6, <3>1, <3>3, SameSplit
    <3> QED BY <3>1, <3>4 DEF Uncancelled
  <2>4. CASE /\ Run(r) /\ ~Log(r) /\ ~WriteStatus(r)
    <3>1. UNCHANGED <<task, used, cache, left>>
      BY <2>4 DEF Run, ClearState, GenerateArtifact, CreateRollbackPlan, RecordEval, Inserts,
         CreateMemory, NoSkill, ProposeUpdate, ExtractSop, rowVars, logVars
    <3>2. left'.faults <= left.faults
      BY <1>1, <3>1, BoundsAssumption DEF FinalizeTypeOK
    <3>3. ASSUME task.status = "running" PROVE PaidFor(O, r)'
      <4>1. PaidFor(O, r)
        BY <1>6, <3>3 DEF Split
      <4>2. pc[r] \in {"artifact", "plan"} /\ Advances(r)
        BY <2>4, <4>1 DEF PaidFor, WroteStatus, Run, ClearState, GenerateArtifact,
           CreateRollbackPlan, RecordEval, Inserts, CreateMemory, NoSkill, ProposeUpdate, ExtractSop
      <4>3. cache["executor"] <= cache'["executor"]
        BY <1>1, <3>1 DEF FinalizeTypeOK, Loggers
      <4>4. /\ Costs(O) \in Nat /\ Costs(O)' \in Nat /\ Costs(O) <= Costs(O)'
        BY <1>1, <3>1, <3>2, <4>3, CostsGrow
      <4>5. pc[r] \notin DOMAIN StatusOf
        BY <4>2, Domains
      <4> QED BY <1>1, <4>1, <4>2, <4>4, <4>5, AdvancePays
    <3>4. \A q \in Runs : pc'[q] # pc[q] /\ task.status = "running" => PaidFor(O, q)'
      BY <1>2, <3>3
    <3>5. \E P \in SUBSET used' : Split(P)'
      BY <1>1, <1>3, <1>6, <3>1, <3>2, <3>4, SameSplit
    <3> QED BY <3>1, <3>5 DEF Uncancelled
  <2> QED BY <2>1, <2>2, <2>3, <2>4
<1>8. \A q \in Runs : pc'[q] # "cancelled"
  BY <1>2 DEF Uncancelled
<1> QED BY <1>1, <1>5, <1>7, <1>8 DEF Uncancelled

\* A subagent's event takes a number more than the executor has used, and is
\* one more subagent's event.
LEMMA AnalysisUncancelled ==
    ASSUME TypeInv, TypeInv', Fresh, Uncancelled, NEW a \in Analyses,
           Analysis(a) \/ AnalysisFails(a)
    PROVE  Uncancelled'
<1>1. FinalizeTypeOK /\ FinalizeTypeOK'
  BY DEF TypeInv
<1>2. UNCHANGED <<task, pc, cancel>> /\ warm \subseteq warm'
  BY DEF Analysis, NextRole, CreateSubagent, AnnounceSubagent, ExecuteSubagent, AnalysisFails,
     Logs, Refused, LogFails, TakesNumber, rowVars, logVars, runVars
<1>3. PICK O \in SUBSET used : Split(O)
  BY DEF Uncancelled
<1>4. /\ used \subseteq used' /\ cache'["executor"] = cache["executor"]
      /\ \/ used' = used /\ Cardinality(Taken') >= Cardinality(Taken)
         \/ /\ used' = used \cup {Number("subagents")} /\ Number("subagents") \notin used
            /\ Cardinality(Taken') = Cardinality(Taken) + 1
  <2>1. CASE AnnounceSubagent(a)
    <3>1. cache'["executor"] = cache["executor"]
      BY <1>1, <2>1 DEF AnnounceSubagent, Logs, Refused, LogFails, TakesNumber,
                        FinalizeTypeOK, Loggers
    <3>2. CASE announced' = announced
      <4>1. Taken' = Taken /\ Cardinality(Taken) \in Nat
        BY <3>2, FS_CardinalityType DEF Taken, Fresh
      <4>2. CASE used' = used
        BY <3>1, <4>1, <4>2
      <4>3. CASE used' # used
        <5>1. Logs("subagents", "subagent.created", <<a, request[a].n>>)
          BY <2>1, <4>3 DEF AnnounceSubagent, Refused, LogFails
        <5>2. <<"subagent.created", <<a, request[a].n>>>> \in announced
          BY <3>2, <5>1 DEF Logs
        <5>3. request[a].n \in Nat /\ request[a].pc = "event"
          BY <1>1, <2>1 DEF FinalizeTypeOK, AnnounceSubagent
        <5> QED BY <5>2, <5>3 DEF Fresh
      <4> QED BY <4>2, <4>3
    <3>3. CASE announced' # announced
      <4>1. /\ Logs("subagents", "subagent.created", <<a, request[a].n>>)
            /\ Cardinality(Taken') = Cardinality(Taken) + 1
        BY <2>1, <3>3, AnnounceFresh
      <4> QED BY <3>1, <4>1 DEF Logs
    <3> QED BY <3>2, <3>3
  <2>2. CASE ~AnnounceSubagent(a)
    <3>1. UNCHANGED <<used, announced, cache>>
      BY <2>2 DEF Analysis, NextRole, CreateSubagent, ExecuteSubagent, AnalysisFails, logVars
    <3>2. Taken' = Taken /\ Cardinality(Taken) \in Nat
      BY <3>1, FS_CardinalityType DEF Taken, Fresh
    <3> QED BY <3>1, <3>2
  <2> QED BY <2>1, <2>2
<1>5. left'.faults <= left.faults
  <2>1. left.faults <= left.faults
    BY <1>1, BoundsAssumption DEF FinalizeTypeOK
  <2> QED BY <1>1, <2>1, FaultLess DEF Analysis, NextRole, CreateSubagent, AnnounceSubagent,
             ExecuteSubagent, AnalysisFails, LogFails
<1>6. /\ cache["executor"] <= cache'["executor"] /\ \A n \in O : n <= cache'["executor"]
      /\ O \in SUBSET used' /\ O \cap used \subseteq O
  BY <1>1, <1>3, <1>4 DEF FinalizeTypeOK, Loggers, Split
<1>7. Cardinality(used' \ O) <= Cardinality(Taken')
  <2>1. IsFiniteSet(used \ O) /\ Cardinality(used \ O) \in Nat
    <3>1. used \ O \subseteq used /\ IsFiniteSet(used)
      BY <1>1 DEF FinalizeTypeOK
    <3> QED BY <3>1, FS_Subset, FS_CardinalityType
  <2>2. Cardinality(used \ O) <= Cardinality(Taken) /\ Cardinality(Taken) \in Nat
    BY <1>3, FS_CardinalityType DEF Split, Fresh
  <2>3. CASE used' = used /\ Cardinality(Taken') >= Cardinality(Taken)
    <3>1. Cardinality(Taken') \in Nat
      BY <1>4, <2>2, <2>3, AnnounceFresh, FS_CardinalityType, NextFresh
         DEF Fresh, FinalizeNext
    <3> QED BY <2>1, <2>2, <2>3, <3>1
  <2>4. CASE /\ used' = used \cup {Number("subagents")} /\ Number("subagents") \notin used
             /\ Cardinality(Taken') = Cardinality(Taken) + 1
    <3>1. used' \ O = (used \ O) \cup {Number("subagents")} /\ Number("subagents") \notin used \ O
      BY <1>3, <2>4
    <3>2. Cardinality(used' \ O) = Cardinality(used \ O) + 1
      BY <2>1, <3>1, FS_AddElement
    <3> QED BY <2>1, <2>2, <2>4, <3>2
  <2> QED BY <1>4, <2>3, <2>4
<1>8. \A q \in Runs : pc'[q] # pc[q] /\ task'.status = "running" => PaidFor(O, q)'
  BY <1>2
<1>9. Split(O)'
  BY <1>1, <1>2, <1>3, <1>4, <1>5, <1>6, <1>7, <1>8, SplitKept
<1> QED BY <1>2, <1>6, <1>9 DEF Uncancelled

\* A crash ends every run that has not ended.
LEMMA CrashUncancelled ==
    ASSUME TypeInv, TypeInv', Uncancelled, Crash
    PROVE  Uncancelled'
<1>1. FinalizeTypeOK /\ FinalizeTypeOK'
  BY DEF TypeInv
<1>2. /\ UNCHANGED <<task, used, announced, cache>> /\ cancel' = "none"
      /\ left'.faults = left.faults
  BY <1>1 DEF Crash, rowVars, FinalizeTypeOK
<1>3. \A r \in Runs : /\ pc'[r] = pc[r] \/ pc'[r] = "lost"
                      /\ pc'[r] \in RunEnd
  BY DEF Crash, RunEnd
<1>4. \A r \in Runs : pc'[r] # "cancelled"
  BY <1>3 DEF Uncancelled
<1>5. PICK O \in SUBSET used : Split(O)
  BY DEF Uncancelled
<1>6. Taken' = Taken /\ left'.faults <= left.faults
  BY <1>1, <1>2, BoundsAssumption DEF Taken, FinalizeTypeOK
<1>7. \A r \in Runs : pc'[r] # pc[r] /\ task.status = "running" => PaidFor(O, r)'
  BY <1>3 DEF PaidFor, WroteStatus
<1>8. \E P \in SUBSET used' : Split(P)'
  BY <1>1, <1>2, <1>5, <1>6, <1>7, SameSplit
<1> QED BY <1>2, <1>3, <1>4, <1>8 DEF Uncancelled

LEMMA NextTwo ==
    TypeInv /\ TypeInv' /\ TwoInv /\ [FinalizeNext]_finalizeVars => TwoInv'
<1> SUFFICES ASSUME TypeInv, TypeInv', TwoInv, [FinalizeNext]_finalizeVars,
                    left'.cancels = MaxCancels
             PROVE  Uncancelled'
  BY NextFresh DEF TwoInv
<1>1. FinalizeTypeOK /\ FinalizeTypeOK' /\ Fresh /\ MaxCancels \in Nat
  BY BoundsAssumption DEF TypeInv, TwoInv
<1>2. ~CancelRequest
  <2>1. left.cancels \in 0..MaxCancels
    BY <1>1 DEF FinalizeTypeOK
  <2> QED BY <1>1, <2>1 DEF CancelRequest, FinalizeTypeOK
<1>3. left.cancels = MaxCancels
  <2>1. CASE FaultUsed
    BY <1>1, <2>1, FaultLess
  <2>2. CASE UNCHANGED left
    BY <2>2
  <2>3. CASE Crash
    BY <1>1, <2>3 DEF Crash, FinalizeTypeOK
  <2>4. FaultUsed \/ UNCHANGED left \/ Crash
    BY <1>2 DEF FinalizeNext, Run, Log, Logs, Refused, LogFails, WriteStatus, ClearState,
       GenerateArtifact, CreateRollbackPlan, RecordEval, Inserts, CreateMemory, NoSkill,
       ProposeUpdate, ExtractSop, StatementFails, Analysis, NextRole, CreateSubagent,
       AnnounceSubagent, ExecuteSubagent, AnalysisFails, CancelWrites, CancelLogs, finalizeVars
  <2> QED BY <2>1, <2>2, <2>3, <2>4
<1>4. Uncancelled
  BY <1>3 DEF TwoInv
<1>5. CASE UNCHANGED finalizeVars
  <2>1. UNCHANGED <<task, pc, cancel, warm, used, cache, announced, left>>
    BY <1>5 DEF finalizeVars, rowVars, logVars, runVars
  <2>2. PICK O \in SUBSET used : Split(O)
    BY <1>4 DEF Uncancelled
  <2>3. Taken' = Taken /\ left'.faults <= left.faults
    BY <1>1, <2>1, BoundsAssumption DEF Taken, FinalizeTypeOK
  <2>4. \E P \in SUBSET used' : Split(P)'
    BY <1>1, <2>1, <2>2, <2>3, SameSplit
  <2> QED BY <1>4, <2>1, <2>4 DEF Uncancelled
<1>6. CASE \E r \in Runs : Run(r) \/ StatementFails(r)
  BY <1>1, <1>4, <1>6, RunUncancelled
<1>7. CASE \E a \in Analyses : Analysis(a) \/ AnalysisFails(a)
  BY <1>1, <1>4, <1>7, AnalysisUncancelled
<1>8. CASE CancelWrites \/ CancelLogs
  BY <1>4, <1>8 DEF Uncancelled, CancelWrites, CancelLogs
<1>9. CASE Crash
  BY <1>4, <1>9, CrashUncancelled
<1> QED BY <1>2, <1>5, <1>6, <1>7, <1>8, <1>9 DEF FinalizeNext

\* A run that escaped has cost two: faults, or events of subagents.
LEMMA TwoInvTakesTwo ==
    ASSUME TypeInv, TwoInv, Runs # {}
    PROVE  LeftRunningTakesTwo
<1> SUFFICES ASSUME \A r \in Runs : pc[r] \in {"completed", "failed", "escaped"},
                    left.cancels = MaxCancels,
                    task.status \notin {"completed", "failed"}
             PROVE  ~((MaxFaults - left.faults) + Cardinality(Taken) < 2)
  BY DEF LeftRunningTakesTwo, Taken
<1>1. FinalizeTypeOK /\ Uncancelled /\ Fresh /\ task.status = "running"
  BY DEF TypeInv, TwoInv, Uncancelled
<1>2. PICK O \in SUBSET used : Split(O)
  BY <1>1 DEF Uncancelled
<1>3. PICK r \in Runs : PaidFor(O, r)
  BY <1>1, <1>2 DEF Split
<1>4. Costs(O) >= 2
  BY <1>3 DEF PaidFor, WroteStatus
<1>5. /\ Cardinality(Foreign(O)) \in Nat /\ Cardinality(used \ O) \in Nat
      /\ Cardinality(Taken) \in Nat
      /\ Cardinality(Foreign(O)) <= Cardinality(used \ O)
      /\ Cardinality(used \ O) <= Cardinality(Taken)
  <2>1. Foreign(O) \subseteq used \ O /\ used \ O \subseteq used /\ IsFiniteSet(used)
    BY <1>1 DEF Foreign, FinalizeTypeOK
  <2>2. IsFiniteSet(used \ O)
    BY <2>1, FS_Subset
  <2>3. IsFiniteSet(Foreign(O)) /\ Cardinality(Foreign(O)) <= Cardinality(used \ O)
    BY <2>1, <2>2, FS_Subset
  <2>4. IsFiniteSet(Taken)
    BY <1>1 DEF Fresh
  <2> QED BY <1>2, <2>2, <2>3, <2>4, FS_CardinalityType DEF Split
<1>6. MaxFaults - left.faults \in Nat
  BY <1>1, BoundsAssumption DEF FinalizeTypeOK
<1> QED BY <1>4, <1>5, <1>6 DEF Costs

\* No single exception, wherever it falls in the completion or in its handler,
\* leaves a task running that nobody cancelled: it takes two, or an event of a
\* subagent that takes a number of the executor's (task_executor.py,
\* _execute_plan and _finalize_execution; event_logger.py, log).
THEOREM RunningTakesTwo ==
    ASSUME Runs # {}
    PROVE  FinalizeSpec => []LeftRunningTakesTwo
<1>1. FinalizeInit => TwoInv
  <2> SUFFICES ASSUME FinalizeInit PROVE TwoInv
    OBVIOUS
  <2>1. Taken = {} /\ used = {} /\ used \ {} = {}
    BY DEF FinalizeInit, Taken
  <2>2. IsFiniteSet(Taken) /\ Cardinality(used \ {}) <= Cardinality(Taken)
    BY <2>1, FS_EmptySet
  <2>3. Fresh
    BY <2>2 DEF Fresh, FinalizeInit
  <2>4. \A r \in Runs : pc[r] = "artifact"
    BY DEF FinalizeInit
  <2>5. Split({})
    BY <2>2, <2>4 DEF Split, PaidFor, WroteStatus
  <2>6. Uncancelled
    BY <2>4, <2>5 DEF Uncancelled, FinalizeInit
  <2> QED BY <2>3, <2>6 DEF TwoInv
<1>2. TypeInv /\ TwoInv => LeftRunningTakesTwo
  BY TwoInvTakesTwo
<1> QED BY <1>1, <1>2, NextTwo, AlwaysTyped, PTL DEF FinalizeSpec
=============================================================================
