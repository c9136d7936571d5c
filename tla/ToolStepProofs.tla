--------------------------- MODULE ToolStepProofs ---------------------------
(***************************************************************************)
(* Theorems about ToolStep, for any number of steps and servers.            *)
(***************************************************************************)
EXTENDS ToolStep, PolicyEngineProofs, TLAPS

RowStatus == {"pending", "success", "failed"}

-----------------------------------------------------------------------------
(* Lemmas about the record of one step *)

\* A statement under way leaves a well-formed record, wherever the coroutine
\* goes from there.  A row is there to settle when a row is settled.
LEMMA ExecutedTyped ==
    ASSUME NEW x \in StepRecord, NEW to \in PC,
           x.pc = "settle" => Len(x.rows) > 0
    PROVE  /\ Executed(x) \in StepRecord
           /\ [Executed(x) EXCEPT !.pc = to] \in StepRecord
<1>1. Executed(x) \in StepRecord
  <2>1. CASE x.pc = "grant"
    BY <2>1 DEF Executed, StepRecord
  <2>2. CASE x.pc = "announce"
    BY <2>2 DEF Executed, StepRecord
  <2>3. CASE x.pc = "record"
    <3>1. Append(x.rows, "pending") \in Seq(RowStatus)
      BY DEF StepRecord, RowStatus
    <3> QED
      BY <2>3, <3>1 DEF Executed, StepRecord, RowStatus
  <2>4. CASE x.pc = "settle"
    <3> DEFINE status == IF x.ok THEN "success" ELSE "failed"
               rows == [x.rows EXCEPT ![Len(x.rows)] = status]
    <3>1. rows \in Seq(RowStatus)
      BY <2>4 DEF StepRecord, RowStatus
    <3>2. Executed(x) = [x EXCEPT !.rows = rows]
      BY <2>4 DEF Executed, StepRecord
    <3> HIDE DEF rows
    <3> QED
      BY <3>1, <3>2 DEF StepRecord, RowStatus
  <2>5. CASE x.pc \notin {"grant", "announce", "record", "settle"}
    BY <2>5 DEF Executed
  <2> QED
    BY <2>1, <2>2, <2>3, <2>4, <2>5
<1> QED
  BY <1>1 DEF StepRecord

\* What the statement at each place changes.
LEMMA ExecutedFields ==
    ASSUME NEW x \in StepRecord, x.pc = "settle" => Len(x.rows) > 0
    PROVE  LET y == Executed(x)
           IN  /\ y.pc = x.pc /\ y.tool = x.tool /\ y.environment = x.environment
               /\ y.admin = x.admin /\ y.is_retry = x.is_retry /\ y.ok = x.ok
               /\ y.called = x.called /\ y.target = x.target
               /\ y.granted = IF x.pc = "grant" THEN x.granted + 1 ELSE x.granted
               /\ y.announced = IF x.pc = "announce" THEN x.announced + 1
                                ELSE x.announced
               /\ Len(y.rows) = IF x.pc = "record" THEN Len(x.rows) + 1
                                ELSE Len(x.rows)
               /\ \A i \in 1..Len(x.rows) :
                    (x.pc = "settle" /\ i = Len(x.rows)) \/ y.rows[i] = x.rows[i]
               /\ x.pc = "settle" =>
                    y.rows[Len(x.rows)] = IF x.ok THEN "success" ELSE "failed"
<1>1. CASE x.pc = "record"
  <2>1. /\ Len(Append(x.rows, "pending")) = Len(x.rows) + 1
        /\ \A i \in 1..Len(x.rows) : Append(x.rows, "pending")[i] = x.rows[i]
    BY DEF StepRecord
  <2> QED
    BY <1>1, <2>1 DEF Executed, StepRecord
<1>2. CASE x.pc = "settle"
  <2> DEFINE status == IF x.ok THEN "success" ELSE "failed"
             rows == [x.rows EXCEPT ![Len(x.rows)] = status]
  <2>1. /\ Len(rows) = Len(x.rows)
        /\ \A i \in 1..Len(x.rows) : i # Len(x.rows) => rows[i] = x.rows[i]
        /\ rows[Len(x.rows)] = status
    BY <1>2 DEF StepRecord
  <2>2. Executed(x) = [x EXCEPT !.rows = rows]
    BY <1>2 DEF Executed, StepRecord
  <2> HIDE DEF rows
  <2> QED
    BY <1>2, <2>1, <2>2 DEF StepRecord
<1>3. CASE x.pc \notin {"record", "settle"}
  BY <1>3 DEF Executed, StepRecord
<1> QED
  BY <1>1, <1>2, <1>3

-----------------------------------------------------------------------------
(* The invariant of one step *)

\* The number of the attempt, the first or the repeated one.
Attempt(x) == IF x.is_retry THEN 2 ELSE 1

\* Before its announcement an attempt has left nothing; then its event, its
\* row and its call follow one another.
Counted(x) ==
    /\ x.pc \in {"start", "ask", "grant", "announce"} =>
         /\ x.announced = Attempt(x) - 1 /\ x.called = Attempt(x) - 1
         /\ Len(x.rows) = Attempt(x) - 1
    /\ x.pc = "record" =>
         /\ x.announced = Attempt(x) /\ x.called = Attempt(x) - 1
         /\ Len(x.rows) = Attempt(x) - 1
    /\ x.pc = "call" =>
         /\ x.announced = Attempt(x) /\ x.called = Attempt(x) - 1
         /\ Len(x.rows) = Attempt(x)
    /\ x.pc \in {"reply", "settle", "report", "retry", "over"} =>
         /\ x.announced = Attempt(x) /\ x.called = Attempt(x)
         /\ Len(x.rows) = Attempt(x)
    /\ x.pc \in {"raised", "stopped"} =>
         /\ x.called <= Len(x.rows) /\ Len(x.rows) <= x.announced
         /\ x.announced <= x.called + 1 /\ x.announced <= 2

\* A row that is not the last one, or that was reported as failed, says so.
Settled(x) ==
    /\ \A i \in 1..Len(x.rows) - 1 : x.rows[i] = "failed"
    /\ x.is_retry => Len(x.rows) > 0 /\ x.rows[1] = "failed"
    /\ x.pc \in {"report", "over"} =>
         x.rows[Len(x.rows)] = IF x.ok THEN "success" ELSE "failed"
    /\ x.pc = "retry" => ~x.is_retry /\ x.rows[Len(x.rows)] = "failed"
    /\ x.pc = "start" => ~x.is_retry

\* The approvals run ahead of the rows from the announcement on.
Approved(x) ==
    NeedsApproval(x) =>
        /\ x.granted >= Len(x.rows)
        /\ x.pc \in {"announce", "record"} => x.granted > Len(x.rows)

\* A server is named by the tools that call one, and by no other.
Aimed(x) == (x.target = NoTarget) = (x.tool \notin ServerTools)

KnownOK(x) ==
    /\ x \in StepRecord /\ x.tool \in RegisteredTools
    /\ Counted(x) /\ Settled(x) /\ Approved(x) /\ Aimed(x)

\* The step of a tool that is not registered leaves nothing.
UnknownOK(x) ==
    /\ x \in StepRecord /\ x.tool \notin RegisteredTools /\ Aimed(x)
    /\ x.pc \in {"retry", "over", "raised", "stopped"}
    /\ x.announced = 0 /\ x.called = 0 /\ x.rows = <<>>

StepOK(x) == KnownOK(x) \/ UnknownOK(x)

StepsOK == \A s \in Steps : StepOK(step[s])

GatewayTyped ==
    /\ servers \in [Names -> Server \cup {NoServer}]
    /\ clients \in [Names -> Addresses \cup {NoClient}]
    /\ known \in [Names -> SUBSET Addresses]
    /\ sent \subseteq Names \X Caps \X Addresses

\* A client and an HTTP registration hold a URL this process was given.
GatewayOK ==
    /\ GatewayTyped
    /\ \A n \in Names : clients[n] # NoClient => clients[n] \in known[n]
    /\ \A n \in Names : OverHttp(n) => servers[n].url \in known[n]
    /\ SentIsRegistered

CountsOK == registrations \in Nat /\ faults \in Nat /\ crashes \in Nat

Inv == /\ step \in [Steps -> StepRecord] /\ StepsOK
       /\ GatewayOK /\ CountsOK

\* The decision depends on the tool, the environment and the creator only.
LEMMA DecisionKept ==
    ASSUME NEW x, NEW y, x.tool = y.tool, x.environment = y.environment,
           x.admin = y.admin
    PROVE  NeedsApproval(x) = NeedsApproval(y) /\ Decided(x) = Decided(y)
BY DEF NeedsApproval, Decided

\* A statement that is executed, followed by any of the places it can lead to.
LEMMA StatementKeeps ==
    ASSUME NEW x \in StepRecord, KnownOK(x), NEW to \in PC,
           \/ x.pc = "ask" /\ to = "grant"
           \/ x.pc = "grant" /\ to = "announce"
           \/ x.pc = "announce" /\ to = "record"
           \/ x.pc = "record" /\ to = "call"
           \/ x.pc = "settle" /\ to = "report"
           \/ x.pc = "report" /\ to = "over"
           \/ x.pc = "report" /\ to = "retry" /\ ~x.ok /\ ~x.is_retry
           \/ x.pc \in Awaits /\ to = "stopped"
    PROVE  KnownOK([Executed(x) EXCEPT !.pc = to])
<1> DEFINE y == Executed(x)
           z == [y EXCEPT !.pc = to]
<1>1. Len(x.rows) \in Nat /\ x.granted \in Nat /\ x.announced \in Nat /\ x.called \in Nat
  BY DEF StepRecord
<1>2. x.pc = "settle" => Len(x.rows) > 0
  BY DEF KnownOK, Counted, Attempt
<1>3. y \in StepRecord /\ z \in StepRecord
  BY <1>2, ExecutedTyped
<1>4. /\ z.pc = to /\ z.tool = x.tool /\ z.environment = x.environment
      /\ z.admin = x.admin /\ z.is_retry = x.is_retry /\ z.ok = x.ok
      /\ z.called = x.called /\ z.target = x.target
      /\ z.granted = IF x.pc = "grant" THEN x.granted + 1 ELSE x.granted
      /\ z.announced = IF x.pc = "announce" THEN x.announced + 1 ELSE x.announced
      /\ Len(z.rows) = IF x.pc = "record" THEN Len(x.rows) + 1 ELSE Len(x.rows)
      /\ \A i \in 1..Len(x.rows) :
           (x.pc = "settle" /\ i = Len(x.rows)) \/ z.rows[i] = x.rows[i]
      /\ x.pc = "settle" =>
           z.rows[Len(x.rows)] = IF x.ok THEN "success" ELSE "failed"
  <2>1. /\ z.pc = to /\ z.tool = y.tool /\ z.environment = y.environment
        /\ z.admin = y.admin /\ z.is_retry = y.is_retry /\ z.ok = y.ok
        /\ z.called = y.called /\ z.granted = y.granted
        /\ z.announced = y.announced /\ z.rows = y.rows /\ z.target = y.target
    BY <1>3 DEF StepRecord
  <2> QED
    BY <1>2, <2>1, ExecutedFields
<1> HIDE DEF y, z
<1>5. Attempt(z) = Attempt(x) /\ Attempt(x) \in 1..2 /\ (x.is_retry <=> Attempt(x) = 2)
  BY <1>4 DEF Attempt, StepRecord
<1>6. Counted(z)
  <2>1. CASE to = "stopped"
    <3>1. CASE x.pc \in {"ask", "grant", "announce"}
      <4>1. /\ x.announced = Attempt(x) - 1 /\ x.called = Attempt(x) - 1
            /\ Len(x.rows) = Attempt(x) - 1
        BY <3>1 DEF KnownOK, Counted
      <4>2. /\ z.called = Attempt(x) - 1 /\ Len(z.rows) = Attempt(x) - 1
            /\ z.announced = Attempt(x) - 1 \/ z.announced = Attempt(x)
        <5>1. /\ z.called = x.called /\ Len(z.rows) = Len(x.rows)
              /\ z.announced = x.announced \/ z.announced = x.announced + 1
          BY <1>4, <3>1
        <5> QED
          BY <1>5, <4>1, <5>1
      <4>3. /\ z.called <= Len(z.rows) /\ Len(z.rows) <= z.announced
            /\ z.announced <= z.called + 1 /\ z.announced <= 2
        BY <1>5, <4>2
      <4> QED
        BY <1>4, <2>1, <4>3 DEF Counted
    <3>2. CASE x.pc = "record"
      BY <1>1, <1>4, <1>5, <2>1, <3>2 DEF KnownOK, Counted
    <3>3. CASE x.pc \in {"settle", "report", "retry"}
      BY <1>1, <1>4, <1>5, <2>1, <3>3 DEF KnownOK, Counted
    <3> QED
      BY <2>1, <3>1, <3>2, <3>3 DEF Awaits
  <2>2. CASE to # "stopped"
    <3>1. CASE x.pc \in {"ask", "grant"}
      BY <1>1, <1>4, <1>5, <2>2, <3>1 DEF KnownOK, Counted
    <3>2. CASE x.pc = "announce"
      BY <1>1, <1>4, <1>5, <2>2, <3>2 DEF KnownOK, Counted
    <3>3. CASE x.pc = "record"
      BY <1>1, <1>4, <1>5, <2>2, <3>3 DEF KnownOK, Counted
    <3>4. CASE x.pc \in {"settle", "report"}
      BY <1>1, <1>4, <1>5, <2>2, <3>4 DEF KnownOK, Counted
    <3> QED
      BY <2>2, <3>1, <3>2, <3>3, <3>4
  <2> QED
    BY <2>1, <2>2
<1>7. Settled(z)
  <2>1. \A i \in 1..Len(z.rows) - 1 : z.rows[i] = "failed"
    BY <1>1, <1>4, <1>5 DEF KnownOK, Settled, Counted
  <2>2. ASSUME x.is_retry PROVE Len(z.rows) > 0 /\ z.rows[1] = "failed"
    <3>1. Len(x.rows) > 0 /\ x.rows[1] = "failed"
      BY <2>2 DEF KnownOK, Settled
    <3>2. x.pc = "settle" => Len(x.rows) = 2
      BY <1>5, <2>2 DEF KnownOK, Counted
    <3>3. Len(z.rows) >= Len(x.rows) /\ 1 \in 1..Len(x.rows)
      BY <1>1, <1>4, <3>1
    <3>4. (x.pc = "settle" /\ 1 = Len(x.rows)) \/ z.rows[1] = x.rows[1]
      BY <1>4, <3>3
    <3>5. x.pc # "settle" \/ 1 # Len(x.rows)
      BY <3>2
    <3>6. z.rows[1] = "failed"
      BY <3>1, <3>4, <3>5
    <3> QED
      BY <1>1, <3>1, <3>3, <3>6, <1>3 DEF StepRecord
  <2>3. to \in {"report", "over"} =>
          z.rows[Len(z.rows)] = IF z.ok THEN "success" ELSE "failed"
    <3>1. CASE x.pc = "settle"
      BY <1>4, <3>1
    <3>2. CASE x.pc = "report"
      <4>1. Len(z.rows) = Len(x.rows) /\ Len(x.rows) \in 1..Len(x.rows)
        <5>1. Len(x.rows) = Attempt(x)
          BY <3>2 DEF KnownOK, Counted
        <5> QED
          BY <1>4, <1>5, <3>2, <5>1
      <4>2. z.rows[Len(x.rows)] = x.rows[Len(x.rows)]
        BY <1>4, <3>2, <4>1
      <4>3. x.rows[Len(x.rows)] = IF x.ok THEN "success" ELSE "failed"
        BY <3>2 DEF KnownOK, Settled
      <4> QED
        BY <1>4, <4>1, <4>2, <4>3
    <3> QED
      BY <3>1, <3>2
  <2>4. to = "retry" => ~z.is_retry /\ z.rows[Len(z.rows)] = "failed"
    BY <1>1, <1>4, <1>5 DEF KnownOK, Settled, Counted, Awaits
  <2> QED
    BY <1>4, <2>1, <2>2, <2>3, <2>4 DEF Settled
<1>8. Approved(z)
  <2>1. NeedsApproval(z) = NeedsApproval(x) /\ Decided(z) = Decided(x)
    BY <1>4, DecisionKept
  <2>2. ASSUME NeedsApproval(x)
        PROVE  /\ z.granted >= Len(z.rows)
               /\ to \in {"announce", "record"} => z.granted > Len(z.rows)
    BY <1>1, <1>4, <1>5, <2>2 DEF KnownOK, Approved
  <2> QED
    BY <1>4, <2>1, <2>2 DEF Approved
<1>9. Aimed(z)
  BY <1>4 DEF KnownOK, Aimed
<1>10. z.tool \in RegisteredTools
  BY <1>4 DEF KnownOK
<1>11. KnownOK(z)
  BY <1>3, <1>6, <1>7, <1>8, <1>9, <1>10 DEF KnownOK
<1> QED
  BY <1>11 DEF z, y

\* Wherever a step is, its calls, rows and announcements follow one another.
LEMMA CountedBounds ==
    ASSUME NEW x \in StepRecord, KnownOK(x)
    PROVE  /\ x.called <= Len(x.rows) /\ Len(x.rows) <= x.announced
           /\ x.announced <= x.called + 1 /\ x.announced <= 2
<1>1. Attempt(x) \in 1..2
  BY DEF Attempt
<1>2. CASE x.pc \in {"start", "ask", "grant", "announce"}
  BY <1>1, <1>2 DEF KnownOK, Counted
<1>3. CASE x.pc \in {"record", "call"}
  BY <1>1, <1>3 DEF KnownOK, Counted
<1>4. CASE x.pc \in {"reply", "settle", "report", "retry", "over"}
  BY <1>1, <1>4 DEF KnownOK, Counted
<1>5. CASE x.pc \in {"raised", "stopped"}
  BY <1>5 DEF KnownOK, Counted
<1> QED
  BY <1>2, <1>3, <1>4, <1>5 DEF StepRecord, PC, Awaits, Ended

\* What ends a step from outside leaves its records as they are.
LEMMA HaltKeeps ==
    ASSUME NEW x \in StepRecord, KnownOK(x), NEW to \in {"raised", "stopped"}
    PROVE  KnownOK([x EXCEPT !.pc = to])
<1> DEFINE z == [x EXCEPT !.pc = to]
<1>1. /\ z \in StepRecord /\ z.pc = to /\ z.rows = x.rows
      /\ z.announced = x.announced /\ z.called = x.called
      /\ z.granted = x.granted /\ z.is_retry = x.is_retry /\ z.ok = x.ok
      /\ z.tool = x.tool /\ z.environment = x.environment /\ z.admin = x.admin
      /\ z.target = x.target
  BY DEF StepRecord, PC, Ended
<1> HIDE DEF z
<1>2. Counted(z)
  <2>1. /\ x.called <= Len(x.rows) /\ Len(x.rows) <= x.announced
        /\ x.announced <= x.called + 1 /\ x.announced <= 2
    BY CountedBounds
  <2> QED
    BY <1>1, <2>1 DEF Counted
<1>3. Settled(z)
  BY <1>1 DEF KnownOK, Settled
<1>4. Approved(z)
  <2>1. NeedsApproval(z) = NeedsApproval(x)
    BY <1>1, DecisionKept
  <2> QED
    BY <1>1, <2>1 DEF KnownOK, Approved
<1>5. Aimed(z)
  BY <1>1 DEF KnownOK, Aimed
<1> QED
  BY <1>1, <1>2, <1>3, <1>4, <1>5 DEF KnownOK, z

\* A step that is stopped, the statement under way executed or not.
LEMMA StoppedKeeps ==
    ASSUME NEW x \in StepRecord, KnownOK(x), x.pc \notin Ended \cup {"start"},
           NEW y \in Stopped(x)
    PROVE  KnownOK(y)
<1>1. CASE y = [x EXCEPT !.pc = "stopped"]
  BY <1>1, HaltKeeps
<1>2. CASE y = [Executed(x) EXCEPT !.pc = "stopped"]
  <2>1. CASE x.pc \in Awaits
    <3>1. "stopped" \in PC
      BY DEF PC, Ended
    <3> QED
      BY <1>2, <2>1, <3>1, StatementKeeps
  <2>2. CASE x.pc \in {"call", "reply"}
    <3>1. Executed(x) = x
      BY <2>2 DEF Executed
    <3> QED
      BY <1>2, <3>1, HaltKeeps
  <2> QED
    BY <2>1, <2>2 DEF StepRecord, PC
<1> QED
  BY <1>1, <1>2 DEF Stopped

\* The call is made, and perhaps answered at once.
LEMMA CallKeeps ==
    ASSUME NEW x \in StepRecord, KnownOK(x), x.pc = "call",
           NEW to \in {"reply", "settle"}, NEW ok \in BOOLEAN
    PROVE  KnownOK([x EXCEPT !.pc = to, !.called = @ + 1, !.ok = ok])
<1> DEFINE z == [x EXCEPT !.pc = to, !.called = @ + 1, !.ok = ok]
<1>1. /\ z \in StepRecord /\ z.pc = to /\ z.rows = x.rows
      /\ z.announced = x.announced /\ z.called = x.called + 1
      /\ z.granted = x.granted /\ z.is_retry = x.is_retry
      /\ z.tool = x.tool /\ z.environment = x.environment /\ z.admin = x.admin
      /\ z.target = x.target
  <2> DEFINE called == x.called + 1
  <2>1. called \in Nat
    BY DEF StepRecord
  <2>2. z = [x EXCEPT !.pc = to, !.called = called, !.ok = ok]
    BY DEF StepRecord
  <2> HIDE DEF called
  <2>3. /\ z \in StepRecord /\ z.pc = to /\ z.rows = x.rows
        /\ z.announced = x.announced /\ z.called = called
        /\ z.granted = x.granted /\ z.is_retry = x.is_retry
        /\ z.tool = x.tool /\ z.environment = x.environment /\ z.admin = x.admin
        /\ z.target = x.target
    BY <2>1, <2>2 DEF StepRecord, PC, Awaits
  <2> QED
    BY <2>3 DEF called
<1> HIDE DEF z
<1>2. Counted(z)
  <2>1. Attempt(z) = Attempt(x) /\ Attempt(x) \in 1..2
    BY <1>1 DEF Attempt
  <2>2. /\ x.announced = Attempt(x) /\ x.called = Attempt(x) - 1
        /\ Len(x.rows) = Attempt(x)
    BY DEF KnownOK, Counted
  <2>3. /\ z.announced = Attempt(z) /\ z.called = Attempt(z)
        /\ Len(z.rows) = Attempt(z)
    BY <1>1, <2>1, <2>2
  <2> QED
    BY <1>1, <2>3 DEF Counted
<1>3. Settled(z)
  BY <1>1 DEF KnownOK, Settled
<1>4. Approved(z)
  <2>1. NeedsApproval(z) = NeedsApproval(x)
    BY <1>1, DecisionKept
  <2> QED
    BY <1>1, <2>1 DEF KnownOK, Approved
<1>5. Aimed(z)
  BY <1>1 DEF KnownOK, Aimed
<1> QED
  BY <1>1, <1>2, <1>3, <1>4, <1>5 DEF KnownOK, z

\* The tool answers.
LEMMA ReplyKeeps ==
    ASSUME NEW x \in StepRecord, KnownOK(x), x.pc = "reply", NEW ok \in BOOLEAN
    PROVE  KnownOK([x EXCEPT !.pc = "settle", !.ok = ok])
<1> DEFINE z == [x EXCEPT !.pc = "settle", !.ok = ok]
<1>1. /\ z \in StepRecord /\ z.pc = "settle" /\ z.rows = x.rows
      /\ z.announced = x.announced /\ z.called = x.called
      /\ z.granted = x.granted /\ z.is_retry = x.is_retry
      /\ z.tool = x.tool /\ z.environment = x.environment /\ z.admin = x.admin
      /\ z.target = x.target
  BY DEF StepRecord, PC, Awaits
<1> HIDE DEF z
<1>2. Counted(z) /\ Settled(z)
  BY <1>1 DEF KnownOK, Counted, Settled, Attempt
<1>3. Approved(z)
  <2>1. NeedsApproval(z) = NeedsApproval(x)
    BY <1>1, DecisionKept
  <2> QED
    BY <1>1, <2>1 DEF KnownOK, Approved
<1>4. Aimed(z)
  BY <1>1 DEF KnownOK, Aimed
<1> QED
  BY <1>1, <1>2, <1>3, <1>4 DEF KnownOK, z

\* A failed first attempt begins again.
LEMMA RetryKeeps ==
    ASSUME NEW x \in StepRecord, KnownOK(x), x.pc = "retry"
    PROVE  LET y == [x EXCEPT !.is_retry = TRUE]
           IN  \A to \in Starts(y) : KnownOK([y EXCEPT !.pc = to])
<1> DEFINE y == [x EXCEPT !.is_retry = TRUE]
<1>1. /\ y \in StepRecord /\ y.rows = x.rows /\ y.is_retry
      /\ y.announced = x.announced /\ y.called = x.called
      /\ y.granted = x.granted /\ y.ok = x.ok
      /\ y.tool = x.tool /\ y.environment = x.environment /\ y.admin = x.admin
      /\ y.target = x.target
  BY DEF StepRecord
<1> HIDE DEF y
<1> SUFFICES ASSUME NEW to \in Starts(y) PROVE KnownOK([y EXCEPT !.pc = to])
  BY DEF y
<1> DEFINE z == [y EXCEPT !.pc = to]
<1>2. to \in {"ask", "announce"} /\ (NeedsApproval(y) => to = "ask")
  BY <1>1 DEF KnownOK, Starts, Decided
<1>3. /\ z \in StepRecord /\ z.pc = to /\ z.rows = x.rows
      /\ z.announced = x.announced /\ z.called = x.called
      /\ z.granted = x.granted /\ z.is_retry /\ z.ok = x.ok
      /\ z.tool = x.tool /\ z.environment = x.environment /\ z.admin = x.admin
      /\ z.target = x.target
  BY <1>1, <1>2 DEF StepRecord, PC, Awaits
<1> HIDE DEF z
<1>4. /\ x.announced = 1 /\ x.called = 1 /\ Len(x.rows) = 1
      /\ ~x.is_retry /\ x.rows[1] = "failed"
  BY DEF KnownOK, Counted, Settled, Attempt
<1>5. Counted(z)
  BY <1>2, <1>3, <1>4 DEF Counted, Attempt
<1>6. Settled(z)
  BY <1>2, <1>3, <1>4 DEF Settled
<1>7. Approved(z)
  <2>1. NeedsApproval(z) = NeedsApproval(x) /\ NeedsApproval(z) = NeedsApproval(y)
    BY <1>1, <1>3, DecisionKept
  <2> QED
    BY <1>2, <1>3, <2>1 DEF KnownOK, Approved
<1>8. Aimed(z)
  BY <1>3 DEF KnownOK, Aimed
<1> QED
  BY <1>3, <1>5, <1>6, <1>7, <1>8 DEF KnownOK, z

\* A step is begun with its tool, its task and, for an MCP tool, its server.
LEMMA BeginKeeps ==
    ASSUME NEW x \in StepRecord, StepOK(x), x.pc = "start",
           NEW tool \in Tools, NEW e \in Environments,
           NEW a \in BOOLEAN, NEW t \in Target \cup {NoTarget},
           (t = NoTarget) = (tool \notin ServerTools)
    PROVE  LET y == [x EXCEPT !.tool = tool, !.environment = e,
                              !.admin = a, !.target = t]
           IN  \A to \in Starts(y) : StepOK([y EXCEPT !.pc = to])
<1> DEFINE y == [x EXCEPT !.tool = tool, !.environment = e,
                          !.admin = a, !.target = t]
<1>1. /\ y \in StepRecord /\ y.rows = x.rows /\ y.tool = tool /\ y.target = t
      /\ y.announced = x.announced /\ y.called = x.called
      /\ y.granted = x.granted /\ y.is_retry = x.is_retry
  BY DEF StepRecord
<1> HIDE DEF y
<1> SUFFICES ASSUME NEW to \in Starts(y) PROVE StepOK([y EXCEPT !.pc = to])
  BY DEF y
<1> DEFINE z == [y EXCEPT !.pc = to]
<1>2. /\ x.announced = 0 /\ x.called = 0 /\ Len(x.rows) = 0
      /\ ~x.is_retry /\ x.granted \in Nat
  BY DEF StepOK, UnknownOK, KnownOK, Counted, Settled, Attempt, StepRecord
<1>3. to \in {"ask", "announce", "retry", "over"}
  BY DEF Starts, Decided
<1>4. /\ z \in StepRecord /\ z.pc = to /\ z.rows = x.rows
      /\ z.announced = x.announced /\ z.called = x.called
      /\ z.granted = x.granted /\ z.is_retry = x.is_retry
      /\ z.tool = y.tool /\ z.environment = y.environment /\ z.admin = y.admin
      /\ z.target = y.target
  BY <1>1, <1>3 DEF StepRecord, PC, Awaits, Ended
<1> HIDE DEF z
<1>5. Aimed(z)
  BY <1>1, <1>4 DEF Aimed
<1>6. CASE tool \in RegisteredTools
  <2>1. to \in {"ask", "announce"} /\ (NeedsApproval(y) => to = "ask")
    BY <1>1, <1>6 DEF Starts, Decided
  <2>2. Counted(z)
    BY <1>2, <1>4, <2>1 DEF Counted, Attempt
  <2>3. Settled(z)
    BY <1>2, <1>4, <2>1 DEF Settled
  <2>4. Approved(z)
    <3>1. NeedsApproval(z) = NeedsApproval(y)
      BY <1>4, DecisionKept
    <3> QED
      BY <1>2, <1>4, <2>1, <3>1 DEF Approved
  <2> QED
    BY <1>1, <1>4, <1>5, <1>6, <2>2, <2>3, <2>4 DEF KnownOK, StepOK, z
<1>7. CASE tool \notin RegisteredTools
  <2>1. to \in {"retry", "over"}
    BY <1>1, <1>7 DEF Starts
  <2>2. x.rows = <<>>
    BY <1>2 DEF StepRecord
  <2> QED
    BY <1>1, <1>2, <1>4, <1>5, <1>7, <2>1, <2>2 DEF UnknownOK, StepOK, z
<1> QED
  BY <1>6, <1>7

\* The step of a tool that is not registered, from its failure on.
LEMMA UnknownKeeps ==
    ASSUME NEW x \in StepRecord, UnknownOK(x), NEW retry \in BOOLEAN,
           NEW to \in {"over", "raised", "stopped"}
    PROVE  UnknownOK([x EXCEPT !.is_retry = retry, !.pc = to])
<1> DEFINE z == [x EXCEPT !.is_retry = retry, !.pc = to]
<1>1. /\ z \in StepRecord /\ z.pc = to /\ z.rows = x.rows
      /\ z.announced = x.announced /\ z.called = x.called
      /\ z.tool = x.tool /\ z.target = x.target
  BY DEF StepRecord, PC, Ended
<1> HIDE DEF z
<1> QED
  BY <1>1 DEF UnknownOK, Aimed, z

\* A step of either kind that is ended from outside.
LEMMA EitherHalts ==
    ASSUME NEW x \in StepRecord, StepOK(x), NEW to \in {"raised", "stopped"}
    PROVE  StepOK([x EXCEPT !.pc = to])
<1>1. CASE KnownOK(x)
  BY <1>1, HaltKeeps DEF StepOK
<1>2. CASE UnknownOK(x)
  <2>1. [x EXCEPT !.is_retry = x.is_retry, !.pc = to] = [x EXCEPT !.pc = to]
    BY DEF StepRecord
  <2>2. x.is_retry \in BOOLEAN
    BY DEF StepRecord
  <2>3. UnknownOK([x EXCEPT !.is_retry = x.is_retry, !.pc = to])
    BY <1>2, <2>2, UnknownKeeps
  <2> QED
    BY <2>1, <2>3 DEF StepOK
<1> QED
  BY <1>1, <1>2 DEF StepOK

LEMMA EitherStops ==
    ASSUME NEW x \in StepRecord, StepOK(x), x.pc \notin Ended \cup {"start"},
           NEW y \in Stopped(x)
    PROVE  StepOK(y)
<1>1. CASE KnownOK(x)
  BY <1>1, StoppedKeeps DEF StepOK
<1>2. CASE UnknownOK(x)
  <2>1. Executed(x) = x
    BY <1>2 DEF UnknownOK, Executed
  <2> QED
    BY <2>1, EitherHalts DEF Stopped
<1> QED
  BY <1>1, <1>2 DEF StepOK

-----------------------------------------------------------------------------
(* Lemmas about the gateway *)

\* A name reached over HTTP is registered, and its client has a known URL.
LEMMA ClientIsKnown ==
    ASSUME GatewayOK, NEW n \in Names, OverHttp(n)
    PROVE  /\ servers[n] # NoServer
           /\ ClientUrl(n) \in known[n] /\ ClientUrl(n) \in Addresses
<1>1. servers[n] # NoServer
  BY DEF OverHttp, NoServer
<1>2. ClientUrl(n) \in known[n]
  BY DEF GatewayOK, ClientUrl
<1> QED
  BY <1>1, <1>2 DEF GatewayOK, GatewayTyped

LEMMA GetKeeps ==
    ASSUME GatewayOK, NEW n \in Names, Get(n)
    PROVE  GatewayOK'
<1>1. ClientUrl(n) \in known[n] /\ ClientUrl(n) \in Addresses
  BY ClientIsKnown DEF Get
<1>2. GatewayTyped'
  BY <1>1 DEF Get, GatewayOK, GatewayTyped
<1>3. (\A m \in Names : clients[m] # NoClient => clients[m] \in known[m])'
  BY <1>1 DEF Get, GatewayOK, GatewayTyped
<1>4. (\A m \in Names : OverHttp(m) => servers[m].url \in known[m])'
  BY DEF Get, GatewayOK, OverHttp
<1>5. SentIsRegistered'
  BY DEF Get, GatewayOK, SentIsRegistered
<1> QED
  BY <1>2, <1>3, <1>4, <1>5 DEF GatewayOK

LEMMA PostKeeps ==
    ASSUME GatewayOK, NEW t \in Target, Post(t)
    PROVE  GatewayOK'
<1> DEFINE n == t.server
           url == ClientUrl(n)
<1>1. n \in Names /\ t.cap \in Caps
  BY DEF Target
<1>2. servers[n] # NoServer /\ url \in known[n] /\ url \in Addresses
  BY <1>1, ClientIsKnown DEF Post
<1>3. /\ clients' = [clients EXCEPT ![n] = url]
      /\ sent' = sent \cup {<<n, t.cap, url>>}
      /\ servers' = servers /\ known' = known
      /\ t.cap \in servers[n].capabilities
  BY DEF Post, Permitted
<1> HIDE DEF n, url
<1>4. GatewayTyped'
  BY <1>1, <1>2, <1>3 DEF GatewayOK, GatewayTyped
<1>5. (\A m \in Names : clients[m] # NoClient => clients[m] \in known[m])'
  BY <1>1, <1>2, <1>3 DEF GatewayOK, GatewayTyped
<1>6. (\A m \in Names : OverHttp(m) => servers[m].url \in known[m])'
  BY <1>3 DEF GatewayOK, OverHttp
<1>7. SentIsRegistered'
  BY <1>1, <1>2, <1>3 DEF GatewayOK, SentIsRegistered
<1> QED
  BY <1>4, <1>5, <1>6, <1>7 DEF GatewayOK

LEMMA RegisterKeeps ==
    ASSUME GatewayOK, NEW n \in Names, Register(n)
    PROVE  GatewayOK'
<1>1. PICK server \in Server :
        /\ servers' = [servers EXCEPT ![n] = server]
        /\ known' = [known EXCEPT ![n] = @ \cup {server.url}]
  BY DEF Register
<1>2. clients' = clients /\ sent' = {call \in sent : call[1] # n}
  BY DEF Register
<1>3. server.url \in Addresses
  BY DEF Server
<1>4. GatewayTyped'
  BY <1>1, <1>2, <1>3 DEF GatewayOK, GatewayTyped
<1>5. \A m \in Names : known[m] \subseteq known'[m]
  BY <1>1 DEF GatewayOK, GatewayTyped
<1>6. (\A m \in Names : clients[m] # NoClient => clients[m] \in known[m])'
  BY <1>2, <1>5 DEF GatewayOK
<1>7. (\A m \in Names : OverHttp(m) => servers[m].url \in known[m])'
  BY <1>1, <1>5 DEF GatewayOK, GatewayTyped, OverHttp
<1>8. SentIsRegistered'
  <2> SUFFICES ASSUME NEW call \in sent'
               PROVE  /\ servers'[call[1]] # NoServer
                      /\ call[2] \in servers'[call[1]].capabilities
                      /\ call[3] \in known'[call[1]]
    BY DEF SentIsRegistered
  <2>1. call \in sent /\ call[1] # n /\ call[1] \in Names
    BY <1>2 DEF GatewayOK, GatewayTyped
  <2>2. servers'[call[1]] = servers[call[1]] /\ known'[call[1]] = known[call[1]]
    BY <1>1, <2>1 DEF GatewayOK, GatewayTyped
  <2> QED
    BY <2>1, <2>2 DEF GatewayOK, SentIsRegistered
<1> QED
  BY <1>4, <1>6, <1>7, <1>8 DEF GatewayOK

Fresh == /\ servers = DefaultServers
         /\ clients = [n \in Names |-> NoClient]
         /\ known = [n \in Names |-> {}]
         /\ sent = {}

\* A process starts with a server that is not reached over HTTP.
LEMMA FreshGateway ==
    Fresh => GatewayOK
<1> SUFFICES ASSUME Fresh PROVE GatewayOK
  OBVIOUS
<1> USE DEF Fresh
<1>1. DefaultServers \in [Names -> Server \cup {NoServer}]
  <2> SUFFICES ASSUME NEW n \in Names
               PROVE  DefaultServers[n] \in Server \cup {NoServer}
    BY DEF DefaultServers
  <2> DEFINE a == CHOOSE a \in AddressesOf[n] : TRUE
  <2>1. a \in Addresses
    BY AddressesAssumption DEF Addresses
  <2> HIDE DEF a
  <2>2. [transport |-> "stdio", permissions |-> Perms \cap {"file_access"},
         capabilities |-> Caps \cap {"read_file", "write_file", "list_directory"},
         url |-> a] \in Server
    BY <2>1 DEF Server
  <2> QED
    BY <2>2 DEF DefaultServers, a
<1>2. \A n \in Names : DefaultServers[n].transport # "http"
  BY DEF DefaultServers, NoServer
<1> QED
  BY <1>1, <1>2 DEF GatewayOK, GatewayTyped, OverHttp, SentIsRegistered

-----------------------------------------------------------------------------
(* The invariant holds *)

LEMMA InitInv == Init => Inv
<1> SUFFICES ASSUME Init PROVE Inv
  OBVIOUS
<1>1. FreshStep \in StepRecord /\ StepOK(FreshStep)
  <2>1. "mock.analyze" \in RegisteredTools /\ "test" \in Environments
    BY DEF RegisteredTools, Environments
  <2>2. FreshStep \in StepRecord
    BY <2>1 DEF FreshStep, StepRecord, PC
  <2>3. Counted(FreshStep) /\ Settled(FreshStep)
    BY DEF FreshStep, Counted, Settled, Attempt
  <2>4. Approved(FreshStep) /\ Aimed(FreshStep)
    BY DEF FreshStep, Approved, Aimed, ServerTools
  <2>5. FreshStep.tool \in RegisteredTools
    BY <2>1 DEF FreshStep
  <2> QED
    BY <2>2, <2>3, <2>4, <2>5 DEF StepOK, KnownOK
<1>2. step \in [Steps -> StepRecord] /\ StepsOK
  BY <1>1 DEF Init, StepsOK
<1>3. GatewayOK
  BY FreshGateway DEF Init, Fresh
<1> QED
  BY <1>2, <1>3 DEF Init, Inv, CountsOK

\* One step's record changes, to a good one.
LEMMA StepMoves ==
    ASSUME Inv, NEW s \in Steps, NEW z, StepOK(z),
           step' = [step EXCEPT ![s] = z]
    PROVE  step' \in [Steps -> StepRecord] /\ StepsOK'
<1>1. z \in StepRecord
  BY DEF StepOK, KnownOK, UnknownOK
<1>2. \A r \in Steps : step'[r] = IF r = s THEN z ELSE step[r]
  BY DEF Inv
<1> QED
  BY <1>1, <1>2 DEF Inv, StepsOK

\* What each action leaves alone, and what it makes of a step.
LEMMA NextInv == Inv /\ [Next]_vars => Inv'
<1> SUFFICES ASSUME Inv, [Next]_vars PROVE Inv'
  OBVIOUS
<1>g. ASSUME UNCHANGED gateway PROVE GatewayOK'
  BY <1>g DEF gateway, Inv, GatewayOK, GatewayTyped, OverHttp, SentIsRegistered
<1>c. ASSUME UNCHANGED counts PROVE CountsOK'
  BY <1>c DEF counts, Inv, CountsOK
<1>s. ASSUME NEW s \in Steps PROVE step[s] \in StepRecord /\ StepOK(step[s])
  BY <1>s DEF Inv, StepsOK
<1>1. ASSUME NEW s \in Steps, Begin(s) PROVE Inv'
  <2>1. PICK tool \in Tools, e \in StepEnvironments, a \in AdminChoices,
             t \in Target \cup {NoTarget} :
          LET x == [step[s] EXCEPT !.tool = tool, !.environment = e,
                                   !.admin = a, !.target = t]
          IN  /\ (t = NoTarget) = (tool \notin ServerTools)
              /\ \E to \in Starts(x) :
                   step' = [step EXCEPT ![s] = [x EXCEPT !.pc = to]]
    BY <1>1, Zenon DEF Begin
  <2>2. e \in Environments /\ a \in BOOLEAN
    BY EnvironmentsAssumption
  <2> DEFINE x == [step[s] EXCEPT !.tool = tool, !.environment = e,
                                  !.admin = a, !.target = t]
  <2>3. PICK to \in Starts(x) : step' = [step EXCEPT ![s] = [x EXCEPT !.pc = to]]
    BY <2>1
  <2> DEFINE z == [x EXCEPT !.pc = to]
  <2>4. StepOK(z)
    BY <1>1, <1>s, <2>1, <2>2, BeginKeeps DEF Begin
  <2> HIDE DEF z
  <2>5. step' \in [Steps -> StepRecord] /\ StepsOK'
    BY <2>3, <2>4, StepMoves DEF z
  <2> QED
    BY <1>1, <1>g, <1>c, <2>5 DEF Begin, Inv
<1>2. ASSUME NEW s \in Steps, NEW from, NEW to \in PC, Statement(s, from, to),
             \/ from = "ask" /\ to = "grant"
             \/ from = "grant" /\ to = "announce"
             \/ from = "announce" /\ to = "record"
             \/ from = "record" /\ to = "call"
             \/ from = "settle" /\ to = "report"
             \/ from = "report" /\ to = "over"
             \/ from = "report" /\ to = "retry" /\ ~step[s].ok /\ ~step[s].is_retry
      PROVE  Inv'
  <2> DEFINE z == [Executed(step[s]) EXCEPT !.pc = to]
  <2>1. step[s].pc = from /\ step' = [step EXCEPT ![s] = z]
    BY <1>2 DEF Statement
  <2>2. StepOK(z)
    <3>1. KnownOK(step[s])
      BY <1>2, <1>s, <2>1 DEF StepOK, UnknownOK
    <3> QED
      BY <1>2, <1>s, <2>1, <3>1, StatementKeeps DEF StepOK
  <2> HIDE DEF z
  <2>3. step' \in [Steps -> StepRecord] /\ StepsOK'
    BY <2>1, <2>2, StepMoves
  <2> QED
    BY <1>2, <1>g, <1>c, <2>3 DEF Statement, Inv
<1>3. ASSUME NEW s \in Steps, Call(s) PROVE Inv'
  <2>1. step[s].pc = "call" /\ KnownOK(step[s])
    BY <1>3, <1>s DEF Call, StepOK, UnknownOK
  <2>2. ASSUME Wait(s) PROVE step' \in [Steps -> StepRecord] /\ StepsOK'
    <3> DEFINE z == [step[s] EXCEPT !.pc = "reply", !.called = @ + 1,
                                    !.ok = step[s].ok]
    <3>1. StepOK(z)
      BY <1>s, <2>1, CallKeeps DEF StepRecord, StepOK
    <3>2. z = [step[s] EXCEPT !.pc = "reply", !.called = @ + 1]
      BY <1>s DEF StepRecord
    <3>3. step' = [step EXCEPT ![s] = z]
      BY <2>2, <3>2 DEF Wait, Inv
    <3> HIDE DEF z
    <3> QED
      BY <3>1, <3>3, StepMoves
  <2>3. ASSUME NEW ok \in BOOLEAN, Answer(s, ok)
        PROVE  step' \in [Steps -> StepRecord] /\ StepsOK'
    <3> DEFINE z == [step[s] EXCEPT !.pc = "settle", !.called = @ + 1, !.ok = ok]
    <3>1. StepOK(z)
      BY <1>s, <2>1, CallKeeps DEF StepOK
    <3>2. step' = [step EXCEPT ![s] = z]
      BY <2>3 DEF Answer, Inv
    <3> HIDE DEF z
    <3> QED
      BY <3>1, <3>2, StepMoves
  <2>4. /\ Wait(s) \/ (\E ok \in BOOLEAN : Answer(s, ok))
        /\ GatewayOK'
    <3>1. CASE step[s].target = NoTarget /\ Wait(s) /\ UNCHANGED gateway
      BY <1>g, <3>1
    <3>2. CASE step[s].tool = "mcp.call_tool" /\ CallServer(s)
      <4>1. step[s].target \in Target
        BY <1>s, <2>1, <3>2 DEF KnownOK, StepRecord, Aimed, ServerTools
      <4>2. CASE Post(step[s].target) /\ Wait(s)
        BY <4>1, <4>2, PostKeeps DEF Inv
      <4>3. CASE \E ok \in BOOLEAN : Answer(s, ok)
        BY <1>g, <4>3 DEF Answer
      <4> QED
        BY <3>2, <4>2, <4>3 DEF CallServer
    <3>3. CASE step[s].tool = "mcp.list_tools" /\ ListServer(s)
      <4>1. step[s].target \in Target
        BY <1>s, <2>1, <3>3 DEF KnownOK, StepRecord, Aimed, ServerTools
      <4>2. CASE Get(step[s].target.server) /\ Wait(s)
        BY <4>1, <4>2, GetKeeps DEF Inv, Target
      <4>3. CASE Answer(s, TRUE)
        BY <1>g, <4>3 DEF Answer
      <4> QED
        BY <3>3, <4>2, <4>3 DEF ListServer
    <3> QED
      BY <1>3, <3>1, <3>2, <3>3 DEF Call
  <2>5. UNCHANGED counts
    BY <2>4 DEF Wait, Answer
  <2> QED
    BY <1>c, <2>2, <2>3, <2>4, <2>5 DEF Inv
<1>4. ASSUME NEW s \in Steps, Reply(s) PROVE Inv'
  <2>1. PICK ok \in BOOLEAN :
          step' = [step EXCEPT ![s].pc = "settle", ![s].ok = ok]
    BY <1>4 DEF Reply
  <2> DEFINE z == [step[s] EXCEPT !.pc = "settle", !.ok = ok]
  <2>2. StepOK(z)
    BY <1>4, <1>s, ReplyKeeps DEF Reply, StepOK, UnknownOK
  <2>3. step' = [step EXCEPT ![s] = z]
    BY <2>1 DEF Inv
  <2> HIDE DEF z
  <2>4. step' \in [Steps -> StepRecord] /\ StepsOK'
    BY <2>2, <2>3, StepMoves
  <2> QED
    BY <1>4, <1>g, <1>c, <2>4 DEF Reply, Inv
<1>5. ASSUME NEW s \in Steps, Retry(s) PROVE Inv'
  <2> DEFINE x == [step[s] EXCEPT !.is_retry = TRUE]
  <2>1. PICK to \in Starts(x) : step' = [step EXCEPT ![s] = [x EXCEPT !.pc = to]]
    BY <1>5 DEF Retry
  <2>2. ASSUME KnownOK(step[s]) PROVE StepOK([x EXCEPT !.pc = to])
    BY <1>5, <1>s, <2>2, RetryKeeps DEF Retry, StepOK
  <2>3. ASSUME UnknownOK(step[s]) PROVE StepOK([x EXCEPT !.pc = to])
    <3>1. x.is_retry /\ x.tool \notin RegisteredTools
      BY <1>s, <2>3 DEF UnknownOK, StepRecord
    <3>2. to = "over"
      BY <3>1 DEF Starts
    <3>3. [x EXCEPT !.pc = to] = [step[s] EXCEPT !.is_retry = TRUE, !.pc = to]
      BY <1>s DEF StepRecord
    <3>4. UnknownOK([step[s] EXCEPT !.is_retry = TRUE, !.pc = to])
      BY <1>s, <2>3, <3>2, UnknownKeeps
    <3> QED
      BY <3>3, <3>4 DEF StepOK
  <2> DEFINE z == [x EXCEPT !.pc = to]
  <2>4. StepOK(z)
    BY <1>s, <2>2, <2>3 DEF StepOK
  <2> HIDE DEF z
  <2>5. step' \in [Steps -> StepRecord] /\ StepsOK'
    BY <2>1, <2>4, StepMoves DEF z
  <2> QED
    BY <1>5, <1>g, <1>c, <2>5 DEF Retry, Inv
<1>6. ASSUME NEW s \in Steps, Proceed(s) PROVE Inv'
  <2>1. {"ask", "grant", "announce", "record", "call", "settle", "report",
         "over", "retry"} \subseteq PC
    BY DEF PC, Awaits, Ended
  <2>2. CASE Ask(s)
    BY <1>2, <2>1, <2>2 DEF Ask
  <2>3. CASE Grant(s)
    BY <1>2, <2>1, <2>3 DEF Grant
  <2>4. CASE Announce(s)
    BY <1>2, <2>1, <2>4 DEF Announce
  <2>5. CASE Record(s)
    BY <1>2, <2>1, <2>5 DEF Record
  <2>6. CASE Settle(s)
    BY <1>2, <2>1, <2>6 DEF Settle
  <2>7. CASE Report(s)
    <3>1. CASE Statement(s, "report", "over")
      BY <1>2, <2>1, <3>1
    <3>2. CASE ~step[s].ok /\ ~step[s].is_retry /\ Statement(s, "report", "retry")
      BY <1>2, <2>1, <3>2
    <3> QED
      BY <2>7, <3>1, <3>2 DEF Report
  <2> QED
    BY <1>3, <1>4, <1>5, <1>6, <2>2, <2>3, <2>4, <2>5, <2>6, <2>7 DEF Proceed
<1>7. ASSUME NEW s \in Steps, Raise(s) PROVE Inv'
  <2> DEFINE z == [step[s] EXCEPT !.pc = "raised"]
  <2>1. StepOK(z)
    BY <1>s, EitherHalts
  <2>2. step' = [step EXCEPT ![s] = z]
    BY <1>7 DEF Raise, Inv
  <2> HIDE DEF z
  <2>3. step' \in [Steps -> StepRecord] /\ StepsOK'
    BY <2>1, <2>2, StepMoves
  <2>4. CountsOK'
    BY <1>7 DEF Raise, Inv, CountsOK
  <2> QED
    BY <1>7, <1>g, <2>3, <2>4 DEF Raise, Inv
<1>8. ASSUME NEW s \in Steps, Stop(s) PROVE Inv'
  <2>1. PICK y \in Stopped(step[s]) : step' = [step EXCEPT ![s] = y]
    BY <1>8 DEF Stop
  <2>2. StepOK(y)
    BY <1>8, <1>s, EitherStops DEF Stop
  <2>3. step' \in [Steps -> StepRecord] /\ StepsOK'
    BY <2>1, <2>2, StepMoves
  <2> QED
    BY <1>8, <1>g, <1>c, <2>3 DEF Stop, Inv
<1>9. ASSUME NEW n \in Names, Register(n) PROVE Inv'
  <2>1. GatewayOK'
    BY <1>9, RegisterKeeps DEF Inv
  <2>2. CountsOK'
    BY <1>9 DEF Register, Inv, CountsOK
  <2> QED
    BY <1>9, <2>1, <2>2 DEF Register, Inv, StepsOK
<1>10. ASSUME Route PROVE Inv'
  <2>1. GatewayOK'
    BY <1>10, PostKeeps, GetKeeps DEF Route, Inv
  <2> QED
    BY <1>10, <1>c, <2>1 DEF Route, Inv, StepsOK
<1>11. ASSUME Crash PROVE Inv'
  <2>1. GatewayOK'
    <3>1. Fresh'
      BY <1>11 DEF Crash, Fresh, DefaultServers
    <3>2. Fresh' => GatewayOK'
      BY FreshGateway, PTL
    <3> QED
      BY <3>1, <3>2
  <2>2. \A s \in Steps :
          \/ step'[s] = step[s]
          \/ step[s].pc \notin Ended \cup {"start"} /\ step'[s] \in Stopped(step[s])
    BY <1>11 DEF Crash
  <2>3. \A s \in Steps : StepOK(step'[s])
    BY <1>s, <2>2, EitherStops
  <2>4. step' = [s \in Steps |-> step'[s]]
    BY <1>11 DEF Crash
  <2>5. step' \in [Steps -> StepRecord] /\ StepsOK'
    BY <2>3, <2>4 DEF StepOK, KnownOK, UnknownOK, StepsOK
  <2>6. CountsOK'
    BY <1>11 DEF Crash, Inv, CountsOK
  <2> QED
    BY <2>1, <2>5, <2>6 DEF Inv
<1>12. CASE UNCHANGED vars
  BY <1>12, <1>g, <1>c DEF vars, Inv, StepsOK
<1> QED
  BY <1>1, <1>6, <1>7, <1>8, <1>9, <1>10, <1>11, <1>12 DEF Next

LEMMA Invariant == Spec => []Inv
BY InitInv, NextInv, PTL DEF Spec

-----------------------------------------------------------------------------
(* Theorems *)

\* Type correctness, for any steps, tools, servers and bounds.
THEOREM TypeCorrect == Spec => []TypeOK
<1>1. Inv => TypeOK
  BY DEF Inv, GatewayOK, GatewayTyped, CountsOK, TypeOK
<1> QED
  BY <1>1, Invariant, PTL

\* Calls, rows and announcements of a step follow one another, whatever raises,
\* is cancelled or is cut by a crash.
THEOREM AttemptsAreOrdered == Spec => []AttemptsInOrder
<1>1. Inv => AttemptsInOrder
  <2> SUFFICES ASSUME Inv, NEW s \in Steps
      PROVE  /\ step[s].called <= Len(step[s].rows)
             /\ Len(step[s].rows) <= step[s].announced
             /\ step[s].announced <= step[s].called + 1 /\ step[s].announced <= 2
             /\ \A i \in 1..Len(step[s].rows) - 1 : step[s].rows[i] = "failed"
    BY DEF AttemptsInOrder
  <2>1. step[s] \in StepRecord /\ StepOK(step[s])
    BY DEF Inv, StepsOK
  <2>2. CASE KnownOK(step[s])
    <3>1. \A i \in 1..Len(step[s].rows) - 1 : step[s].rows[i] = "failed"
      BY <2>2 DEF KnownOK, Settled
    <3> QED
      BY <2>1, <2>2, <3>1, CountedBounds
  <2>3. CASE UnknownOK(step[s])
    BY <2>3 DEF UnknownOK
  <2> QED
    BY <2>1, <2>2, <2>3 DEF StepOK
<1> QED
  BY <1>1, Invariant, PTL

\* No attempt of a tool that production requires an approval for is recorded
\* without one of its own.
THEOREM ProductionAlwaysApproved == Spec => []ProductionIsApproved
<1>1. Inv => ProductionIsApproved
  <2> SUFFICES ASSUME Inv, NEW s \in Steps, NeedsApproval(step[s])
               PROVE  step[s].granted >= Len(step[s].rows)
    BY DEF ProductionIsApproved
  <2>1. step[s] \in StepRecord /\ StepOK(step[s])
    BY DEF Inv, StepsOK
  <2>2. CASE KnownOK(step[s])
    BY <2>2 DEF KnownOK, Approved
  <2>3. CASE UnknownOK(step[s])
    BY <2>1, <2>3 DEF UnknownOK, StepRecord
  <2> QED
    BY <2>1, <2>2, <2>3 DEF StepOK
<1> QED
  BY <1>1, Invariant, PTL

\* No tool is asked for less in production than elsewhere.
THEOREM StricterAlways == Spec => []StricterInProduction
<1>1. Inv => StricterInProduction
  <2> SUFFICES ASSUME Inv, NEW s \in Steps, NEW e \in Environments,
                      NEW f \in Environments,
                      ENV_ESCALATION[e] <= ENV_ESCALATION[f],
                      CheckToolPermission(step[s].tool, e, step[s].admin)
                          .requires_approval
               PROVE  CheckToolPermission(step[s].tool, f, step[s].admin)
                          .requires_approval
    BY DEF StricterInProduction
  <2>1. step[s].admin \in BOOLEAN
    BY DEF Inv, StepRecord
  <2> QED
    BY <2>1, DecisionIsMonotone
<1> QED
  BY <1>1, Invariant, PTL

\* A step that ended by itself leaves no pending row.
THEOREM EndedIsSettled == Spec => []OnlyInterruptedIsPending
<1>1. Inv => OnlyInterruptedIsPending
  <2> SUFFICES ASSUME Inv, NEW s \in Steps, step[s].pc = "over"
      PROVE  IF step[s].rows = <<>> THEN step[s].tool \notin RegisteredTools
             ELSE step[s].rows[Len(step[s].rows)] =
                    IF step[s].ok THEN "success" ELSE "failed"
    BY DEF OnlyInterruptedIsPending
  <2>1. StepOK(step[s])
    BY DEF Inv, StepsOK
  <2>2. CASE KnownOK(step[s])
    <3>1. Len(step[s].rows) = Attempt(step[s])
      BY <2>2 DEF KnownOK, Counted
    <3>2. step[s].rows # <<>>
      BY <3>1 DEF Attempt
    <3>3. step[s].rows[Len(step[s].rows)] =
            IF step[s].ok THEN "success" ELSE "failed"
      BY <2>2 DEF KnownOK, Settled
    <3> QED
      BY <3>2, <3>3
  <2>3. CASE UnknownOK(step[s])
    BY <2>3 DEF UnknownOK
  <2> QED
    BY <2>1, <2>2, <2>3 DEF StepOK
<1> QED
  BY <1>1, Invariant, PTL

\* No request asks a server for a tool its registration does not list, nor goes
\* to a URL it was never registered with.
THEOREM OnlyRegisteredCalled == Spec => []SentIsRegistered
<1>1. Inv => SentIsRegistered
  BY DEF Inv, GatewayOK
<1> QED
  BY <1>1, Invariant, PTL
=============================================================================
