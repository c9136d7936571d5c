---------------------------- MODULE EventLogger -----------------------------
(***************************************************************************)
(* The event log of one task.  Every service of the runtime that logs       *)
(* (executor, rollback service, subagent manager) owns an EventLogger with  *)
(* a cache of the last sequence number it gave; the number of the first     *)
(* event comes from SELECT MAX(sequence).  task_events refuses a number it  *)
(* already has, and the caller of log gets the exception.                   *)
(***************************************************************************)
EXTENDS Naturals, Sequences

CONSTANTS
    Callers,      \* coroutines that log events of the task, one at a time each
    Loggers,      \* EventLogger instances
    LoggerOf,     \* the instance each caller uses
    ColdCallers,  \* callers that may be the first to use their logger
    MaxSeq        \* bound: sequence numbers

ASSUME LoggerAssumption == LoggerOf \in [Callers -> Loggers]
ASSUME ColdAssumption == ColdCallers \subseteq Callers
ASSUME MaxSeqAssumption == MaxSeq \in Nat

VARIABLES
    events,       \* task_events, in the order the rows were committed
    transitions,  \* task_state_transitions: the event announcing each row
    cache,        \* _sequence_cache[task_id], or NoEntry
    pc,           \* where each caller is
    num,          \* its max_seq, then its seq
    kind          \* what it logs: a plain event, or a state transition

dbVars == <<events, transitions>>
vars   == <<dbVars, cache, pc, num, kind>>

NoEntry == MaxSeq + 1
Kinds   == {"event", "transition"}
PC      == {"idle", "select", "selected", "insert", "record", "refused"}

Init ==
    /\ events = <<>> /\ transitions = {}
    /\ cache = [l \in Loggers |-> NoEntry]
    /\ pc = [c \in Callers |-> "idle"]
    /\ num = [c \in Callers |-> 0]
    /\ kind = [c \in Callers |-> "event"]

Numbers == {events[i].seq : i \in 1..Len(events)}
Rows    == {events[i] : i \in 1..Len(events)}
Row(c)  == [seq |-> num[c], by |-> c]

-----------------------------------------------------------------------------
(* log and log_state_transition *)

\* With an entry in the cache, the number is taken without an await.
Hit(c) ==
    LET l == LoggerOf[c]
    IN  /\ pc[c] = "idle" /\ cache[l] < MaxSeq
        /\ cache' = [cache EXCEPT ![l] = @ + 1]
        /\ num' = [num EXCEPT ![c] = cache[l] + 1]
        /\ pc' = [pc EXCEPT ![c] = "insert"]
        /\ kind' \in {[kind EXCEPT ![c] = k] : k \in Kinds}
        /\ UNCHANGED dbVars

Miss(c) ==
    /\ pc[c] = "idle" /\ c \in ColdCallers /\ cache[LoggerOf[c]] = NoEntry
    /\ pc' = [pc EXCEPT ![c] = "select"]
    /\ kind' \in {[kind EXCEPT ![c] = k] : k \in Kinds}
    /\ UNCHANGED <<dbVars, cache, num>>

\* Mutant: SELECT COUNT(*).
SelectCount(c) ==
    /\ pc[c] = "select"
    /\ num' = [num EXCEPT ![c] = Len(events)]
    /\ pc' = [pc EXCEPT ![c] = "selected"]
    /\ UNCHANGED <<dbVars, cache, kind>>

\* The database answers the SELECT.
SelectMax(c) ==
    /\ pc[c] = "select"
    /\ \E m \in Numbers \cup {0} :
         /\ \A n \in Numbers : n <= m
         /\ num' = [num EXCEPT ![c] = m]
    /\ pc' = [pc EXCEPT ![c] = "selected"]
    /\ UNCHANGED <<dbVars, cache, kind>>

\* Mutant: the maximum itself is used as the next number.
ReloadAtMax(c) ==
    /\ pc[c] = "selected" /\ num[c] < MaxSeq
    /\ cache' = [cache EXCEPT ![LoggerOf[c]] = num[c]]
    /\ pc' = [pc EXCEPT ![c] = "insert"]
    /\ UNCHANGED <<dbVars, num, kind>>

\* The coroutine goes on with the answer and stores it whatever the cache
\* holds by now.
Reload(c) ==
    /\ pc[c] = "selected" /\ num[c] < MaxSeq
    /\ cache' = [cache EXCEPT ![LoggerOf[c]] = num[c] + 1]
    /\ num' = [num EXCEPT ![c] = @ + 1]
    /\ pc' = [pc EXCEPT ![c] = "insert"]
    /\ UNCHANGED <<dbVars, kind>>

Commit(c) == events' = Append(events, Row(c))

\* Mutant: a refused insert is taken for a success.
InsertIgnoresRefusal(c) ==
    /\ pc[c] = "insert"
    /\ \/ num[c] \notin Numbers /\ Commit(c)
       \/ num[c] \in Numbers /\ UNCHANGED events
    /\ pc' = [pc EXCEPT ![c] = IF kind[c] = "event" THEN "idle" ELSE "record"]
    /\ UNCHANGED <<transitions, cache, num, kind>>

\* The INSERT, which UNIQUE(task_id, sequence) may refuse.
Insert(c) ==
    /\ pc[c] = "insert"
    /\ \/ /\ num[c] \notin Numbers
          /\ Commit(c)
          /\ pc' = [pc EXCEPT ![c] =
                      IF kind[c] = "event" THEN "idle" ELSE "record"]
       \/ /\ num[c] \in Numbers
          /\ UNCHANGED events
          /\ pc' = [pc EXCEPT ![c] = "refused"]
    /\ UNCHANGED <<transitions, cache, num, kind>>

\* The second INSERT of log_state_transition.
RecordTransition(c) ==
    /\ pc[c] = "record"
    /\ transitions' = transitions \cup {Row(c)}
    /\ pc' = [pc EXCEPT ![c] = "idle"]
    /\ UNCHANGED <<events, cache, num, kind>>

\* The caller gets the UniqueViolationError; whatever it does, the number is
\* used up.
Raise(c) ==
    /\ pc[c] = "refused"
    /\ pc' = [pc EXCEPT ![c] = "idle"]
    /\ UNCHANGED <<dbVars, cache, num, kind>>

-----------------------------------------------------------------------------
(* The caller is cancelled, a statement fails, the process restarts *)

\* A statement under way is executed or not.
Stop(c) ==
    /\ pc[c] \notin {"idle", "refused"}
    /\ \/ UNCHANGED dbVars
       \/ /\ pc[c] = "insert" /\ num[c] \notin Numbers
          /\ Commit(c) /\ UNCHANGED transitions
       \/ /\ pc[c] = "record"
          /\ transitions' = transitions \cup {Row(c)} /\ UNCHANGED events
    /\ pc' = [pc EXCEPT ![c] = "idle"]
    /\ UNCHANGED <<cache, num, kind>>

\* Statements of the dead process have ended when the new one starts.
Restart ==
    /\ cache' = [l \in Loggers |-> NoEntry]
    /\ pc' = [c \in Callers |-> "idle"]
    /\ UNCHANGED <<dbVars, num, kind>>

-----------------------------------------------------------------------------

Next ==
    \/ \E c \in Callers :
         \/ Hit(c) \/ Miss(c) \/ SelectMax(c) \/ Reload(c)
         \/ Insert(c) \/ RecordTransition(c) \/ Raise(c) \/ Stop(c)
    \/ Restart

Spec == Init /\ [][Next]_vars

-----------------------------------------------------------------------------
(* Properties *)

TypeOK ==
    /\ events \in Seq([seq : 1..MaxSeq, by : Callers])
    /\ transitions \subseteq [seq : 1..MaxSeq, by : Callers]
    /\ cache \in [Loggers -> 0..MaxSeq \cup {NoEntry}]
    /\ pc \in [Callers -> PC]
    /\ num \in [Callers -> 0..MaxSeq]
    /\ kind \in [Callers -> Kinds]

\* A number given from a loaded cache is not in the table yet: "EventLogger
\* sequence cache is reloaded from the database across processes, avoiding
\* duplicate key" (CHANGELOG.md).  log does not compare a loaded cache with the
\* database again, so that the events of another instance make it stale.
CachedIsFree ==
    [][\A c \in Callers : Hit(c) => num'[c] \notin Numbers]_vars

\* Only a number that another instance gave is refused: coroutines that share
\* an EventLogger with a loaded cache never take the same one, because log
\* takes the number and stores it without an await in between.  This is so
\* while no two coroutines load the cache of one instance at a time, which the
\* code does not prevent and ColdCallers does when it has one for each.
RefusedByOthers ==
    \A c \in Callers : pc[c] = "refused" =>
        \E i \in 1..Len(events) :
            events[i].seq = num[c] /\ LoggerOf[events[i].by] # LoggerOf[c]

\* Replay, which orders by sequence, shows the events of a coroutine in the
\* order it logged them, across lost events and restarts; under the same
\* restriction, for a second load sets the cache back below lost numbers.
CallerOrder ==
    \A i, j \in 1..Len(events) :
        i < j /\ events[i].by = events[j].by => events[i].seq < events[j].seq

\* A row of task_state_transitions always has the event with which its own
\* coroutine announced it (log_state_transition makes two statements, and the
\* first may be refused because another coroutine's event has the number).
TransitionHasEvent == transitions \subseteq Rows

\* Whatever is refused, lost, cancelled or restarted, and however many
\* instances log: the table implements the append-only log that replay reads,
\* as long as each cache is loaded by one coroutine at a time (see
\* RefusedByOthers): the order it promises includes CallerOrder.
Log == INSTANCE AppendLog WITH log <- events
ImplementsAppendLog == Log!Spec
=============================================================================
