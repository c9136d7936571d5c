------------------------- MODULE EventLoggerProofs --------------------------
(***************************************************************************)
(* Theorems about EventLogger, for any callers, instances and numbers.      *)
(* Types and transitions need nothing else.  What is said of the numbers    *)
(* holds in the behaviours in which no two coroutines load the cache of one *)
(* instance at the same time (OneLoads), which the code does not prevent;   *)
(* in the passing run ColdCallers does (ColdCallersLoadAlone).              *)
(***************************************************************************)
EXTENDS EventLogger, TLAPS

\* Numbers start at 1 once allocated.
Allocated == \A c \in Callers : pc[c] \in {"insert", "record"} => num[c] > 0

TypeInv == TypeOK /\ Allocated

LEMMA ConstantFacts ==
    /\ \A c \in Callers : LoggerOf[c] \in Loggers
    /\ MaxSeq \in Nat /\ NoEntry = MaxSeq + 1
BY LoggerAssumption, MaxSeqAssumption DEF NoEntry

LEMMA CommitTyped ==
    ASSUME TypeInv, NEW c \in Callers, num[c] > 0, Commit(c)
    PROVE  /\ events' \in Seq([seq : 1..MaxSeq, by : Callers])
           /\ Numbers' = Numbers \cup {num[c]}
           /\ Rows' = Rows \cup {Row(c)}
           /\ Len(events') = Len(events) + 1
           /\ \A i \in 1..Len(events) : events'[i] = events[i]
           /\ events'[Len(events) + 1] = [seq |-> num[c], by |-> c]
<1> DEFINE e == [seq |-> num[c], by |-> c]
<1>1. e \in [seq : 1..MaxSeq, by : Callers]
  BY ConstantFacts DEF TypeInv, TypeOK
<1>2. events \in Seq([seq : 1..MaxSeq, by : Callers]) /\ events' = Append(events, e)
  BY DEF TypeInv, TypeOK, Commit, Row
<1>3. /\ events' \in Seq([seq : 1..MaxSeq, by : Callers])
      /\ Len(events') = Len(events) + 1
      /\ \A i \in 1..Len(events) : events'[i] = events[i]
      /\ events'[Len(events) + 1] = e
  <2> HIDE DEF e
  <2> QED
    BY <1>1, <1>2
<1>4. Len(events) \in Nat
  BY <1>2
<1>5. ASSUME NEW n \in Numbers' PROVE n \in Numbers \cup {num[c]}
  <2>1. PICK i \in 1..Len(events') : n = events'[i].seq
    BY <1>5 DEF Numbers
  <2>2. CASE i \in 1..Len(events)
    BY <1>3, <2>1, <2>2 DEF Numbers
  <2>3. CASE i = Len(events) + 1
    BY <1>3, <2>1, <2>3
  <2> QED
    BY <1>3, <1>4, <2>1, <2>2, <2>3
<1>6. Numbers \subseteq Numbers'
  BY <1>3, <1>4 DEF Numbers
<1>7. num[c] \in Numbers'
  <2>1. Len(events) + 1 \in 1..Len(events')
    BY <1>3, <1>4
  <2>2. events'[Len(events) + 1].seq = num[c]
    BY <1>3
  <2> QED
    BY <2>1, <2>2 DEF Numbers
<1>8. Numbers' = Numbers \cup {num[c]}
  <2> HIDE DEF e
  <2> QED
    BY <1>5, <1>6, <1>7
<1>9. Rows' = Rows \cup {e}
  <2> HIDE DEF e
  <2>1. 1..Len(events') = 1..Len(events) \cup {Len(events) + 1}
    BY <1>3, <1>4
  <2> QED
    BY <1>3, <2>1 DEF Rows
<1> QED
  BY <1>3, <1>8, <1>9 DEF Row

LEMMA SeqElement ==
    ASSUME NEW S, NEW q \in Seq(S), NEW i \in 1..Len(q)
    PROVE  q[i] \in S
OBVIOUS

LEMMA NumbersTyped ==
    ASSUME TypeInv
    PROVE  Numbers \subseteq 1..MaxSeq
<1>1. ASSUME NEW i \in 1..Len(events) PROVE events[i].seq \in 1..MaxSeq
  <2>1. events[i] \in [seq : 1..MaxSeq, by : Callers]
    BY SeqElement DEF TypeInv, TypeOK
  <2> QED
    BY <2>1
<1> QED
  BY <1>1 DEF Numbers

LEMMA EndTyped ==
    ASSUME TypeInv, NEW c \in Callers, pc' = [pc EXCEPT ![c] = "idle"], num' = num
    PROVE  pc' \in [Callers -> PC] /\ Allocated'
BY DEF TypeInv, TypeOK, Allocated, PC

LEMMA RecordedTyped ==
    ASSUME TypeInv, NEW c \in Callers, pc[c] = "record"
    PROVE  transitions \cup {Row(c)} \subseteq [seq : 1..MaxSeq, by : Callers]
<1>1. num[c] \in 1..MaxSeq
  BY ConstantFacts DEF TypeInv, TypeOK, Allocated
<1> QED
  BY <1>1 DEF TypeInv, TypeOK, Row

LEMMA StepTyped == TypeInv /\ [Next]_vars => TypeInv'
<1> SUFFICES ASSUME TypeInv, [Next]_vars PROVE TypeInv'
  OBVIOUS
<1>1. ASSUME NEW c \in Callers, Hit(c) PROVE TypeInv'
  <2>1. kind' \in [Callers -> Kinds] /\ pc' \in [Callers -> PC]
    <3>1. PICK k \in Kinds : kind' = [kind EXCEPT ![c] = k]
      BY <1>1 DEF Hit
    <3> QED
      BY <1>1, <3>1 DEF Hit, TypeInv, TypeOK, PC
  <2>2. cache[LoggerOf[c]] + 1 \in 1..MaxSeq
    <3>1. cache[LoggerOf[c]] \in 0..MaxSeq \cup {NoEntry}
      BY ConstantFacts DEF TypeInv, TypeOK
    <3>2. cache[LoggerOf[c]] < MaxSeq
      BY <1>1 DEF Hit
    <3> QED
      BY <3>1, <3>2, ConstantFacts
  <2>3. /\ num' \in [Callers -> 0..MaxSeq] /\ num'[c] > 0
        /\ cache' \in [Loggers -> 0..MaxSeq \cup {NoEntry}]
    BY <1>1, <2>2, ConstantFacts DEF Hit, TypeInv, TypeOK
  <2>4. Allocated'
    BY <1>1, <2>3 DEF Hit, TypeInv, TypeOK, Allocated
  <2> QED
    BY <1>1, <2>1, <2>3, <2>4 DEF Hit, TypeInv, TypeOK, dbVars
<1>2. ASSUME NEW c \in Callers, Miss(c) PROVE TypeInv'
  BY <1>2, ConstantFacts DEF Miss, TypeInv, TypeOK, Allocated, PC, Kinds, dbVars
<1>3. ASSUME NEW c \in Callers, SelectMax(c) PROVE TypeInv'
  BY <1>3, ConstantFacts, NumbersTyped
     DEF SelectMax, TypeInv, TypeOK, Allocated, PC, dbVars
<1>4. ASSUME NEW c \in Callers, Reload(c) PROVE TypeInv'
  BY <1>4, ConstantFacts DEF Reload, TypeInv, TypeOK, Allocated, PC, dbVars
<1>5. ASSUME NEW c \in Callers, Insert(c) PROVE TypeInv'
  <2>1. events' \in Seq([seq : 1..MaxSeq, by : Callers])
    BY <1>5, CommitTyped DEF Insert, TypeInv, TypeOK, Allocated
  <2> QED
    BY <1>5, <2>1 DEF Insert, TypeInv, TypeOK, Allocated, PC
<1>6. ASSUME NEW c \in Callers, RecordTransition(c) \/ Raise(c) PROVE TypeInv'
  <2>1. transitions' \subseteq [seq : 1..MaxSeq, by : Callers]
    BY <1>6, RecordedTyped DEF RecordTransition, Raise, TypeInv, TypeOK, dbVars
  <2> QED
    BY <1>6, <2>1, EndTyped
       DEF RecordTransition, Raise, TypeInv, TypeOK, dbVars
<1>7. ASSUME NEW c \in Callers, Stop(c) PROVE TypeInv'
  <2>1. events' \in Seq([seq : 1..MaxSeq, by : Callers])
    BY <1>7, CommitTyped DEF Stop, TypeInv, TypeOK, Allocated, dbVars
  <2>2. transitions' \subseteq [seq : 1..MaxSeq, by : Callers]
    BY <1>7, RecordedTyped DEF Stop, TypeInv, TypeOK, dbVars
  <2> QED
    BY <1>7, <2>1, <2>2, EndTyped DEF Stop, TypeInv, TypeOK
<1>8. CASE Restart \/ UNCHANGED vars
  BY <1>8, ConstantFacts DEF Restart, vars, TypeInv, TypeOK, Allocated, PC, dbVars
<1> QED
  BY <1>1, <1>2, <1>3, <1>4, <1>5, <1>6, <1>7, <1>8 DEF Next

\* Types, and that an insert always carries a number that was allocated.
THEOREM TypeCorrect == Spec => [](TypeOK /\ Allocated)
<1>1. Init => TypeInv
  BY ConstantFacts DEF Init, TypeInv, TypeOK, Allocated, PC, Kinds
<1>2. TypeInv /\ [Next]_vars => TypeInv'
  BY StepTyped
<1> QED
  BY <1>1, <1>2, PTL DEF Spec, TypeInv

-----------------------------------------------------------------------------
(* task_state_transitions: true of any instances and callers. *)

RecordedInv ==
    /\ TransitionHasEvent
    /\ \A c \in Callers : pc[c] = "record" => Row(c) \in Rows

LEMMA StepRecorded == TypeInv /\ RecordedInv /\ [Next]_vars => RecordedInv'
<1> SUFFICES ASSUME TypeInv, RecordedInv, [Next]_vars PROVE RecordedInv'
  OBVIOUS
<1>1. ASSUME NEW c \in Callers, pc[c] = "insert", Commit(c),
             UNCHANGED <<transitions, num>>,
             \E label : pc' = [pc EXCEPT ![c] = label]
      PROVE  RecordedInv'
  <2>1. Rows' = Rows \cup {Row(c)}
    BY <1>1, CommitTyped DEF TypeInv, Allocated
  <2>2. \A d \in Callers : d # c => pc'[d] = pc[d]
    BY <1>1 DEF TypeInv, TypeOK
  <2> QED
    BY <1>1, <2>1, <2>2 DEF RecordedInv, TransitionHasEvent, Row
<1>2. ASSUME NEW c \in Callers, UNCHANGED <<events, num>>,
             transitions' \in {transitions, transitions \cup {Row(c)}},
             transitions' # transitions => pc[c] = "record",
             \A d \in Callers : pc'[d] = "record" => pc[d] = "record"
      PROVE  RecordedInv'
  <2>1. Rows' = Rows
    BY <1>2 DEF Rows
  <2> QED
    BY <1>2, <2>1 DEF RecordedInv, TransitionHasEvent, Row
<1>3. ASSUME NEW c \in Callers,
             Hit(c) \/ Miss(c) \/ SelectMax(c) \/ Reload(c)
      PROVE  RecordedInv'
  <2>1. Rows' = Rows /\ transitions' = transitions
    BY <1>3 DEF Hit, Miss, SelectMax, Reload, dbVars, Rows
  <2>2. \A d \in Callers : pc'[d] = "record" =>
          pc[d] = "record" /\ num'[d] = num[d]
    BY <1>3 DEF Hit, Miss, SelectMax, Reload, TypeInv, TypeOK
  <2> QED
    BY <2>1, <2>2 DEF RecordedInv, TransitionHasEvent, Row
<1>4. ASSUME NEW c \in Callers, Insert(c)
      PROVE  RecordedInv'
  <2>1. CASE Commit(c)
    BY <1>1, <1>4, <2>1 DEF Insert
  <2>2. CASE UNCHANGED events /\ pc' = [pc EXCEPT ![c] = "refused"]
    BY <1>2, <1>4, <2>2 DEF Insert, TypeInv, TypeOK
  <2> QED
    BY <1>4, <2>1, <2>2 DEF Insert
<1>5. ASSUME NEW c \in Callers, RecordTransition(c) \/ Raise(c)
      PROVE  RecordedInv'
  BY <1>2, <1>5 DEF RecordTransition, Raise, dbVars, TypeInv, TypeOK
<1>6. ASSUME NEW c \in Callers, Stop(c)
      PROVE  RecordedInv'
  <2>1. CASE pc[c] = "insert" /\ Commit(c) /\ UNCHANGED transitions
    BY <1>1, <1>6, <2>1 DEF Stop
  <2>2. CASE UNCHANGED dbVars \/ (/\ pc[c] = "record" /\ UNCHANGED events
                                  /\ transitions' = transitions \cup {Row(c)})
    BY <1>2, <1>6, <2>2 DEF Stop, dbVars, TypeInv, TypeOK
  <2> QED
    BY <1>6, <2>1, <2>2 DEF Stop
<1>7. CASE Restart \/ UNCHANGED vars
  <2>1. Rows' = Rows /\ transitions' = transitions
    BY <1>7 DEF Restart, vars, dbVars, Rows
  <2>2. \A d \in Callers : pc'[d] = "record" =>
          pc[d] = "record" /\ num'[d] = num[d]
    BY <1>7 DEF Restart, vars
  <2> QED
    BY <2>1, <2>2 DEF RecordedInv, TransitionHasEvent, Row
<1> QED
  BY <1>3, <1>4, <1>5, <1>6, <1>7 DEF Next

\* Every row of task_state_transitions has its event, whatever loggers race
\* and whoever is cancelled between the two statements.
THEOREM TransitionsAnnounced == Spec => []TransitionHasEvent
<1>1. Init => RecordedInv
  BY DEF Init, RecordedInv, TransitionHasEvent
<1>2. TypeInv /\ RecordedInv /\ [Next]_vars => RecordedInv'
  BY StepRecorded
<1>3. RecordedInv => TransitionHasEvent
  BY DEF RecordedInv
<1> QED
  BY <1>1, <1>2, <1>3, TypeCorrect, PTL DEF Spec, TypeInv

-----------------------------------------------------------------------------
(* Instances whose cache one caller loads at a time. *)

Loads(c) == pc[c] \in {"select", "selected"}

\* The behaviours the following theorems are about: nobody starts to load the
\* cache of an instance while another coroutine awaits its SELECT MAX.
OneLoads ==
    \A c, d \in Callers :
        Loads(c) /\ Loads(d) /\ LoggerOf[c] = LoggerOf[d] => c = d

\* An event that was logged through the caller's instance.
Own(c, e) == LoggerOf[e.by] = LoggerOf[c]

\* A loaded cache is above every number its instance committed or allocated;
\* while a caller loads, the cache is empty and nobody holds a number.
CacheAbove ==
    \A c \in Callers : cache[LoggerOf[c]] # NoEntry =>
        \A i \in 1..Len(events) :
            Own(c, events[i]) => events[i].seq <= cache[LoggerOf[c]]

Loading ==
    \A c \in Callers :
        /\ pc[c] \in {"select", "selected"} => cache[LoggerOf[c]] = NoEntry
        /\ pc[c] = "selected" =>
             \A i \in 1..Len(events) :
                 Own(c, events[i]) => events[i].seq <= num[c]

Holding ==
    \A c \in Callers : pc[c] = "insert" =>
        /\ cache[LoggerOf[c]] # NoEntry /\ num[c] <= cache[LoggerOf[c]]
        /\ \A i \in 1..Len(events) :
             Own(c, events[i]) => events[i].seq # num[c]
        /\ \A d \in Callers :
             pc[d] = "insert" /\ LoggerOf[d] = LoggerOf[c] /\ num[d] = num[c]
                 => d = c

Ordered ==
    /\ CallerOrder
    /\ \A c \in Callers : pc[c] = "insert" =>
         \A i \in 1..Len(events) : events[i].by = c => events[i].seq < num[c]

LoggerInv == CacheAbove /\ Loading /\ Holding /\ RefusedByOthers /\ Ordered

LEMMA EventsTyped ==
    ASSUME TypeInv
    PROVE  \A i \in 1..Len(events) :
             events[i].seq \in 1..MaxSeq /\ events[i].by \in Callers
<1> TAKE i \in 1..Len(events)
<1>1. events[i] \in [seq : 1..MaxSeq, by : Callers]
  BY SeqElement DEF TypeInv, TypeOK
<1> QED
  BY <1>1

\* A commit of a held number.
LEMMA CommitKeeps ==
    ASSUME TypeInv, LoggerInv, NEW c \in Callers,
           pc[c] = "insert", Commit(c), UNCHANGED <<cache, num>>,
           NEW label \in {"idle", "record"}, pc' = [pc EXCEPT ![c] = label]
    PROVE  LoggerInv'
<1>1. /\ Len(events') = Len(events) + 1
      /\ \A i \in 1..Len(events) : events'[i] = events[i]
      /\ events'[Len(events) + 1] = [seq |-> num[c], by |-> c]
  BY CommitTyped DEF TypeInv, Allocated
<1>2. \A d \in Callers : pc'[d] = IF d = c THEN label ELSE pc[d]
  BY DEF TypeInv, TypeOK
<1>3. cache[LoggerOf[c]] # NoEntry /\ num[c] <= cache[LoggerOf[c]]
  BY DEF LoggerInv, Holding
<1>4. Len(events) \in Nat
  BY DEF TypeInv, TypeOK
<1>5. \A i \in 1..Len(events') :
        \/ i \in 1..Len(events) /\ events'[i] = events[i]
        \/ events'[i].by = c /\ events'[i].seq = num[c]
  <2> SUFFICES ASSUME NEW i \in 1..Len(events'), i \notin 1..Len(events)
               PROVE  events'[i].by = c /\ events'[i].seq = num[c]
    BY <1>1
  <2>1. i = Len(events) + 1
    BY <1>1, <1>4
  <2> QED
    BY <1>1, <2>1
<1>6. CacheAbove'
  BY <1>3, <1>5 DEF LoggerInv, CacheAbove, Own
<1>7. Loading'
  <2> SUFFICES ASSUME NEW d \in Callers
               PROVE  /\ pc'[d] \in {"select", "selected"} =>
                           cache'[LoggerOf[d]] = NoEntry
                      /\ pc'[d] = "selected" =>
                           \A i \in 1..Len(events') :
                             Own(d, events'[i]) => events'[i].seq <= num'[d]
    BY DEF Loading, Own
  <2>1. CASE pc'[d] \in {"select", "selected"}
    <3>1. pc[d] = pc'[d] /\ cache[LoggerOf[d]] = NoEntry
      BY <1>2, <2>1 DEF LoggerInv, Loading
    <3>2. LoggerOf[d] # LoggerOf[c]
      BY <1>3, <3>1
    <3> QED
      BY <1>5, <3>1, <3>2 DEF LoggerInv, Loading, Own
  <2> QED
    BY <2>1
<1>8. Holding'
  <2> SUFFICES ASSUME NEW d \in Callers, pc'[d] = "insert"
               PROVE  /\ cache[LoggerOf[d]] # NoEntry
                      /\ num[d] <= cache[LoggerOf[d]]
                      /\ \A i \in 1..Len(events') :
                           Own(d, events'[i]) => events'[i].seq # num[d]
                      /\ \A b \in Callers :
                           pc'[b] = "insert" /\ LoggerOf[b] = LoggerOf[d]
                               /\ num[b] = num[d] => b = d
    BY DEF Holding, Own
  <2>1. d # c /\ pc[d] = "insert"
    BY <1>2
  <2>2. LoggerOf[d] = LoggerOf[c] => num[d] # num[c]
    BY <2>1 DEF LoggerInv, Holding
  <2>3. \A i \in 1..Len(events') : Own(d, events'[i]) => events'[i].seq # num[d]
    BY <1>5, <2>1, <2>2 DEF LoggerInv, Holding, Own
  <2>4. \A b \in Callers : pc'[b] = "insert" => pc[b] = "insert"
    BY <1>2
  <2> QED
    BY <2>1, <2>3, <2>4 DEF LoggerInv, Holding
<1>9. RefusedByOthers'
  <2> SUFFICES ASSUME NEW d \in Callers, pc'[d] = "refused"
               PROVE  \E i \in 1..Len(events') :
                        /\ events'[i].seq = num[d]
                        /\ LoggerOf[events'[i].by] # LoggerOf[d]
    BY DEF RefusedByOthers
  <2>1. pc[d] = "refused"
    BY <1>2
  <2>2. PICK i \in 1..Len(events) :
           events[i].seq = num[d] /\ LoggerOf[events[i].by] # LoggerOf[d]
    BY <2>1 DEF LoggerInv, RefusedByOthers
  <2>3. i \in 1..Len(events') /\ events'[i] = events[i]
    BY <1>1, <1>4
  <2> QED
    BY <2>2, <2>3
<1>10. CallerOrder'
  <2> SUFFICES ASSUME NEW i \in 1..Len(events'), NEW j \in 1..Len(events'),
                      i < j, events'[i].by = events'[j].by
               PROVE  events'[i].seq < events'[j].seq
    BY DEF CallerOrder
  <2>1. i \in 1..Len(events) /\ events'[i] = events[i]
    BY <1>1, <1>4
  <2>2. CASE j \in 1..Len(events)
    BY <1>1, <2>1, <2>2 DEF LoggerInv, Ordered, CallerOrder
  <2>3. CASE j \notin 1..Len(events)
    <3>1. events'[j].by = c /\ events'[j].seq = num[c]
      BY <1>5, <2>3
    <3> QED
      BY <2>1, <3>1 DEF LoggerInv, Ordered
  <2> QED
    BY <2>2, <2>3
<1>11. ASSUME NEW d \in Callers, pc'[d] = "insert",
              NEW i \in 1..Len(events'), events'[i].by = d
       PROVE  events'[i].seq < num[d]
  <2>1. d # c /\ pc[d] = "insert"
    BY <1>2, <1>11
  <2>2. i \in 1..Len(events) /\ events'[i] = events[i]
    BY <1>5, <1>11, <2>1
  <2> QED
    BY <1>11, <2>1, <2>2 DEF LoggerInv, Ordered
<1> QED
  BY <1>6, <1>7, <1>8, <1>9, <1>10, <1>11 DEF LoggerInv, Ordered

\* A step that commits nothing and allocates nothing.
LEMMA QuietKeeps ==
    ASSUME TypeInv, LoggerInv, UNCHANGED <<events, cache, num>>,
           \A d \in Callers : pc'[d] \in {pc[d], "idle", "record"}
    PROVE  LoggerInv'
<1>1. CacheAbove' /\ Loading'
  BY DEF LoggerInv, CacheAbove, Loading, Own
<1>2. Holding' /\ RefusedByOthers'
  BY DEF LoggerInv, Holding, RefusedByOthers, Own
<1>3. Ordered'
  BY DEF LoggerInv, Ordered, CallerOrder
<1> QED
  BY <1>1, <1>2, <1>3 DEF LoggerInv

\* Taking a number above every one the instance committed or holds, and every
\* one the caller committed.
LEMMA AllocateKeeps ==
    ASSUME TypeInv, LoggerInv, NEW c \in Callers,
           NEW n \in 1..MaxSeq,
           \A i \in 1..Len(events) : Own(c, events[i]) => events[i].seq < n,
           \A d \in Callers :
             pc[d] = "insert" /\ LoggerOf[d] = LoggerOf[c] => num[d] < n,
           \A d \in Callers :
             d # c /\ LoggerOf[d] = LoggerOf[c] =>
                 pc[d] \notin {"select", "selected"},
           cache' = [cache EXCEPT ![LoggerOf[c]] = n],
           num' = [num EXCEPT ![c] = n],
           pc' = [pc EXCEPT ![c] = "insert"],
           UNCHANGED events
    PROVE  LoggerInv'
<1>1. \A d \in Callers : LoggerOf[d] \in Loggers
  BY ConstantFacts
<1>2. \A d \in Callers : cache'[LoggerOf[d]] =
        IF LoggerOf[d] = LoggerOf[c] THEN n ELSE cache[LoggerOf[d]]
  BY <1>1 DEF TypeInv, TypeOK
<1>3. \A d \in Callers : /\ num'[d] = IF d = c THEN n ELSE num[d]
                         /\ pc'[d] = IF d = c THEN "insert" ELSE pc[d]
  BY DEF TypeInv, TypeOK
<1>4. n # NoEntry /\ n \in Nat
  BY ConstantFacts
<1>5. /\ \A i \in 1..Len(events) : events[i].seq \in Nat
      /\ \A d \in Callers : num[d] \in Nat
  <2>1. \A i \in 1..Len(events) : events[i].seq \in 1..MaxSeq
    BY EventsTyped
  <2> QED
    BY <2>1, ConstantFacts DEF TypeInv, TypeOK
<1>6. CacheAbove'
  <2> SUFFICES ASSUME NEW d \in Callers, cache'[LoggerOf[d]] # NoEntry,
                      NEW i \in 1..Len(events), Own(d, events[i])
               PROVE  events[i].seq <= cache'[LoggerOf[d]]
    BY DEF CacheAbove, Own
  <2>1. CASE LoggerOf[d] = LoggerOf[c]
    BY <1>2, <1>4, <1>5, <2>1 DEF Own
  <2>2. CASE LoggerOf[d] # LoggerOf[c]
    BY <1>2, <2>2 DEF LoggerInv, CacheAbove
  <2> QED
    BY <2>1, <2>2
<1>7. Loading'
  BY <1>2, <1>3 DEF LoggerInv, Loading, Own
<1>8. Holding'
  <2> SUFFICES ASSUME NEW d \in Callers, pc'[d] = "insert"
               PROVE  /\ cache'[LoggerOf[d]] # NoEntry
                      /\ num'[d] <= cache'[LoggerOf[d]]
                      /\ \A i \in 1..Len(events) :
                           Own(d, events[i]) => events[i].seq # num'[d]
                      /\ \A b \in Callers :
                           pc'[b] = "insert" /\ LoggerOf[b] = LoggerOf[d]
                               /\ num'[b] = num'[d] => b = d
    BY DEF Holding, Own
  <2>1. CASE d = c
    BY <1>2, <1>3, <1>4, <1>5, <2>1
  <2>2. CASE d # c /\ LoggerOf[d] = LoggerOf[c]
    BY <1>2, <1>3, <1>4, <1>5, <2>2 DEF LoggerInv, Holding
  <2>3. CASE LoggerOf[d] # LoggerOf[c]
    BY <1>2, <1>3, <2>3 DEF LoggerInv, Holding
  <2> QED
    BY <2>1, <2>2, <2>3
<1>9. RefusedByOthers'
  <2> SUFFICES ASSUME NEW d \in Callers, pc'[d] = "refused"
               PROVE  pc[d] = "refused" /\ num'[d] = num[d]
    BY DEF LoggerInv, RefusedByOthers
  <2> QED
    BY <1>3
<1>10. Ordered'
  <2>1. \A i \in 1..Len(events) : events[i].by = c => events[i].seq < n
    BY DEF Own
  <2> QED
    BY <1>3, <2>1 DEF LoggerInv, Ordered, CallerOrder
<1> QED
  BY <1>6, <1>7, <1>8, <1>9, <1>10 DEF LoggerInv

LEMMA StepNumbers ==
    TypeInv /\ OneLoads /\ LoggerInv /\ [Next]_vars => LoggerInv'
<1> SUFFICES ASSUME TypeInv, OneLoads, LoggerInv, [Next]_vars
             PROVE  LoggerInv'
  OBVIOUS
<1>1. ASSUME NEW c \in Callers, Hit(c) PROVE LoggerInv'
  <2> DEFINE k == cache[LoggerOf[c]]
  <2>1. k \in 0..MaxSeq /\ k < MaxSeq /\ k # NoEntry
    <3>1. k \in 0..MaxSeq \cup {NoEntry} /\ k < MaxSeq
      BY <1>1, ConstantFacts DEF Hit, TypeInv, TypeOK
    <3> QED
      BY <3>1, ConstantFacts
  <2>2. k + 1 \in 1..MaxSeq
    BY <2>1, ConstantFacts
  <2>3. \A i \in 1..Len(events) : Own(c, events[i]) => events[i].seq < k + 1
    <3>1. \A i \in 1..Len(events) : events[i].seq \in 1..MaxSeq
      BY EventsTyped
    <3>2. \A i \in 1..Len(events) : Own(c, events[i]) => events[i].seq <= k
      BY <2>1 DEF LoggerInv, CacheAbove
    <3> HIDE DEF k
    <3> QED
      BY <2>1, <3>1, <3>2
  <2>4. \A d \in Callers :
          pc[d] = "insert" /\ LoggerOf[d] = LoggerOf[c] => num[d] < k + 1
    <3>1. \A d \in Callers : num[d] \in 0..MaxSeq
      BY DEF TypeInv, TypeOK
    <3>2. \A d \in Callers :
            pc[d] = "insert" /\ LoggerOf[d] = LoggerOf[c] => num[d] <= k
      BY DEF LoggerInv, Holding
    <3> HIDE DEF k
    <3> QED
      BY <2>1, <3>1, <3>2
  <2>5. \A d \in Callers : LoggerOf[d] = LoggerOf[c] =>
          pc[d] \notin {"select", "selected"}
    BY <2>1 DEF LoggerInv, Loading
  <2>6. /\ cache' = [cache EXCEPT ![LoggerOf[c]] = k + 1]
        /\ num' = [num EXCEPT ![c] = k + 1]
        /\ pc' = [pc EXCEPT ![c] = "insert"] /\ UNCHANGED events
    BY <1>1 DEF Hit, dbVars
  <2> HIDE DEF k
  <2> QED
    BY <2>2, <2>3, <2>4, <2>5, <2>6, AllocateKeeps
<1>2. ASSUME NEW c \in Callers, Miss(c) PROVE LoggerInv'
  <2>1. UNCHANGED <<events, cache, num>>
    BY <1>2 DEF Miss, dbVars
  <2>2. \A d \in Callers : pc'[d] = IF d = c THEN "select" ELSE pc[d]
    BY <1>2 DEF Miss, TypeInv, TypeOK
  <2>3. cache[LoggerOf[c]] = NoEntry
    BY <1>2 DEF Miss
  <2>4. CacheAbove' /\ Loading'
    BY <2>1, <2>2, <2>3 DEF LoggerInv, CacheAbove, Loading, Own
  <2>5. Holding' /\ RefusedByOthers'
    BY <2>1, <2>2 DEF LoggerInv, Holding, RefusedByOthers, Own
  <2>6. Ordered'
    BY <2>1, <2>2 DEF LoggerInv, Ordered, CallerOrder
  <2> QED
    BY <2>4, <2>5, <2>6 DEF LoggerInv
<1>3. ASSUME NEW c \in Callers, SelectMax(c) PROVE LoggerInv'
  <2>1. UNCHANGED <<events, cache>> /\ pc[c] = "select"
    BY <1>3 DEF SelectMax, dbVars
  <2>2. \A d \in Callers : pc'[d] = IF d = c THEN "selected" ELSE pc[d]
    BY <1>3 DEF SelectMax, TypeInv, TypeOK
  <2>3. \A d \in Callers : d # c => num'[d] = num[d]
    BY <1>3 DEF SelectMax, TypeInv, TypeOK
  <2>4. \A i \in 1..Len(events) : events[i].seq <= num'[c]
    BY <1>3 DEF SelectMax, TypeInv, TypeOK, Numbers
  <2>5. CacheAbove'
    BY <2>1 DEF LoggerInv, CacheAbove, Own
  <2>6. Loading'
    BY <2>1, <2>2, <2>3, <2>4 DEF LoggerInv, Loading, Own
  <2>7. Holding' /\ RefusedByOthers'
    BY <2>1, <2>2, <2>3 DEF LoggerInv, Holding, RefusedByOthers, Own
  <2>8. Ordered'
    BY <2>1, <2>2, <2>3 DEF LoggerInv, Ordered, CallerOrder
  <2> QED
    BY <2>5, <2>6, <2>7, <2>8 DEF LoggerInv
<1>4. ASSUME NEW c \in Callers, Reload(c) PROVE LoggerInv'
  <2>1. pc[c] = "selected" /\ num[c] < MaxSeq /\ num[c] \in 0..MaxSeq
    BY <1>4 DEF Reload, TypeInv, TypeOK
  <2>2. num[c] + 1 \in 1..MaxSeq
    BY <2>1, ConstantFacts
  <2>3. \A i \in 1..Len(events) :
          Own(c, events[i]) => events[i].seq < num[c] + 1
    <3>1. \A i \in 1..Len(events) : events[i].seq \in 1..MaxSeq
      BY EventsTyped
    <3> QED
      BY <2>1, <3>1 DEF LoggerInv, Loading
  <2>4. cache[LoggerOf[c]] = NoEntry
    BY <2>1 DEF LoggerInv, Loading
  <2>5. \A d \in Callers :
          pc[d] = "insert" /\ LoggerOf[d] = LoggerOf[c] => num[d] < num[c] + 1
    BY <2>4 DEF LoggerInv, Holding
  <2>6. \A d \in Callers : d # c /\ LoggerOf[d] = LoggerOf[c] =>
          pc[d] \notin {"select", "selected"}
    BY <2>1 DEF OneLoads, Loads
  <2>7. /\ cache' = [cache EXCEPT ![LoggerOf[c]] = num[c] + 1]
        /\ num' = [num EXCEPT ![c] = num[c] + 1]
        /\ pc' = [pc EXCEPT ![c] = "insert"] /\ UNCHANGED events
    BY <1>4 DEF Reload, dbVars
  <2> QED
    BY <2>2, <2>3, <2>5, <2>6, <2>7, AllocateKeeps
<1>5. ASSUME NEW c \in Callers, Insert(c) PROVE LoggerInv'
  <2>1. CASE num[c] \notin Numbers
    BY <1>5, <2>1, CommitKeeps DEF Insert
  <2>2. CASE num[c] \in Numbers
    <3>1. UNCHANGED <<events, cache, num>> /\ pc[c] = "insert"
      BY <1>5, <2>2 DEF Insert
    <3>2. \A d \in Callers : pc'[d] = IF d = c THEN "refused" ELSE pc[d]
      BY <1>5, <2>2 DEF Insert, TypeInv, TypeOK
    <3>3. \E i \in 1..Len(events) :
            events[i].seq = num[c] /\ LoggerOf[events[i].by] # LoggerOf[c]
      BY <2>2, <3>1 DEF Numbers, LoggerInv, Holding, Own
    <3>4. CacheAbove' /\ Loading'
      BY <3>1, <3>2 DEF LoggerInv, CacheAbove, Loading, Own
    <3>5. Holding'
      BY <3>1, <3>2 DEF LoggerInv, Holding, Own
    <3>6. RefusedByOthers'
      BY <3>1, <3>2, <3>3 DEF LoggerInv, RefusedByOthers
    <3>7. Ordered'
      BY <3>1, <3>2 DEF LoggerInv, Ordered, CallerOrder
    <3> QED
      BY <3>4, <3>5, <3>6, <3>7 DEF LoggerInv
  <2> QED
    BY <2>1, <2>2
<1>6. ASSUME NEW c \in Callers, RecordTransition(c) \/ Raise(c) PROVE LoggerInv'
  <2>1. \A d \in Callers : pc'[d] \in {pc[d], "idle", "record"}
    BY <1>6 DEF RecordTransition, Raise, TypeInv, TypeOK
  <2> QED
    BY <1>6, <2>1, QuietKeeps DEF RecordTransition, Raise, dbVars
<1>7. ASSUME NEW c \in Callers, Stop(c) PROVE LoggerInv'
  <2>1. CASE pc[c] = "insert" /\ Commit(c)
    BY <1>7, <2>1, CommitKeeps DEF Stop
  <2>2. CASE UNCHANGED events
    <3>1. \A d \in Callers : pc'[d] \in {pc[d], "idle", "record"}
      BY <1>7 DEF Stop, TypeInv, TypeOK
    <3> QED
      BY <1>7, <2>2, <3>1, QuietKeeps DEF Stop
  <2> QED
    BY <1>7, <2>1, <2>2 DEF Stop, dbVars
<1>8. CASE Restart
  <2>1. /\ \A d \in Callers : pc'[d] = "idle" /\ cache'[LoggerOf[d]] = NoEntry
        /\ UNCHANGED events
    BY <1>8, ConstantFacts DEF Restart, dbVars
  <2> QED
    BY <2>1 DEF LoggerInv, CacheAbove, Loading, Holding, RefusedByOthers,
                Ordered, CallerOrder
<1>9. CASE UNCHANGED vars
  BY <1>9, QuietKeeps DEF vars, dbVars
<1> QED
  BY <1>1, <1>2, <1>3, <1>4, <1>5, <1>6, <1>7, <1>8, <1>9 DEF Next

LEMMA NumbersAlways == Spec /\ []OneLoads => []LoggerInv
<1>1. Init => LoggerInv
  <2> SUFFICES ASSUME Init PROVE LoggerInv
    OBVIOUS
  <2>1. /\ \A c \in Callers : pc[c] = "idle" /\ cache[LoggerOf[c]] = NoEntry
        /\ Len(events) = 0
    BY ConstantFacts DEF Init
  <2> QED
    BY <2>1 DEF LoggerInv, CacheAbove, Loading, Holding, RefusedByOthers,
                Ordered, CallerOrder
<1>2. TypeInv /\ OneLoads /\ LoggerInv /\ [Next]_vars => LoggerInv'
  BY StepNumbers
<1> QED
  BY <1>1, <1>2, TypeCorrect, PTL DEF Spec, TypeInv

\* While each cache is loaded by one coroutine at a time, an instance never
\* gives a number its own callers committed, across lost events, cancellations
\* and restarts: only the numbers of other instances are refused.
THEOREM OwnNumbersAccepted == Spec /\ []OneLoads => []RefusedByOthers
<1>1. LoggerInv => RefusedByOthers
  BY DEF LoggerInv
<1> QED
  BY <1>1, NumbersAlways, PTL

\* In the same behaviours the events of a coroutine are numbered in the order it
\* logged them, which is the order replay shows them in, whatever the other
\* instances do.  Without OneLoads this is false: the second of two loads sets
\* the cache back, so that a number given before and lost is given again.
THEOREM EventsInOrder == Spec /\ []OneLoads => []CallerOrder
<1>1. LoggerInv => CallerOrder
  BY DEF LoggerInv, Ordered
<1> QED
  BY <1>1, NumbersAlways, PTL

\* The behaviours of the passing run are among them: with one cold caller for
\* each instance, as its ColdCallers has, no cache is loaded by two.
OneColdCaller ==
    \A c, d \in ColdCallers : LoggerOf[c] = LoggerOf[d] => c = d

OnlyColdLoad == \A c \in Callers : Loads(c) => c \in ColdCallers

LEMMA ColdCallersLoadAlone ==
    ASSUME OneColdCaller
    PROVE  Spec => []OneLoads
<1>1. Init => OnlyColdLoad
  BY DEF Init, OnlyColdLoad, Loads
<1>2. TypeInv /\ OnlyColdLoad /\ [Next]_vars => OnlyColdLoad'
  <2> SUFFICES ASSUME TypeInv, OnlyColdLoad, [Next]_vars,
                      NEW c \in Callers, Loads(c)'
               PROVE  c \in ColdCallers
    BY DEF OnlyColdLoad
  <2>1. CASE \E d \in Callers :
               Hit(d) \/ Miss(d) \/ SelectMax(d) \/ Reload(d) \/ Insert(d)
    BY <2>1 DEF TypeInv, TypeOK, OnlyColdLoad, Loads, Hit, Miss, SelectMax,
                Reload, Insert
  <2>2. CASE \E d \in Callers : RecordTransition(d) \/ Raise(d) \/ Stop(d)
    BY <2>2 DEF TypeInv, TypeOK, OnlyColdLoad, Loads, RecordTransition, Raise,
                Stop
  <2>3. CASE Restart \/ UNCHANGED vars
    BY <2>3 DEF OnlyColdLoad, Loads, Restart, vars
  <2> QED
    BY <2>1, <2>2, <2>3 DEF Next
<1>3. OnlyColdLoad => OneLoads
  BY DEF OnlyColdLoad, OneLoads, OneColdCaller
<1> QED
  BY <1>1, <1>2, <1>3, TypeCorrect, PTL DEF Spec, TypeInv

-----------------------------------------------------------------------------
(* Refinement *)

LEMMA StepAppends ==
    ASSUME TypeInv, LoggerInv, [Next]_vars
    PROVE  [Log!Next]_events
<1>1. ASSUME NEW c \in Callers, pc[c] = "insert", num[c] \notin Numbers, Commit(c)
      PROVE  Log!Next
  <2>1. \A i \in 1..Len(events) : events[i].seq # num[c]
    BY <1>1 DEF Numbers
  <2>2. \A i \in 1..Len(events) : events[i].by = c => events[i].seq < num[c]
    BY <1>1 DEF LoggerInv, Ordered
  <2>3. num[c] \in 1..MaxSeq
    BY <1>1, ConstantFacts DEF TypeInv, TypeOK, Allocated
  <2> QED
    BY <1>1, <2>1, <2>2, <2>3 DEF Commit, Row, Log!Next, Log!AppendEvent
<1>2. ASSUME NEW c \in Callers, Insert(c) \/ Stop(c)
      PROVE  [Log!Next]_events
  BY <1>1, <1>2 DEF Insert, Stop, dbVars
<1>3. CASE ~ \E c \in Callers : Insert(c) \/ Stop(c)
  BY <1>3 DEF Next, Hit, Miss, SelectMax, Reload, RecordTransition, Raise,
              Restart, vars, dbVars
<1> QED
  BY <1>2, <1>3

\* While each cache is loaded by one coroutine at a time, the table implements
\* the append-only log that replay and SOP extraction read, whatever instances
\* share it.
THEOREM LogIsAppendOnly == Spec /\ []OneLoads => ImplementsAppendLog
<1>1. Init => Log!Init
  BY DEF Init, Log!Init
<1>2. TypeInv /\ LoggerInv /\ [Next]_vars => [Log!Next]_events
  BY StepAppends
<1> QED
  BY <1>1, <1>2, NumbersAlways, TypeCorrect, PTL
     DEF Spec, TypeInv, ImplementsAppendLog, Log!Spec
=============================================================================
