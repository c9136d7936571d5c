----------------------------- MODULE AppendLog ------------------------------
(***************************************************************************)
(* What the event log of one task promises its readers (replay, audit, SOP  *)
(* extraction), who sort by number: rows are only added, no number is given *)
(* twice, and each coroutine's events are numbered in the order it logged   *)
(* them.  Gaps are allowed: a number whose insert failed is lost.           *)
(***************************************************************************)
EXTENDS Naturals, Sequences

CONSTANTS Callers, MaxSeq

VARIABLE log      \* the rows, in the order they were committed

Init == log = <<>>

AppendEvent(c) ==
    \E n \in 1..MaxSeq :
        /\ \A i \in 1..Len(log) : log[i].seq # n
        /\ \A i \in 1..Len(log) : log[i].by = c => log[i].seq < n
        /\ log' = Append(log, [seq |-> n, by |-> c])

Next == \E c \in Callers : AppendEvent(c)

Spec == Init /\ [][Next]_log
=============================================================================
