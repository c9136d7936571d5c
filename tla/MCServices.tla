---------------------------- MODULE MCServices -----------------------------
(* Instances of Finalize and of ProviderRouter for TLC.  The two share no     *)
(* state, so a behaviour shows one of them at work and the other untouched:   *)
(* interleaving their steps would multiply the states and show nothing more.  *)
EXTENDS Finalize, ProviderRouter

VARIABLE shown

CallSets == {[ok |-> 0, failed |-> 0], [ok |-> 2, failed |-> 1]}

Untouched == <<[calls |-> [ok |-> 0, failed |-> 0], skill |-> "none"], 0>>

Init ==
    /\ FinalizeInit /\ RouterInit
    /\ \/ shown = "finalize" /\ providers = {Mock}
       \/ /\ shown = "router"
          /\ \A r \in Runs : run[r] = Untouched[1]
          /\ \A a \in Analyses : request[a].roles = Untouched[2]

Next ==
    \/ shown = "finalize" /\ FinalizeNext /\ UNCHANGED <<routerVars, shown>>
    \/ shown = "router" /\ RouterNext /\ UNCHANGED <<finalizeVars, shown>>

Fairness == /\ shown = "finalize" => FinalizeFairness
            /\ shown = "router"   => RouterFairness

Spec == Init /\ [][Next]_<<finalizeVars, routerVars, shown>> /\ Fairness

\* FinalizeEnds, of the behaviours that show a finalization.
RunsAndAnalysesEnd == shown = "finalize" => FinalizeEnds
=============================================================================
