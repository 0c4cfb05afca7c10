------------------------------ MODULE NinquDag ------------------------------
(***************************************************************************)
(* What ninqu's executor promises, without levels, slots or counters: every *)
(* instance is passed over or run once, after everything it depends on, at  *)
(* most jobs_n at a time, and the run stops either complete or stuck behind *)
(* a cycle.                                                                 *)
(***************************************************************************)
EXTENDS Integers, FiniteSets

CONSTANTS ninsts, jobs_n

Inst == 1 .. ninsts

VARIABLES deps, status, outcome

vars == <<deps, status, outcome>>

In(st) == {v \in Inst : status[v] = st}

Init ==
  /\ deps \in [Inst -> SUBSET Inst]
  /\ status = [v \in Inst |-> "waiting"]
  /\ outcome = "running"

Ready(v) ==
  /\ outcome = "running"
  /\ status[v] = "waiting"
  /\ deps[v] \subseteq In("finished")

Start(v) ==
  /\ Ready(v)
  /\ Cardinality(In("running")) < jobs_n
  /\ status' = [status EXCEPT ![v] = "running"]
  /\ UNCHANGED <<deps, outcome>>

Pass(v) ==
  /\ Ready(v)
  /\ status' = [status EXCEPT ![v] = "finished"]
  /\ UNCHANGED <<deps, outcome>>

End(v) ==
  /\ status[v] = "running"
  /\ status' = [status EXCEPT ![v] = "finished"]
  /\ UNCHANGED <<deps, outcome>>

Stop ==
  /\ outcome = "running"
  /\ In("running") = {}
  /\ \A v \in In("waiting") : deps[v] \cap In("waiting") # {}
  /\ outcome' = IF In("waiting") = {} THEN "done" ELSE "cycle"
  /\ UNCHANGED <<deps, status>>

Next == (\E v \in Inst : Start(v) \/ Pass(v) \/ End(v)) \/ Stop

SafeSpec == Init /\ [][Next]_vars

Spec == SafeSpec /\ WF_vars(Next)

=============================================================================
