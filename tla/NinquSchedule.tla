--------------------------- MODULE NinquSchedule ---------------------------
(***************************************************************************)
(* The executor of ninqu: schedule_and_run() (schedule.c) and run_batch()   *)
(* (exec.c).  Kahn's algorithm sorts the instances into levels; the members *)
(* of one level run in parallel, at most jobs_n at a time, and the next     *)
(* level starts when the last of them has been waited for.                  *)
(*                                                                          *)
(* Whether an instance is stale and how its command ends is left open here: *)
(* NinquBuild adds the files that decide both.                              *)
(***************************************************************************)
EXTENDS Integers, Sequences, FiniteSets

CONSTANTS
  ninsts,   \* number of rule instances
  jobs_n    \* -j, estrtonum(.., 1, INT_MAX)

ASSUME NinstsAssumption == ninsts \in Nat

ASSUME JobsAssumption == jobs_n \in Nat \ {0}

Inst == 1 .. ninsts

VARIABLES
  dep_inst,     \* insts[i].dep_inst as resolve_deps() left it, without duplicates
  summary_mode, \* -S
  pc,           \* where schedule_and_run() is
  i,            \* the loop index of the initial scan and of the retire loop
  indeg,        \* indeg[], dependencies of an instance not yet retired
  level,        \* level[0 .. levn-1]
  next_level,   \* next_level[0 .. nextn-1]
  todo,         \* dependents[level[i]] the retire loop has yet to visit
  next,         \* run_batch(): position in level of the next instance
  slot,         \* run_batch(): slot[0 .. running-1], the instances being run
  child,        \* the command of an instance: not forked, alive, or how it ended
  done_count,
  failed_any,
  will_build,   \* insts[i].will_build (summary mode)
  completed     \* history: instances skipped, waited for, or summarised

schedVars == <<dep_inst, summary_mode, pc, i, indeg, level, next_level, todo, next,
               slot, child, done_count, failed_any, will_build, completed>>

Dependents(u) == {v \in Inst : u \in dep_inst[v]}

Members(s) == {s[k] : k \in 1 .. Len(s)}

Children == {"none", "alive", "ok", "failed"}

(* indeg[i] = insts[i].n_dep *)
InitialIndeg(v) == Cardinality(dep_inst[v])

Init ==
  /\ dep_inst \in [Inst -> SUBSET Inst]
  /\ summary_mode \in BOOLEAN
  /\ pc = "scan"
  /\ i = 1
  /\ indeg = [v \in Inst |-> InitialIndeg(v)]
  /\ level = <<>>
  /\ next_level = <<>>
  /\ todo = {}
  /\ next = 1
  /\ slot = <<>>
  /\ child = [v \in Inst |-> "none"]
  /\ done_count = 0
  /\ failed_any = FALSE
  /\ will_build = [v \in Inst |-> FALSE]
  /\ completed = {}

(* The first level: every instance without dependencies, in index order.   *)
Scan ==
  /\ pc = "scan"
  /\ IF i <= ninsts
       THEN /\ level' = IF indeg[i] = 0 THEN Append(level, i) ELSE level
            /\ i' = i + 1
            /\ pc' = pc
       ELSE /\ pc' = "loop"
            /\ UNCHANGED <<level, i>>
  /\ UNCHANGED <<dep_inst, summary_mode, indeg, next_level, todo, next, slot, child,
                 done_count, failed_any, will_build, completed>>

(* while (levn > 0): enter the body with an empty next_level.              *)
StartLevel ==
  /\ pc = "loop"
  /\ level # <<>>
  /\ pc' = IF summary_mode THEN "summary" ELSE "batch"
  /\ next' = 1
  /\ next_level' = <<>>
  /\ UNCHANGED <<dep_inst, summary_mode, i, indeg, level, todo, slot, child, done_count,
                 failed_any, will_build, completed>>

Mut_AnyProgress == done_count = 0

CycleLeft == done_count < ninsts

(* After the loop: main() returns failed_any, or eprintf() reports a cycle. *)
Finish ==
  /\ pc = "loop"
  /\ level = <<>>
  /\ pc' = IF CycleLeft THEN "cycle" ELSE "done"
  /\ UNCHANGED <<dep_inst, summary_mode, i, indeg, level, next_level, todo, next, slot,
                 child, done_count, failed_any, will_build, completed>>

(* run_batch(): the inner while has room and an instance to look at.        *)
Mut_RoomForOneMore ==
  /\ pc = "batch"
  /\ Len(slot) <= jobs_n
  /\ next <= Len(level)

CanStart ==
  /\ pc = "batch"
  /\ Len(slot) < jobs_n
  /\ next <= Len(level)

SkipFresh ==
  /\ CanStart
  /\ next' = next + 1
  /\ completed' = completed \cup {level[next]}
  /\ UNCHANGED <<dep_inst, summary_mode, pc, i, indeg, level, next_level, todo, slot,
                 child, done_count, failed_any, will_build>>

Spawn ==
  /\ CanStart
  /\ slot' = Append(slot, level[next])
  /\ child' = [child EXCEPT ![level[next]] = "alive"]
  /\ next' = next + 1
  /\ UNCHANGED <<dep_inst, summary_mode, pc, i, indeg, level, next_level, todo,
                 done_count, failed_any, will_build, completed>>

(* A command ends, with status 0 or not; it stays a zombie until waited for. *)
ChildExit(v, status) ==
  /\ child[v] = "alive"
  /\ child' = [child EXCEPT ![v] = status]
  /\ UNCHANGED <<dep_inst, summary_mode, pc, i, indeg, level, next_level, todo, next,
                 slot, done_count, failed_any, will_build, completed>>

(* pids[i] = pids[running - 1]; slot[i] = slot[running - 1]; running--         *)
DropSlot(k) ==
  [m \in 1 .. Len(slot) - 1 |-> IF m = k THEN slot[Len(slot)] ELSE slot[m]]

FailedAfter(v) == failed_any \/ child[v] = "failed"

(* wait() returns the child in slot k; the last slot moves into its place.   *)
Reap(k) ==
  /\ pc = "batch"
  /\ ~CanStart
  /\ k \in 1 .. Len(slot)
  /\ child[slot[k]] \in {"ok", "failed"}
  /\ failed_any' = FailedAfter(slot[k])
  /\ completed' = completed \cup {slot[k]}
  /\ slot' = DropSlot(k)
  /\ UNCHANGED <<dep_inst, summary_mode, pc, i, indeg, level, next_level, todo, next,
                 child, done_count, will_build>>

Mut_OwnStalenessOnly(v, stale) == stale

WillBuild(v, stale) == stale \/ \E d \in dep_inst[v] : will_build[d]

Mut_SummariseStuck(stale) ==
  /\ pc = "summary"
  /\ next <= Len(level)
  /\ will_build' = [will_build EXCEPT ![level[next]] = WillBuild(level[next], stale)]
  /\ UNCHANGED <<dep_inst, summary_mode, pc, i, indeg, level, next_level, todo, next,
                 slot, child, done_count, failed_any, completed>>

(* The summary loop: report instance level[next] as BUILD or OK.            *)
Summarise(stale) ==
  /\ pc = "summary"
  /\ next <= Len(level)
  /\ will_build' = [will_build EXCEPT ![level[next]] = WillBuild(level[next], stale)]
  /\ completed' = completed \cup {level[next]}
  /\ next' = next + 1
  /\ UNCHANGED <<dep_inst, summary_mode, pc, i, indeg, level, next_level, todo, slot,
                 child, done_count, failed_any>>

(* run_batch() returns, or the summary loop ends: start retiring the level. *)
EndLevel ==
  /\ pc \in {"batch", "summary"}
  /\ next > Len(level)
  /\ slot = <<>>
  /\ done_count' = done_count + Len(level)
  /\ pc' = "retire"
  /\ i' = 1
  /\ todo' = Dependents(level[1])
  /\ UNCHANGED <<dep_inst, summary_mode, indeg, level, next_level, next, slot, child,
                 failed_any, will_build, completed>>

BecomesReady(v) == indeg[v] = 1

(* if (--indeg[v] == 0) next_level[nextn++] = v, v in index order.           *)
Retire ==
  /\ pc = "retire"
  /\ \E v \in todo :
       /\ \A w \in todo : v <= w
       /\ indeg' = [indeg EXCEPT ![v] = @ - 1]
       /\ next_level' = IF BecomesReady(v) THEN Append(next_level, v) ELSE next_level
       /\ todo' = todo \ {v}
  /\ UNCHANGED <<dep_inst, summary_mode, pc, i, level, next, slot, child, done_count,
                 failed_any, will_build, completed>>

(* The retire loop advances to the next member, or next_level becomes level. *)
RetireNext ==
  /\ pc = "retire"
  /\ todo = {}
  /\ IF i < Len(level)
       THEN /\ i' = i + 1
            /\ todo' = Dependents(level[i + 1])
            /\ UNCHANGED <<pc, level>>
       ELSE /\ pc' = "loop"
            /\ level' = next_level
            /\ UNCHANGED <<i, todo>>
  /\ UNCHANGED <<dep_inst, summary_mode, indeg, next_level, next, slot, child,
                 done_count, failed_any, will_build, completed>>

Parent ==
  \/ Scan \/ StartLevel \/ Finish
  \/ SkipFresh \/ Spawn \/ (\E k \in Inst : Reap(k))
  \/ \E stale \in BOOLEAN : Summarise(stale)
  \/ EndLevel \/ Retire \/ RetireNext

Commands == \E v \in Inst, status \in {"ok", "failed"} : ChildExit(v, status)

(* The process has exited.                                                   *)
Exited == pc \in {"done", "cycle"} /\ UNCHANGED schedVars

Next == Parent \/ Commands \/ Exited

Spec == Init /\ [][Next]_schedVars

(* ninqu itself never stops between two steps, and commands terminate.       *)
FairSpec == Spec /\ WF_schedVars(Parent) /\ WF_schedVars(Commands)

-----------------------------------------------------------------------------

(* The arrays and counters of schedule_and_run() and run_batch() keep their  *)
(* types; no in-degree goes below 0.                                         *)
TypeOK ==
  /\ dep_inst \in [Inst -> SUBSET Inst]
  /\ summary_mode \in BOOLEAN
  /\ pc \in {"scan", "loop", "batch", "summary", "retire", "cycle", "done"}
  /\ i \in Nat \ {0}
  /\ indeg \in [Inst -> Nat]
  /\ level \in Seq(Inst)
  /\ next_level \in Seq(Inst)
  /\ todo \in SUBSET Inst
  /\ next \in Nat \ {0}
  /\ slot \in Seq(Inst)
  /\ child \in [Inst -> Children]
  /\ done_count \in Nat
  /\ failed_any \in BOOLEAN
  /\ will_build \in [Inst -> BOOLEAN]
  /\ completed \in SUBSET Inst

(* A command is forked only when every instance its rule depends on has been *)
(* found fresh or waited for: the levels of schedule_and_run() respect every *)
(* edge of dep_inst, whatever the graph.                                     *)
DepsFirst ==
  \A v \in Inst : child[v] # "none" => dep_inst[v] \subseteq completed

(* run_batch() keeps at most jobs_n commands, its slots name them without    *)
(* repetition, and no command that is alive, or dead but not waited for, is   *)
(* missing from them: the swap on removal loses nobody.                       *)
SlotsExact ==
  /\ Len(slot) <= jobs_n
  /\ \A k, m \in 1 .. Len(slot) : slot[k] = slot[m] => k = m
  /\ Members(slot) = {v \in Inst : child[v] # "none" /\ v \notin completed}

Left == Inst \ completed

(* schedule_and_run() reports a cycle only when there is one: every instance *)
(* left over waits for another that is left over.  Without the report no     *)
(* instance was left out, also when commands failed ("one broken file does   *)
(* not block the rest").                                                     *)
CycleHonest ==
  /\ pc = "cycle" => /\ Left # {}
                     /\ \A v \in Left : dep_inst[v] \cap Left # {}
  /\ pc = "done" => Left = {}

(* The exit status main() returns is 1 exactly when some command failed.      *)
StatusHonest ==
  pc = "done" => (failed_any <=> \E v \in Inst : child[v] = "failed")

(* The summary closes BUILD under dependencies: an instance after one that    *)
(* will build is reported BUILD as well.                                      *)
SummaryClosed ==
  summary_mode =>
    \A v \in completed : (\E d \in dep_inst[v] : will_build[d]) => will_build[v]

(* No command of the run is started a second time, and one that was waited    *)
(* for is never touched again.                                                *)
RunOnce ==
  [][\A v \in Inst :
       /\ child[v] # "none" /\ child'[v] # child[v] => child[v] = "alive"
       /\ v \in completed => v \in completed' /\ child'[v] = child[v]]_schedVars

(* The executor implements the promise of NinquDag: every step of             *)
(* schedule_and_run() and run_batch() is a step of NinquDag or none, and a    *)
(* run that NinquDag would continue is continued.                             *)
Dag == INSTANCE NinquDag WITH
  deps <- dep_inst,
  status <- [v \in Inst |-> IF v \in completed THEN "finished"
                            ELSE IF v \in Members(slot) THEN "running" ELSE "waiting"],
  outcome <- IF pc \in {"done", "cycle"} THEN pc ELSE "running"

(* schedule_and_run() with run_batch() implements NinquDag: each instance once, *)
(* after what it depends on, jobs_n at a time, to the end or to a cycle.     *)
ImplementsDag == Dag!Spec

(* schedule_and_run() returns or reports a cycle, whatever the graph.         *)
Terminates == <>(pc \in {"done", "cycle"})

-----------------------------------------------------------------------------
(* The inductive invariant behind the properties above.                      *)

Injective(s) == \A k, m \in 1 .. Len(s) : s[k] = s[m] => k = m

(* The retire loop has decremented indeg[v] on behalf of u.                   *)
Counted(u, v) ==
  /\ u \in completed
  /\ u \in Members(level) =>
       /\ pc = "retire"
       /\ \E k \in 1 .. Len(level) :
            level[k] = u /\ (k < i \/ (k = i /\ v \notin todo))

Uncounted(v) == {u \in dep_inst[v] : ~Counted(u, v)}

IndegExact == \A v \in Inst : indeg[v] = Cardinality(Uncounted(v))

LevelsDistinct == Injective(level) /\ Injective(next_level) /\ Injective(slot)

Placed == Members(level) \cup Members(next_level) \cup completed

ScanInv ==
  pc = "scan" =>
    /\ completed = {} /\ next_level = <<>> /\ slot = <<>>
    /\ Members(level) = {v \in Inst : v < i /\ indeg[v] = 0}

(* Past the scan, the instances without uncounted dependencies are exactly    *)
(* the ones in a level, in the next level, or completed.                      *)
PlacedInv == pc # "scan" => {v \in Inst : indeg[v] = 0} = Placed

LoopInv ==
  pc = "loop" =>
    /\ Members(level) \cap completed = {}
    /\ Members(next_level) \subseteq Members(level) /\ slot = <<>>

BatchInv ==
  pc \in {"batch", "summary"} =>
    /\ level # <<>> /\ next_level = <<>>
    /\ next <= Len(level) + 1
    /\ \A k \in 1 .. Len(level) :
         /\ k >= next => level[k] \notin completed \cup Members(slot)
         /\ k < next => level[k] \in completed \cup Members(slot)
    /\ Members(slot) \subseteq Members(level)
    /\ Members(slot) \cap completed = {}

RetireInv ==
  pc = "retire" =>
    /\ i \in 1 .. Len(level) /\ slot = <<>>
    /\ todo \subseteq Dependents(level[i])
    /\ Members(level) \subseteq completed
    /\ Members(next_level) \cap completed = {}

EndInv ==
  pc \in {"done", "cycle"} =>
    /\ level = <<>> /\ next_level = <<>> /\ slot = <<>>
    /\ CycleLeft <=> pc = "cycle"

DoneCountInv ==
  done_count = Cardinality(IF pc = "retire" THEN completed
                                            ELSE completed \ Members(level))

ChildInv ==
  /\ \A v \in Inst : v \notin completed => (child[v] # "none" <=> v \in Members(slot))
  /\ \A v \in completed : child[v] # "alive"
  /\ Len(slot) <= jobs_n
  /\ failed_any <=> \E v \in completed : child[v] = "failed"

(* What makes the properties hold: indeg counts exactly the dependencies the  *)
(* retire loop has not yet counted, and every instance without one is placed  *)
(* in exactly one level.                                                      *)
IInv ==
  /\ TypeOK
  /\ IndegExact /\ LevelsDistinct /\ PlacedInv
  /\ ScanInv /\ LoopInv /\ BatchInv /\ RetireInv /\ EndInv
  /\ DoneCountInv /\ ChildInv
=============================================================================
