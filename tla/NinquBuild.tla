----------------------------- MODULE NinquBuild -----------------------------
(***************************************************************************)
(* What a sequence of ninqu runs does to the files: the executor of          *)
(* NinquSchedule with inst_stale() (expand.c) deciding what is run, the      *)
(* children of spawn_inst() and spawn_pipe() (exec.c) writing the outputs,   *)
(* and a user who edits sources, interrupts runs and starts new ones.        *)
(*                                                                          *)
(* Instance v writes file v; the files 1 - nsrc .. 0 are written by hand.    *)
(* The content of a file is abstracted to the edit of every source that went *)
(* into it, the oldest where several paths disagree.                         *)
(***************************************************************************)
EXTENDS NinquSchedule, FiniteSetsExt

CONSTANTS
  nsrc,       \* number of hand-written files
  MaxClock,   \* bound: seconds the clock may count
  MaxEdits,   \* bound: edits of one source
  MaxRuns,    \* bound: invocations of ninqu
  Manifests   \* the manifests considered, see ManifestOK

ASSUME BuildAssumption == nsrc \in Nat /\ MaxEdits \in Nat

Source == 1 - nsrc .. 0

File == Source \cup Inst

Kinds == {"plain", "redirect", "pipe", "phony"}

Untouched == MaxEdits + 1   \* a source that did not go into the file

Torn == [s \in Source |-> -1]   \* an output cut off or never completed

VARIABLES
  manifest,  \* insts[]: .in, .stale_extra, .dep_inst, and the rule's flags
  mtime,     \* st_mtime in whole seconds, -1 for a file that does not exist
  content,
  clock,
  stage,     \* how far the command of an instance has got
  seen,      \* what a command has read
  runs,      \* invocations so far
  wreck,     \* history: outputs left behind by a command that did not complete
  undone,    \* history: what was in wreck when the last run that was not -S returned 0;
             \* Inst if it did not, or if a file has been changed since
  predicted  \* history: what -S announced for the files as they are

buildVars == <<manifest, mtime, content, clock, stage, seen, runs, wreck, undone,
               predicted>>

vars == <<schedVars, buildVars>>

Inputs(v) == manifest.in[v] \cup manifest.stale_extra[v]

Kind(v) == manifest.kind[v]

(* Everything that goes into a file, through all instances: what every set   *)
(* of files with it has that holds the inputs of its members.                *)
Ingredients(f) ==
  {g \in File : \A S \in SUBSET File :
     f \in S /\ (\A v \in S \cap Inst : Inputs(v) \subseteq S) => g \in S}

(* Every input made by an instance was written (rule NAME), or resolved to   *)
(* it, so that the edge is in dep_inst; a phony instance makes no file.      *)
ManifestOK(m) ==
  /\ m.in \in [Inst -> SUBSET File]
  /\ m.stale_extra \in [Inst -> SUBSET File]
  /\ m.dep_inst \in [Inst -> SUBSET Inst]
  /\ m.kind \in [Inst -> Kinds]
  /\ \A v \in Inst : \A u \in (m.in[v] \cup m.stale_extra[v]) \cap Inst :
       u \in m.dep_inst[v] /\ m.kind[u] # "phony"

Edited(n) == [s \in Source |-> [x \in Source |-> IF x = s THEN n ELSE Untouched]]

BuildInit ==
  /\ Init
  /\ pc = "scan"
  /\ manifest \in Manifests
  /\ ManifestOK(manifest)
  /\ dep_inst = manifest.dep_inst
  /\ mtime = [f \in File |-> IF f \in Source THEN 0 ELSE -1]
  /\ content = [f \in File |-> IF f \in Source THEN Edited(0)[f] ELSE Torn]
  /\ clock = 0
  /\ stage = [v \in Inst |-> "none"]
  /\ seen = [v \in Inst |-> Torn]
  /\ runs = 1
  /\ wreck = {}
  /\ undone = Inst
  /\ predicted = Inst

-----------------------------------------------------------------------------
(* The parent process.                                                       *)

file_exists(f) == mtime[f] >= 0

Mut_ExtraIgnored(v) ==
  \/ Kind(v) = "phony"
  \/ ~file_exists(v)
  \/ \E f \in manifest.in[v] : mtime[f] > mtime[v]

Mut_StaleOnTie(v) ==
  \/ Kind(v) = "phony"
  \/ ~file_exists(v)
  \/ \E f \in manifest.in[v] : mtime[f] >= mtime[v]
  \/ \E f \in manifest.stale_extra[v] : file_exists(f) /\ mtime[f] > mtime[v]

inst_stale(v) ==
  \/ Kind(v) = "phony"
  \/ ~file_exists(v)
  \/ \E f \in manifest.in[v] : mtime[f] > mtime[v]
  \/ \E f \in manifest.stale_extra[v] : file_exists(f) /\ mtime[f] > mtime[v]

Skip == SkipFresh /\ ~inst_stale(level[next]) /\ UNCHANGED buildVars

(* announce_inst(), whose mk_out_dir() sees to it that the directory of the  *)
(* output exists, and spawn_inst() or spawn_pipe()                           *)
Run ==
  /\ Spawn
  /\ inst_stale(level[next])
  /\ stage' = [stage EXCEPT ![level[next]] = "forked"]
  /\ UNCHANGED <<manifest, mtime, content, clock, seen, runs, wreck, undone, predicted>>

Report == Summarise(inst_stale(level[next])) /\ UNCHANGED buildVars

Sort ==
  /\ \/ Scan \/ StartLevel \/ (\E k \in Inst : Reap(k)) \/ EndLevel \/ Retire
     \/ RetireNext
  /\ UNCHANGED buildVars

(* main() returns; -S leaves its prediction, a real run its exit status.     *)
Return ==
  /\ Finish
  /\ predicted' = IF summary_mode THEN {v \in Inst : will_build[v]} ELSE Inst
  /\ undone' = IF summary_mode THEN undone
               ELSE IF pc' = "done" /\ ~failed_any THEN wreck ELSE Inst
  /\ UNCHANGED <<manifest, mtime, content, clock, stage, seen, runs, wreck>>

-----------------------------------------------------------------------------
(* The children.                                                             *)

ChildAt(v, st) == child[v] = "alive" /\ stage[v] = st

Truncate(v) ==
  /\ mtime' = [mtime EXCEPT ![v] = clock]
  /\ content' = [content EXCEPT ![v] = Torn]
  /\ wreck' = wreck \cup {v}
  /\ UNCHANGED <<schedVars, manifest, clock, seen, runs, undone, predicted>>

(* fopen(inst->out, "w") in the child of spawn_inst()                        *)
OpenRedirect(v) ==
  /\ ChildAt(v, "forked")
  /\ Kind(v) = "redirect"
  /\ Truncate(v)
  /\ stage' = [stage EXCEPT ![v] = "opened"]

Oldest(v) == [s \in Source |-> Min({Untouched} \cup {content[f][s] : f \in Inputs(v)})]

ReadInputs(v) ==
  /\ ChildAt(v, IF Kind(v) = "redirect" THEN "opened" ELSE "forked")
  /\ \A f \in Inputs(v) : file_exists(f)
  /\ seen' = [seen EXCEPT ![v] = Oldest(v)]
  /\ stage' = [stage EXCEPT ![v] = "read"]
  /\ UNCHANGED <<schedVars, manifest, mtime, content, clock, runs, wreck, undone, predicted>>

(* Any other command opens its output itself, some time before it is done.   *)
OpenOutput(v) ==
  /\ ChildAt(v, "read")
  /\ Kind(v) \in {"plain", "pipe"}
  /\ Truncate(v)
  /\ stage' = [stage EXCEPT ![v] = "writing"]

Succeed(v) ==
  /\ ChildAt(v, "read") \/ ChildAt(v, "writing")
  /\ ChildExit(v, "ok")
  /\ stage' = [stage EXCEPT ![v] = "none"]
  /\ IF Kind(v) = "phony"
       THEN UNCHANGED <<mtime, content, wreck>>
       ELSE /\ mtime' = [mtime EXCEPT ![v] = clock]
            /\ content' = [content EXCEPT ![v] = seen[v]]
            /\ wreck' = wreck \ {v}
  /\ UNCHANGED <<manifest, clock, seen, runs, undone, predicted>>

(* A command gives up, leaving its output as it is.  The supervisor of a     *)
(* pipeline waits for the stages and exits 0 whatever they returned; but for   *)
(* chdir(), pipe() or fork() it may fail itself.                             *)
Fail(v) ==
  /\ child[v] = "alive"
  /\ \E status \in IF Kind(v) = "pipe" THEN {"ok", "failed"} ELSE {"failed"} :
       /\ ChildExit(v, status)
       /\ wreck' = IF status = "ok" THEN wreck \cup {v} ELSE wreck
  /\ stage' = [stage EXCEPT ![v] = "none"]
  /\ UNCHANGED <<manifest, mtime, content, clock, seen, runs, undone, predicted>>

-----------------------------------------------------------------------------
(* The user.  Whole seconds are all inst_stale() sees, so the guarantees are *)
(* for a user who lets one pass before editing a file or starting a run, and *)
(* who edits while ninqu is not running.                                     *)

Idle == pc \in {"done", "cycle", "killed"}

Settled == \A f \in File : mtime[f] < clock

Tick ==
  /\ clock < MaxClock
  /\ clock' = clock + 1
  /\ UNCHANGED <<schedVars, manifest, mtime, content, stage, seen, runs, wreck, undone,
                 predicted>>

Edit(s) ==
  /\ Idle /\ Settled
  /\ content[s][s] < MaxEdits
  /\ mtime' = [mtime EXCEPT ![s] = clock]
  /\ content' = [content EXCEPT ![s] = Edited(content[s][s] + 1)[s]]
  /\ undone' = Inst
  /\ predicted' = Inst
  /\ UNCHANGED <<schedVars, manifest, clock, stage, seen, runs, wreck>>

(* An output is deleted by hand.                                             *)
Remove(v) ==
  /\ Idle /\ file_exists(v)
  /\ mtime' = [mtime EXCEPT ![v] = -1]
  /\ content' = [content EXCEPT ![v] = Torn]
  /\ wreck' = wreck \ {v}
  /\ undone' = Inst
  /\ predicted' = Inst
  /\ UNCHANGED <<schedVars, manifest, clock, stage, seen, runs>>

(* The terminal interrupts ninqu and its commands.                           *)
Interrupt ==
  /\ ~Idle
  /\ pc' = "killed"
  /\ child' = [v \in Inst |-> "none"]
  /\ stage' = [v \in Inst |-> "none"]
  /\ undone' = Inst
  /\ predicted' = Inst
  /\ UNCHANGED <<dep_inst, summary_mode, i, indeg, level, next_level, todo, next, slot,
                 done_count, failed_any, will_build, completed>>
  /\ UNCHANGED <<manifest, mtime, content, clock, seen, runs, wreck>>

Invoke(mode) ==
  /\ Idle /\ Settled /\ runs < MaxRuns
  /\ runs' = runs + 1
  /\ summary_mode' = mode
  /\ pc' = "scan" /\ i' = 1 /\ level' = <<>> /\ next_level' = <<>> /\ todo' = {}
  /\ indeg' = [v \in Inst |-> InitialIndeg(v)]
  /\ next' = 1 /\ slot' = <<>> /\ child' = [v \in Inst |-> "none"]
  /\ done_count' = 0 /\ failed_any' = FALSE /\ completed' = {}
  /\ will_build' = [v \in Inst |-> FALSE]
  /\ UNCHANGED <<dep_inst, manifest, mtime, content, clock, stage, seen, wreck, undone,
                 predicted>>

Process == Skip \/ Run \/ Report \/ Sort \/ Return

Command == \E v \in Inst :
  OpenRedirect(v) \/ ReadInputs(v) \/ OpenOutput(v) \/ Succeed(v) \/ Fail(v)

User ==
  \/ Tick \/ Interrupt
  \/ \E s \in Source : Edit(s)
  \/ \E v \in Inst : Remove(v)
  \/ \E mode \in BOOLEAN : Invoke(mode)

BuildNext == Process \/ Command \/ User

BuildSpec == BuildInit /\ [][BuildNext]_vars

-----------------------------------------------------------------------------

(* The files, their times and the state of a run of ninqu keep their types.  *)
BuildTypeOK ==
  /\ mtime \in [File -> -1 .. clock]
  /\ content \in [File -> [Source -> -1 .. Untouched]]
  /\ clock \in 0 .. MaxClock
  /\ \A v \in Inst : stage[v] \in {"none", "forked", "opened", "read", "writing"}
  /\ \A v \in Inst : stage[v] # "none" <=> child[v] = "alive"
  /\ wreck \subseteq Inst /\ undone \subseteq Inst /\ predicted \subseteq Inst

UpToDate(v) ==
  \A s \in Source :
    content[v][s] = IF s \in Ingredients(v) THEN content[s][s] ELSE Untouched

(* When ninqu returns 0, every output was made from the sources as they are,  *)
(* through all intermediate outputs, whatever failed or was interrupted in    *)
(* earlier runs; except what goes back to an output that a command left       *)
(* behind half-written, or a pipeline of which a stage failed.                *)
BuildSound ==
  [][pc # "done" /\ pc' = "done" /\ ~summary_mode /\ ~failed_any =>
       \A v \in Inst :
         \/ Kind(v) = "phony" \/ UpToDate(v)
         \/ Ingredients(v) \cap wreck # {}]_vars

(* The same without the exception.  It does not hold: nothing tells a          *)
(* half-written output from a finished one, as both are newer than its inputs.  *)
ExitMeansUpToDate ==
  [][pc # "done" /\ pc' = "done" /\ ~summary_mode /\ ~failed_any =>
       \A v \in Inst : Kind(v) = "phony" \/ UpToDate(v)]_vars

(* After a run that returned 0, a second one starts nothing but phony rules;  *)
(* except what goes back to an output that a command had left behind half-    *)
(* written, or a pipeline of which a stage failed: its supervisor returns 0,   *)
(* so that the run does, and it is run again with all that is made from it.    *)
NoRework ==
  ~summary_mode /\ ~Idle =>
    \A v \in Inst : child[v] # "none" =>
      Kind(v) = "phony" \/ Ingredients(v) \cap undone # {}

(* A run starts no command that -S, asked before about the same files, did    *)
(* not announce as BUILD.                                                     *)
SummarySound ==
  ~summary_mode => \A v \in Inst : child[v] # "none" => v \in predicted
=============================================================================
