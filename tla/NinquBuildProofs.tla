------------------------- MODULE NinquBuildProofs --------------------------
(***************************************************************************)
(* Theorems about what the runs of ninqu do to the files, for every manifest *)
(* and every history of edits, failures and interrupted runs.                *)
(***************************************************************************)
EXTENDS NinquBuild, NinquScheduleProofs

(* The files: no time lies in the future, sources exist and hold their own   *)
(* edit, and the executor's edges are the manifest's.                        *)
FileInv ==
  /\ ManifestOK(manifest) /\ dep_inst = manifest.dep_inst
  /\ mtime \in [File -> Int] /\ DOMAIN content = File
  /\ DOMAIN stage = Inst /\ DOMAIN seen = Inst /\ wreck \subseteq Inst
  /\ clock \in Nat /\ \A f \in File : mtime[f] <= clock
  /\ \A s \in Source : /\ file_exists(s)
                       /\ content[s][s] \in 0 .. MaxEdits
                       /\ content[s] = Edited(content[s][s])[s]

(* A run that was not interrupted is one of NinquSchedule; what is left of    *)
(* an interrupted one, and a run of -S, has no commands.                     *)
ExecInv ==
  /\ pc # "killed" => IInv
  /\ ModeInv
  /\ pc = "killed" \/ summary_mode => \A v \in Inst : child[v] = "none"

(* No set of instances each of which waits for another of the set is ever     *)
(* completed in part.                                                        *)
AcyclicInv ==
  pc # "killed" =>
    \A S \in SUBSET Inst : (\A v \in S : dep_inst[v] \cap S # {}) => S \cap completed = {}

(* What the run at hand has not come to yet is older than the present second. *)
TimesInv ==
  ~Idle => \A v \in Inst : v \notin completed /\ child[v] = "none" => mtime[v] < clock

Passed(v) == child[v] = "ok" \/ (v \in completed /\ child[v] # "failed")

InOrder(v) == Kind(v) = "phony" \/ v \in wreck \/ ~inst_stale(v)

(* What the run at hand has made or skipped is not stale.                     *)
DoneInv == ~summary_mode /\ ~Idle => \A v \in Inst : Passed(v) => InOrder(v)

(* An output that nothing marks as outdated has the content its inputs give.  *)
LocalAt(v) ==
  \/ Kind(v) = "phony" \/ v \in wreck \/ ~file_exists(v)
  \/ \E f \in Inputs(v) : ~file_exists(f) \/ mtime[f] > mtime[v]
  \/ content[v] = Oldest(v)

LocalInv == \A v \in Inst : LocalAt(v)

(* The inputs of a command stay as it has read them.                          *)
SeenInv ==
  \A v \in Inst :
    child[v] = "alive" /\ stage[v] \in {"read", "writing"} => seen[v] = Oldest(v)

(* What a run after one that returned 0 may start                             *)
Redone(v) == Kind(v) = "phony" \/ Ingredients(v) \cap undone # {}

(* Nothing else is stale or run, until the user changes a file.                *)
CleanInv ==
  /\ \A v \in Inst : Redone(v) \/ ~inst_stale(v)
  /\ ~summary_mode /\ ~Idle => \A v \in Inst : child[v] # "none" => Redone(v)

(* While -S goes through the instances the files stay as they are; an instance *)
(* it has come to is announced if it is stale or depends on one announced.     *)
SummaryInv ==
  summary_mode /\ ~Idle =>
    \A v \in Inst :
      IF v \in completed
        THEN inst_stale(v) \/ (\E d \in dep_inst[v] : will_build[d]) => will_build[v]
        ELSE ~will_build[v]

(* The instances that -S did not announce: those it never came to, waiting    *)
(* for each other, and others that are in order and depend on such only.      *)
Announced(left) ==
  /\ left \cap predicted = {}
  /\ \A v \in left : dep_inst[v] \cap left # {}
  /\ \A v \in Inst \ (predicted \cup left) :
       ~inst_stale(v) /\ dep_inst[v] \cap predicted = {}
  /\ ~summary_mode => \A v \in Inst : child[v] # "none" => v \in predicted

PredictInv == \E left \in SUBSET Inst : Announced(left)

-----------------------------------------------------------------------------

(* The initial states of the executor satisfy IInv wherever they are.         *)
LEMMA FreshRun == Init' => IInv'
BY InitIInv, PTL

(* A run that returns has left nothing out, or reports a cycle.               *)
LEMMA FreshEnd == IInv' => CycleHonest'
BY EndCycleHonest, PTL

(* Sources and instances are different files.                                 *)
LEMMA FilesApart ==
  /\ Inst \subseteq File /\ Source \subseteq File /\ Inst \cap Source = {}
  /\ \A f \in File : f \in Inst \/ f \in Source
  /\ Untouched \in Int /\ Untouched > MaxEdits
BY NinstsAssumption, BuildAssumption DEF Inst, Source, File, Untouched

(* What the manifest gives for an instance.                                   *)
LEMMA ManifestMeaning ==
  ASSUME FileInv, NEW v \in Inst
  PROVE  /\ Inputs(v) \subseteq File /\ Kind(v) \in Kinds
         /\ manifest.in[v] \subseteq Inputs(v) /\ manifest.stale_extra[v] \subseteq Inputs(v)
         /\ \A u \in Inputs(v) \cap Inst : u \in dep_inst[v] /\ Kind(u) # "phony"
BY Zenon DEF FileInv, ManifestOK, Inputs, Kind

(* An instance that was started, skipped or reported depends on such only.     *)
LEMMA StartedDeps ==
  ASSUME IInv, NEW v \in Inst, child[v] # "none" \/ v \in completed
  PROVE  dep_inst[v] \subseteq completed
<1>1. v \in completed \/ v \in Members(slot)
  BY Zenon DEF IInv, ChildInv
<1>2. v \in Placed /\ pc # "scan"
  BY Zenon, <1>1, SlotPlaced DEF Placed
<1>3. QED
  BY Zenon, <1>2, PlacedDeps

(* What holds while a command runs: its own inputs are final, and what it is   *)
(* an input of has not been touched by the run.                               *)
LEMMA WhileAlive ==
  ASSUME FileInv, ExecInv, NEW v \in Inst, child[v] = "alive"
  PROVE  /\ IInv /\ ~Idle /\ ~summary_mode /\ v \notin completed
         /\ \A u \in Inputs(v) \cap Inst : child[u] # "alive" /\ u # v
         /\ \A w \in Inst : v \in Inputs(w) => child[w] = "none" /\ w \notin completed
<1>1. pc # "killed" /\ ~summary_mode /\ IInv
  BY Zenon DEF ExecInv
<1>2. v \notin completed /\ v \in Members(slot)
  BY Zenon, <1>1 DEF IInv, ChildInv
<1>3. slot # <<>>
  BY <1>2 DEF Members
<1>4. ~Idle
  BY Zenon, <1>1, <1>3 DEF IInv, EndInv, Idle
<1>5. \A u \in Inputs(v) \cap Inst : child[u] # "alive" /\ u # v
  <2> SUFFICES ASSUME NEW u \in Inputs(v) \cap Inst PROVE child[u] # "alive" /\ u # v
    BY Zenon
  <2>1. u \in completed
    BY Zenon, <1>1, StartedDeps, ManifestMeaning
  <2>2. QED
    BY Zenon, <1>1, <1>2, <2>1 DEF IInv, ChildInv
<1>6. \A w \in Inst : v \in Inputs(w) => child[w] = "none" /\ w \notin completed
  <2> SUFFICES ASSUME NEW w \in Inst, v \in Inputs(w), child[w] # "none" \/ w \in completed
               PROVE  FALSE
    BY Zenon
  <2>1. v \in dep_inst[w]
    BY Zenon, ManifestMeaning
  <2>2. v \in completed
    BY Zenon, <1>1, <2>1, StartedDeps
  <2>3. QED
    BY Zenon, <1>2, <2>2
<1>7. QED
  BY Zenon, <1>1, <1>2, <1>4, <1>5, <1>6

(* Staleness depends on the times of an output and its inputs only, ...        *)
LEMMA StaleSame ==
  ASSUME FileInv, manifest' = manifest, NEW v \in Inst, mtime'[v] = mtime[v],
         \A f \in Inputs(v) : mtime'[f] = mtime[f]
  PROVE  inst_stale(v)' <=> inst_stale(v)
BY Zenon, ManifestMeaning DEF inst_stale, Kind, file_exists

(* ... and what a command makes on the contents of its inputs.                 *)
LEMMA OldestSame ==
  ASSUME manifest' = manifest, NEW v \in Inst,
         \A f \in Inputs(v) : content'[f] = content[f]
  PROVE  Oldest(v)' = Oldest(v)
<1>1. Inputs(v)' = Inputs(v)
  BY Zenon DEF Inputs
<1>2. \A s \in Source : {content'[f][s] : f \in Inputs(v)} = {content[f][s] : f \in Inputs(v)}
  BY Zenon
<1>3. QED
  BY <1>1, <1>2, Zenon DEF Oldest

(* The parent process writes no file.                                         *)
LEMMA ProcessFrame ==
  ASSUME Process
  PROVE  /\ Parent
         /\ UNCHANGED <<manifest, mtime, content, clock, seen, runs, wreck, dep_inst,
                        summary_mode>>
         /\ DOMAIN stage' = DOMAIN stage
         /\ ~Return => UNCHANGED <<undone, predicted>>
<1>1. CASE Skip
  BY Zenon, <1>1 DEF Skip, SkipFresh, Parent, buildVars, Return
<1>2. CASE Run
  BY Zenon, <1>2 DEF Run, Spawn, Parent
<1>3. CASE Report
  <2>1. inst_stale(level[next]) \in BOOLEAN
    BY Zenon DEF inst_stale
  <2>2. \E stale \in BOOLEAN : Summarise(stale)
    BY Zenon, <1>3, <2>1 DEF Report
  <2>3. QED
    BY Zenon, <1>3, <2>2 DEF Report, Summarise, Parent, buildVars
<1>4. CASE Sort
  BY Zenon, <1>4 DEF Sort, Scan, StartLevel, Reap, EndLevel, Retire, RetireNext, Parent, buildVars
<1>5. CASE Return
  BY Zenon, <1>5 DEF Return, Finish, Parent
<1>6. QED
  BY Zenon, <1>1, <1>2, <1>3, <1>4, <1>5 DEF Process

(* An interrupted process takes no step.                                      *)
LEMMA ProcessRuns ==
  ASSUME ExecInv, Process
  PROVE  pc # "killed" /\ IInv
<1>1. Parent
  BY Zenon, ProcessFrame
<1>2. pc # "killed"
  BY Zenon, <1>1 DEF Parent, Scan, StartLevel, Finish, SkipFresh, Spawn, CanStart, Reap, Summarise,
              EndLevel, Retire, RetireNext
<1>3. QED
  BY Zenon, <1>2 DEF ExecInv

(* How a command gives up                                                     *)
LEMMA FailMeaning ==
  ASSUME NEW v \in Inst, Fail(v)
  PROVE  /\ child[v] = "alive" /\ stage' = [stage EXCEPT ![v] = "none"]
         /\ UNCHANGED <<manifest, mtime, content, clock, seen, runs, undone, predicted>>
         /\ \/ ChildExit(v, "ok") /\ wreck' = wreck \cup {v}
            \/ ChildExit(v, "failed") /\ wreck' = wreck
<1>1. PICK status \in {"ok", "failed"} :
        ChildExit(v, status) /\ wreck' = IF status = "ok" THEN wreck \cup {v} ELSE wreck
  BY Zenon DEF Fail
<1>2. QED
  BY <1>1, Zenon DEF Fail

(* A command that ends is one of the commands of NinquSchedule.               *)
LEMMA ExitFrame ==
  ASSUME NEW v \in Inst, NEW status \in {"ok", "failed"}, ChildExit(v, status)
  PROVE  Commands /\ UNCHANGED <<dep_inst, summary_mode, pc, completed>>
BY Zenon DEF ChildExit, Commands

(* The other steps of commands and of the user leave the executor alone, end   *)
(* it, or start it again.                                                     *)
LEMMA OutsideFrame ==
  ASSUME Command \/ User
  PROVE  \/ Commands \/ UNCHANGED schedVars
         \/ Interrupt \/ \E mode \in BOOLEAN : Invoke(mode)
<1>1. ASSUME NEW v \in Inst, OpenRedirect(v) \/ ReadInputs(v) \/ OpenOutput(v)
      PROVE  UNCHANGED schedVars
  BY Zenon, <1>1 DEF OpenRedirect, ReadInputs, OpenOutput, Truncate
<1>2. ASSUME NEW v \in Inst, Succeed(v) \/ Fail(v)
      PROVE  Commands
  <2>1. \E status \in {"ok", "failed"} : ChildExit(v, status)
    BY Zenon, <1>2, FailMeaning DEF Succeed
  <2>2. QED
    BY Zenon, <2>1 DEF Commands
<1>3. CASE Command
  BY Zenon, <1>1, <1>2, <1>3 DEF Command
<1>4. CASE User
  BY Zenon, <1>4 DEF User, Tick, Edit, Remove
<1>5. QED
  BY Zenon, <1>3, <1>4

(* The executor's part of a step keeps ExecInv.                               *)
LEMMA ExecStep ==
  ASSUME FileInv, ExecInv, BuildNext
  PROVE  ExecInv'
<1>1. CASE Next \/ UNCHANGED schedVars
  <2>1. pc = "killed" => UNCHANGED schedVars
    <3>1. pc = "killed" => ~Parent /\ ~Exited
      BY Zenon DEF Parent, Scan, StartLevel, Finish, SkipFresh, Spawn, CanStart, Reap, Summarise,
             EndLevel, Retire, RetireNext, Exited
    <3>2. pc = "killed" => ~Commands
      BY Zenon DEF Commands, ChildExit, ExecInv
    <3>3. QED
      BY Zenon, <1>1, <3>1, <3>2 DEF Next
  <2>2. CASE pc = "killed"
    <3>1. UNCHANGED <<pc, child>>
      BY Zenon, <2>1, <2>2 DEF schedVars
    <3>2. QED
      BY Zenon, <2>2, <3>1 DEF ExecInv, ModeInv
  <2>3. CASE pc # "killed"
    <3>1. IInv'
      BY Zenon, <1>1, <2>3, NextStep DEF ExecInv
    <3>2. pc' # "killed"
      BY Zenon, <3>1 DEF IInv, TypeOK
    <3>3. ModeInv'
      BY Zenon, <1>1, ModeStep DEF ExecInv
    <3>4. ASSUME summary_mode' PROVE \A v \in Inst : child'[v] = "none"
      <4>1. summary_mode' = summary_mode
        BY Zenon, <1>1 DEF Next, Parent, Commands, Scan, StartLevel, Finish, SkipFresh, Spawn, Reap,
                    Summarise, EndLevel, Retire, RetireNext, ChildExit, Exited, schedVars
      <4>2. pc # "batch" /\ \A v \in Inst : child[v] = "none"
        BY Zenon, <3>4, <4>1 DEF ExecInv, ModeInv
      <4>3. child' = child
        BY Zenon, <1>1, <4>2 DEF Next, Parent, Commands, Scan, StartLevel, Finish, SkipFresh, Spawn,
                    CanStart, Reap, Summarise, EndLevel, Retire, RetireNext, ChildExit, Exited,
                    schedVars
      <4>4. QED
        BY Zenon, <4>2, <4>3
    <3>5. QED
      BY Zenon, <3>1, <3>2, <3>3, <3>4 DEF ExecInv
  <2>4. QED
    BY Zenon, <2>2, <2>3
<1>2. CASE Interrupt
  BY Zenon, <1>2 DEF Interrupt, ExecInv, ModeInv
<1>3. CASE \E mode \in BOOLEAN : Invoke(mode)
  <2>1. PICK mode \in BOOLEAN : Invoke(mode)
    BY Zenon, <1>3
  <2>2. dep_inst' = dep_inst /\ dep_inst \in [Inst -> SUBSET Inst]
    BY Zenon, <2>1 DEF Invoke, FileInv, ManifestOK
  <2>3. indeg' = [v \in Inst |-> InitialIndeg(v)']
    BY Zenon, <2>1, <2>2 DEF Invoke, InitialIndeg
  <2>4. Init'
    BY Zenon, <2>1, <2>2, <2>3 DEF Invoke, Init
  <2>5. IInv'
    BY Zenon, <2>4, FreshRun
  <2>6. \A v \in Inst : child'[v] = "none"
    BY Zenon, <2>1 DEF Invoke
  <2>7. ModeInv'
    BY Zenon, <2>1 DEF Invoke, ModeInv
  <2>8. QED
    BY Zenon, <2>5, <2>6, <2>7 DEF ExecInv
<1>4. QED
  BY Zenon, <1>1, <1>2, <1>3, ProcessFrame, OutsideFrame DEF BuildNext, Next

(* What an edited source holds.                                               *)
LEMMA EditedMeaning ==
  ASSUME NEW s \in Source, NEW n
  PROVE  /\ Edited(n)[s][s] = n
         /\ \A x \in Source : Edited(n)[s][x] = IF x = s THEN n ELSE Untouched
BY Zenon DEF Edited

(* FileInv, where neither the manifest nor a source is touched.               *)
LEMMA FileFrame ==
  ASSUME FileInv, manifest' = manifest, dep_inst' = dep_inst,
         DOMAIN stage' = Inst, DOMAIN seen' = Inst, wreck' \subseteq Inst,
         mtime' \in [File -> Int], DOMAIN content' = File,
         clock' \in Nat, \A f \in File : mtime'[f] <= clock',
         \A s \in Source : mtime'[s] = mtime[s] /\ content'[s] = content[s]
  PROVE  FileInv'
<1>1. ManifestOK(manifest)' /\ dep_inst' = manifest'.dep_inst
  BY Zenon DEF FileInv, ManifestOK
<1>2. \A s \in Source : /\ file_exists(s)'
                        /\ content'[s][s] \in 0 .. MaxEdits
                        /\ content'[s] = Edited(content'[s][s])[s]
  BY Zenon DEF FileInv, file_exists
<1>3. QED
  BY Zenon, <1>1, <1>2 DEF FileInv

(* A command writes its output, and no other file.                            *)
LEMMA OutputWritten ==
  ASSUME FileInv, NEW v \in Inst, NEW c,
         mtime' = [mtime EXCEPT ![v] = clock], content' = [content EXCEPT ![v] = c]
  PROVE  /\ mtime' \in [File -> Int] /\ DOMAIN content' = File
         /\ mtime'[v] = clock /\ content'[v] = c /\ file_exists(v)'
         /\ \A f \in File \ {v} : mtime'[f] = mtime[f] /\ content'[f] = content[f]
         /\ \A f \in File : mtime'[f] <= clock
         /\ \A s \in Source : mtime'[s] = mtime[s] /\ content'[s] = content[s]
<1>1. v \in File /\ v \notin Source /\ Source \subseteq File /\ clock \in Nat
  BY Zenon, FilesApart DEF FileInv
<1>2. mtime \in [File -> Int] /\ DOMAIN content = File /\ \A f \in File : mtime[f] <= clock
  BY Zenon DEF FileInv
<1>3. QED
  BY <1>1, <1>2 DEF file_exists

(* The steps of commands and what they write.                                 *)
LEMMA CommandFrame ==
  ASSUME FileInv, NEW v \in Inst,
         OpenRedirect(v) \/ ReadInputs(v) \/ OpenOutput(v) \/ Succeed(v) \/ Fail(v)
  PROVE  /\ child[v] = "alive"
         /\ UNCHANGED <<manifest, dep_inst, clock, summary_mode, pc, completed, undone, predicted>>
         /\ DOMAIN stage' = Inst /\ DOMAIN seen' = Inst /\ wreck' \subseteq Inst
         /\ \/ UNCHANGED <<mtime, content>>
            \/ /\ Kind(v) # "phony"
               /\ mtime' = [mtime EXCEPT ![v] = clock]
               /\ \E c : content' = [content EXCEPT ![v] = c]
<1>1. DOMAIN stage = Inst /\ DOMAIN seen = Inst /\ wreck \subseteq Inst
  BY Zenon DEF FileInv
<1>2. CASE OpenRedirect(v) \/ OpenOutput(v)
  BY Zenon, <1>1, <1>2 DEF OpenRedirect, OpenOutput, Truncate, ChildAt, schedVars
<1>3. CASE ReadInputs(v)
  BY Zenon, <1>1, <1>3 DEF ReadInputs, ChildAt, schedVars
<1>4. CASE Succeed(v)
  <2>1. \/ Kind(v) = "phony" /\ UNCHANGED <<mtime, content, wreck>>
        \/ /\ Kind(v) # "phony" /\ mtime' = [mtime EXCEPT ![v] = clock]
           /\ content' = [content EXCEPT ![v] = seen[v]] /\ wreck' = wreck \ {v}
    BY Zenon, <1>4 DEF Succeed
  <2>2. /\ child[v] = "alive" /\ UNCHANGED <<manifest, clock, seen, undone, predicted>>
        /\ stage' = [stage EXCEPT ![v] = "none"] /\ ChildExit(v, "ok")
    BY Zenon, <1>4 DEF Succeed, ChildAt
  <2>3. QED
    BY Zenon, <1>1, <2>1, <2>2 DEF ChildExit
<1>5. CASE Fail(v)
  BY Zenon, <1>1, <1>5, FailMeaning DEF ChildExit
<1>6. QED
  BY Zenon, <1>2, <1>3, <1>4, <1>5

(* What an edit does.                                                        *)
LEMMA EditFrame ==
  ASSUME FileInv, NEW s \in Source, Edit(s)
  PROVE  /\ Idle /\ Settled /\ mtime' \in [File -> Int] /\ DOMAIN content' = File
         /\ mtime'[s] = clock /\ \A f \in File \ {s} : mtime'[f] = mtime[f] /\ content'[f] = content[f]
         /\ \E n \in 0 .. MaxEdits : content'[s] = Edited(n)[s]
         /\ UNCHANGED <<schedVars, manifest, clock, stage, seen, runs, wreck>>
         /\ undone' = Inst /\ predicted' = Inst
<1>1. /\ s \in File /\ clock \in Nat /\ mtime \in [File -> Int] /\ DOMAIN content = File
      /\ content[s][s] \in 0 .. MaxEdits /\ MaxEdits \in Nat
  BY Zenon, FilesApart, BuildAssumption DEF FileInv
<1>2. /\ content' = [content EXCEPT ![s] = Edited(content[s][s] + 1)[s]]
      /\ mtime' = [mtime EXCEPT ![s] = clock]
      /\ content[s][s] < MaxEdits /\ Idle /\ Settled
      /\ UNCHANGED <<schedVars, manifest, clock, stage, seen, runs, wreck>>
      /\ undone' = Inst /\ predicted' = Inst
  BY Zenon DEF Edit
<1>3. content[s][s] + 1 \in 0 .. MaxEdits
  BY <1>1, <1>2
<1>4. content'[s] = Edited(content[s][s] + 1)[s]
  BY <1>1, <1>2, Zenon
<1>5. \A f \in File \ {s} : mtime'[f] = mtime[f] /\ content'[f] = content[f]
  BY Zenon, <1>1, <1>2
<1>6. mtime' \in [File -> Int] /\ DOMAIN content' = File /\ mtime'[s] = clock
  BY <1>1, <1>2
<1>7. QED
  BY Zenon, <1>2, <1>3, <1>4, <1>5, <1>6

(* What removing an output does.                                              *)
LEMMA RemoveFrame ==
  ASSUME FileInv, NEW v \in Inst, Remove(v)
  PROVE  /\ Idle /\ mtime' \in [File -> Int] /\ DOMAIN content' = File
         /\ mtime'[v] = -1 /\ wreck' = wreck \ {v}
         /\ \A f \in File \ {v} : mtime'[f] = mtime[f] /\ content'[f] = content[f]
         /\ UNCHANGED <<schedVars, manifest, clock, stage, seen, runs>>
         /\ undone' = Inst /\ predicted' = Inst
<1>1. v \in File /\ mtime \in [File -> Int] /\ DOMAIN content = File
  BY Zenon, FilesApart DEF FileInv
<1>2. QED
  BY <1>1 DEF Remove

(* Every step keeps FileInv.                                                  *)
LEMMA FileStep ==
  ASSUME FileInv, BuildNext
  PROVE  FileInv'
<1>1. /\ mtime \in [File -> Int] /\ DOMAIN content = File /\ DOMAIN stage = Inst
      /\ DOMAIN seen = Inst /\ wreck \subseteq Inst
      /\ clock \in Nat /\ \A f \in File : mtime[f] <= clock
  BY Zenon DEF FileInv
<1>2. CASE Process
  BY Zenon, <1>1, <1>2, ProcessFrame, FileFrame
<1>3. ASSUME NEW v \in Inst,
             OpenRedirect(v) \/ ReadInputs(v) \/ OpenOutput(v) \/ Succeed(v) \/ Fail(v)
      PROVE  FileInv'
  <2>1. /\ UNCHANGED <<manifest, dep_inst, clock>>
        /\ DOMAIN stage' = Inst /\ DOMAIN seen' = Inst /\ wreck' \subseteq Inst
    BY Zenon, <1>3, CommandFrame
  <2>2. CASE UNCHANGED <<mtime, content>>
    BY Zenon, <1>1, <2>1, <2>2, FileFrame
  <2>3. CASE mtime' = [mtime EXCEPT ![v] = clock] /\ \E c : content' = [content EXCEPT ![v] = c]
    <3>1. /\ mtime' \in [File -> Int] /\ DOMAIN content' = File
          /\ \A f \in File : mtime'[f] <= clock
          /\ \A s \in Source : mtime'[s] = mtime[s] /\ content'[s] = content[s]
      BY Zenon, <2>3, OutputWritten
    <3>2. QED
      BY Zenon, <1>1, <2>1, <3>1, FileFrame
  <2>4. QED
    BY Zenon, <1>3, <2>2, <2>3, CommandFrame
<1>4. CASE Tick
  <2>1. /\ UNCHANGED <<manifest, dep_inst, mtime, content, stage, seen, wreck>>
        /\ clock' = clock + 1
    BY Zenon, <1>4 DEF Tick, schedVars
  <2>2. clock' \in Nat /\ \A f \in File : mtime'[f] <= clock'
    BY <1>1, <2>1
  <2>3. QED
    BY Zenon, <1>1, <2>1, <2>2, FileFrame
<1>5. CASE Interrupt
  <2>1. /\ UNCHANGED <<manifest, dep_inst, mtime, content, clock, seen, wreck>>
        /\ DOMAIN stage' = Inst
    BY Zenon, <1>5 DEF Interrupt
  <2>2. QED
    BY Zenon, <1>1, <2>1, FileFrame
<1>6. ASSUME NEW s \in Source, Edit(s)
      PROVE  FileInv'
  <2>1. /\ mtime' \in [File -> Int] /\ DOMAIN content' = File
        /\ mtime'[s] = clock
        /\ \A f \in File \ {s} : mtime'[f] = mtime[f] /\ content'[f] = content[f]
        /\ UNCHANGED <<schedVars, manifest, clock, stage, seen, runs, wreck>>
    BY Zenon, <1>6, EditFrame
  <2>2. PICK n \in 0 .. MaxEdits : content'[s] = Edited(n)[s]
    BY Zenon, <1>6, EditFrame
  <2>3. ManifestOK(manifest)' /\ dep_inst' = manifest'.dep_inst
    BY Zenon, <2>1 DEF FileInv, ManifestOK, schedVars
  <2>4. \A f \in File : mtime'[f] <= clock'
    BY <1>1, <2>1
  <2>5. ASSUME NEW x \in Source
        PROVE  /\ file_exists(x)' /\ content'[x][x] \in 0 .. MaxEdits
               /\ content'[x] = Edited(content'[x][x])[x]
    <3>1. CASE x = s
      <4>1. content'[s][s] = n
        BY <2>2, EditedMeaning
      <4>2. QED
        BY <1>1, <2>1, <2>2, <3>1, <4>1 DEF file_exists
    <3>2. CASE x # s
      <4>1. mtime'[x] = mtime[x] /\ content'[x] = content[x]
        BY Zenon, <2>1, <3>2, FilesApart
      <4>2. QED
        BY Zenon, <4>1 DEF FileInv, file_exists
    <3>3. QED
      BY Zenon, <3>1, <3>2
  <2>6. QED
    BY Zenon, <1>1, <2>1, <2>3, <2>4, <2>5 DEF FileInv
<1>7. ASSUME NEW v \in Inst, Remove(v)
      PROVE  FileInv'
  <2>1. /\ mtime' \in [File -> Int] /\ DOMAIN content' = File
        /\ mtime'[v] = -1 /\ wreck' = wreck \ {v}
        /\ \A f \in File \ {v} : mtime'[f] = mtime[f] /\ content'[f] = content[f]
        /\ UNCHANGED <<schedVars, manifest, clock, stage, seen, runs>>
    BY Zenon, <1>7, RemoveFrame
  <2>2. \A f \in File : mtime'[f] <= clock'
    BY <1>1, <2>1
  <2>3. \A s \in Source : mtime'[s] = mtime[s] /\ content'[s] = content[s]
    BY Zenon, <2>1, FilesApart
  <2>4. dep_inst' = dep_inst /\ wreck' \subseteq Inst
    BY Zenon, <1>1, <2>1 DEF schedVars
  <2>5. QED
    BY Zenon, <1>1, <2>1, <2>2, <2>3, <2>4, FileFrame
<1>8. ASSUME NEW mode \in BOOLEAN, Invoke(mode)
      PROVE  FileInv'
  <2>1. UNCHANGED <<dep_inst, manifest, mtime, content, clock, stage, seen, wreck>>
    BY Zenon, <1>8 DEF Invoke
  <2>2. QED
    BY Zenon, <1>1, <2>1, FileFrame
<1>9. QED
  BY Zenon, <1>2, <1>3, <1>4, <1>5, <1>6, <1>7, <1>8 DEF BuildNext, Command, User

(* A step of the parent process passes one instance: it skips a fresh one,     *)
(* starts a stale one, waits for one that has ended, or reports one.           *)
Skips(v) == ~inst_stale(v) /\ completed' = completed \cup {v} /\ UNCHANGED <<child, will_build, stage>>

Starts(v) ==
  /\ inst_stale(v) /\ child' = [child EXCEPT ![v] = "alive"]
  /\ stage' = [stage EXCEPT ![v] = "forked"] /\ UNCHANGED <<completed, will_build>>

WaitsFor(v) ==
  /\ child[v] \in {"ok", "failed"} /\ completed' = completed \cup {v}
  /\ UNCHANGED <<child, will_build, stage>>

Reports(v) ==
  /\ completed' = completed \cup {v} /\ UNCHANGED <<child, stage>>
  /\ will_build' = [will_build EXCEPT ![v] = inst_stale(v) \/ \E d \in dep_inst[v] : will_build[d]]

(* The instance it passes is new to it, and those it depends on are not.       *)
LEMMA ProcessMeaning ==
  ASSUME IInv, Process
  PROVE  /\ ~Idle
         /\ \/ UNCHANGED <<child, completed, will_build, stage>>
            \/ \E v \in Inst :
                 /\ v \notin completed /\ dep_inst[v] \subseteq completed
                 /\ \/ pc = "batch" /\ child[v] = "none" /\ (Skips(v) \/ Starts(v))
                    \/ WaitsFor(v)
                    \/ pc = "summary" /\ child[v] = "none" /\ Reports(v)
<1>1. ~Idle
  BY Zenon DEF Process, Skip, SkipFresh, CanStart, Run, Spawn, Report, Summarise, Sort, Scan, StartLevel,
         Reap, EndLevel, Retire, RetireNext, Return, Finish, Idle
<1>2. ASSUME pc \in {"batch", "summary"}, next <= Len(level)
      PROVE  /\ level[next] \in Inst /\ level[next] \notin completed
             /\ dep_inst[level[next]] \subseteq completed /\ child[level[next]] = "none"
  <2>1. next \in 1 .. Len(level)
    BY <1>2 DEF IInv, TypeOK
  <2>2. /\ level[next] \in Inst /\ level[next] \in Placed
        /\ level[next] \notin completed /\ level[next] \notin Members(slot)
    BY Zenon, <1>2, <2>1, NextMember
  <2>3. dep_inst[level[next]] \subseteq completed
    BY Zenon, <1>2, <2>2, PlacedDeps
  <2>4. QED
    BY Zenon, <2>2, <2>3 DEF IInv, ChildInv
<1>3. CASE Skip
  <2>1. pc = "batch" /\ next <= Len(level) /\ Skips(level[next])
    BY Zenon, <1>3 DEF Skip, SkipFresh, CanStart, Skips, buildVars
  <2>2. QED
    BY Zenon, <1>1, <1>2, <2>1
<1>4. CASE Run
  <2>1. pc = "batch" /\ next <= Len(level) /\ Starts(level[next])
    BY Zenon, <1>4 DEF Run, Spawn, CanStart, Starts
  <2>2. QED
    BY Zenon, <1>1, <1>2, <2>1
<1>5. CASE Report
  <2>1. pc = "summary" /\ next <= Len(level) /\ Reports(level[next])
    BY Zenon, <1>5 DEF Report, Summarise, WillBuild, Reports, buildVars
  <2>2. QED
    BY Zenon, <1>1, <1>2, <2>1
<1>6. CASE \E k \in Inst : Reap(k) /\ UNCHANGED buildVars
  <2>1. PICK k \in Inst : Reap(k) /\ UNCHANGED buildVars
    BY Zenon, <1>6
  <2>2. WaitsFor(slot[k]) /\ slot[k] \in Members(slot) /\ pc = "batch"
    BY Zenon, <2>1 DEF Reap, WaitsFor, Members, buildVars
  <2>3. slot[k] \in Inst /\ slot[k] \notin completed /\ slot[k] \in Placed
    BY Zenon, <2>2, SlotPlaced
  <2>4. dep_inst[slot[k]] \subseteq completed
    BY Zenon, <2>2, <2>3, PlacedDeps
  <2>5. QED
    BY Zenon, <1>1, <2>2, <2>3, <2>4
<1>7. CASE \/ Return
           \/ (Scan \/ StartLevel \/ EndLevel \/ Retire \/ RetireNext) /\ UNCHANGED buildVars
  <2>1. UNCHANGED <<child, completed, will_build, stage>>
    BY Zenon, <1>7 DEF Return, Finish, Scan, StartLevel, EndLevel, Retire, RetireNext, buildVars
  <2>2. QED
    BY Zenon, <1>1, <2>1
<1>8. QED
  BY Zenon, <1>3, <1>4, <1>5, <1>6, <1>7 DEF Process, Sort

(* The other steps: completed is emptied by a new run only.                    *)
LEMMA OutsideMeaning ==
  ASSUME ExecInv, BuildNext, ~Process
  PROVE  \/ UNCHANGED <<completed, dep_inst>> /\ (pc' = pc \/ pc' = "killed")
         \/ completed' = {} /\ dep_inst' = dep_inst /\ pc' = "scan" /\ Settled /\ Idle
            /\ UNCHANGED <<mtime, clock>> /\ \A v \in Inst : child'[v] = "none"
<1>1. Command \/ User
  BY Zenon DEF BuildNext
<1>2. CASE Commands
  BY Zenon, <1>2 DEF Commands, ChildExit
<1>3. CASE UNCHANGED schedVars
  BY Zenon, <1>3 DEF schedVars
<1>4. CASE Interrupt
  BY Zenon, <1>4 DEF Interrupt
<1>5. CASE \E mode \in BOOLEAN : Invoke(mode)
  BY Zenon, <1>5 DEF Invoke
<1>6. QED
  BY Zenon, <1>1, <1>2, <1>3, <1>4, <1>5, OutsideFrame

(* Instances are completed after those they depend on, so of a set of          *)
(* instances that wait for each other none is the first.                       *)
LEMMA AcyclicStep ==
  ASSUME FileInv, ExecInv, AcyclicInv, BuildNext
  PROVE  AcyclicInv'
<1> SUFFICES ASSUME pc' # "killed", NEW S \in SUBSET Inst,
                    \A v \in S : dep_inst'[v] \cap S # {}
             PROVE  S \cap completed' = {}
  BY Zenon DEF AcyclicInv
<1>1. CASE Process
  <2>1. pc # "killed" /\ IInv /\ dep_inst' = dep_inst
    BY Zenon, <1>1, ProcessFrame, ProcessRuns
  <2>2. S \cap completed = {}
    BY Zenon, <2>1 DEF AcyclicInv
  <2>3. completed' = completed \/ \E v \in Inst : dep_inst[v] \subseteq completed /\ completed' = completed \cup {v}
    BY Zenon, <1>1, <2>1, ProcessMeaning DEF Skips, Starts, WaitsFor, Reports
  <2>4. QED
    BY Zenon, <2>1, <2>2, <2>3
<1>2. CASE ~Process
  BY Zenon, <1>2, OutsideMeaning DEF AcyclicInv
<1>3. QED
  BY Zenon, <1>1, <1>2

(* A run begins in a second after all files were written, and an instance is   *)
(* written after it was started.                                              *)
LEMMA TimesStep ==
  ASSUME FileInv, ExecInv, TimesInv, BuildNext
  PROVE  TimesInv'
<1> SUFFICES ASSUME ~Idle', NEW w \in Inst, w \notin completed', child'[w] = "none"
             PROVE  mtime'[w] < clock'
  BY Zenon DEF TimesInv
<1>1. /\ clock \in Nat /\ mtime \in [File -> Int] /\ w \in File /\ mtime[w] \in Int
  BY Zenon, FilesApart DEF FileInv
<1>2. CASE Process
  <2>1. UNCHANGED <<mtime, clock>>
    BY Zenon, <1>2, ProcessFrame
  <2>3. IInv
    BY Zenon, <1>2, ProcessRuns
  <2>4. ~Idle /\ w \notin completed /\ child[w] = "none"
    <3>1. child \in [Inst -> Children]
      BY Zenon, <2>3 DEF IInv, TypeOK
    <3>2. ~Idle
      BY Zenon, <1>2, <2>3, ProcessMeaning
    <3>3. completed \subseteq completed'
      BY Zenon, <1>2, <2>3, ProcessMeaning DEF Skips, Starts, WaitsFor, Reports
    <3>4. \A v \in Inst : child' = child \/ child' = [child EXCEPT ![v] = "alive"] => child[w] = "none"
      BY Zenon, <3>1
    <3>5. child' = child \/ \E v \in Inst : child' = [child EXCEPT ![v] = "alive"]
      BY Zenon, <1>2, <2>3, ProcessMeaning DEF Skips, Starts, WaitsFor, Reports
    <3>6. QED
      BY Zenon, <3>2, <3>3, <3>4, <3>5
  <2>5. QED
    BY Zenon, <2>1, <2>4 DEF TimesInv
<1>3. ASSUME NEW v \in Inst,
             OpenRedirect(v) \/ ReadInputs(v) \/ OpenOutput(v) \/ Succeed(v) \/ Fail(v)
      PROVE  mtime'[w] < clock'
  <2>1. child[v] = "alive" /\ UNCHANGED <<clock, pc, completed>>
    BY Zenon, <1>3, CommandFrame
  <2>2. /\ child \in [Inst -> Children]
        /\ child' = child \/ \E st \in {"ok", "failed"} : child' = [child EXCEPT ![v] = st]
    <3>1. child \in [Inst -> Children]
      BY Zenon, <2>1, WhileAlive DEF IInv, TypeOK
    <3>2. QED
      BY Zenon, <1>3, <3>1, FailMeaning DEF OpenRedirect, ReadInputs, OpenOutput, Succeed, Truncate,
           ChildExit, schedVars
  <2>3. w # v /\ child[w] = "none"
    BY Zenon, <2>1, <2>2
  <2>4. mtime'[w] = mtime[w]
    BY Zenon, <1>1, <1>3, <2>3, CommandFrame
  <2>5. QED
    BY Zenon, <2>1, <2>3, <2>4 DEF TimesInv, Idle
<1>4. CASE Tick
  BY SMTT(30), <1>1, <1>4 DEF Tick, TimesInv, schedVars, Idle
<1>5. CASE \/ Interrupt \/ (\E s \in Source : Edit(s)) \/ \E v \in Inst : Remove(v)
  BY Zenon, <1>5 DEF Interrupt, Edit, Remove, Idle, schedVars
<1>6. ASSUME NEW mode \in BOOLEAN, Invoke(mode)
      PROVE  mtime'[w] < clock'
  BY Zenon, <1>1, <1>6 DEF Invoke, Settled
<1>7. QED
  BY Zenon, <1>2, <1>3, <1>4, <1>5, <1>6 DEF BuildNext, Command, User

(* A command changes nothing for an instance that was started or passed, other *)
(* than its own.                                                              *)
LEMMA WriteKeeps ==
  ASSUME FileInv, ExecInv, NEW v \in Inst,
         OpenRedirect(v) \/ ReadInputs(v) \/ OpenOutput(v) \/ Succeed(v) \/ Fail(v),
         NEW w \in Inst, child[w] # "none" \/ w \in completed
  PROVE  /\ Oldest(w)' = Oldest(w)
         /\ w # v => (inst_stale(w)' <=> inst_stale(w))
<1>1. child[v] = "alive" /\ manifest' = manifest
  BY Zenon, CommandFrame
<1>2. v \notin Inputs(w)
  BY Zenon, <1>1, WhileAlive
<1>3. \A f \in File \ {v} : mtime'[f] = mtime[f] /\ content'[f] = content[f]
  BY SMTT(30), CommandFrame DEF FileInv
<1>4. w \in File /\ Inputs(w) \subseteq File
  BY Zenon, FilesApart, ManifestMeaning
<1>5. \A f \in Inputs(w) : mtime'[f] = mtime[f] /\ content'[f] = content[f]
  BY Zenon, <1>2, <1>3, <1>4
<1>6. Oldest(w)' = Oldest(w)
  BY Zenon, <1>1, <1>5, OldestSame
<1>7. w # v => (inst_stale(w)' <=> inst_stale(w))
  BY Zenon, <1>1, <1>3, <1>4, <1>5, StaleSame
<1>8. QED
  BY Zenon, <1>6, <1>7

(* What a command leaves of the wrecks, and how it ends.                       *)
LEMMA CommandEnds ==
  ASSUME FileInv, ExecInv, NEW v \in Inst,
         OpenRedirect(v) \/ ReadInputs(v) \/ OpenOutput(v) \/ Succeed(v) \/ Fail(v)
  PROVE  /\ \A w \in Inst \ {v} :
              /\ w \in wreck' <=> w \in wreck
              /\ child'[w] = child[w] /\ stage'[w] = stage[w] /\ seen'[w] = seen[w]
         /\ \/ child'[v] = "alive"
            \/ child'[v] = "failed" /\ Fail(v) /\ UNCHANGED <<mtime, content, wreck>>
            \/ child'[v] = "ok" /\ v \in wreck' /\ Fail(v) /\ UNCHANGED <<mtime, content>>
            \/ child'[v] = "ok" /\ Kind(v) = "phony" /\ UNCHANGED <<mtime, content, wreck>>
            \/ child'[v] = "ok" /\ Succeed(v) /\ Kind(v) # "phony"
               /\ mtime' = [mtime EXCEPT ![v] = clock]
               /\ content' = [content EXCEPT ![v] = seen[v]]
<1>1. child \in [Inst -> Children] /\ DOMAIN stage = Inst /\ DOMAIN seen = Inst /\ child[v] = "alive"
  BY Zenon, CommandFrame, WhileAlive DEF FileInv, IInv, TypeOK
<1>2. CASE OpenRedirect(v) \/ OpenOutput(v)
  BY Zenon, <1>1, <1>2 DEF OpenRedirect, OpenOutput, Truncate, schedVars
<1>3. CASE ReadInputs(v)
  BY Zenon, <1>1, <1>3 DEF ReadInputs, schedVars
<1>4. CASE Succeed(v)
  <2>1. /\ child' = [child EXCEPT ![v] = "ok"] /\ stage' = [stage EXCEPT ![v] = "none"]
        /\ seen' = seen
        /\ \/ Kind(v) = "phony" /\ UNCHANGED <<mtime, content, wreck>>
           \/ /\ Kind(v) # "phony" /\ mtime' = [mtime EXCEPT ![v] = clock]
              /\ content' = [content EXCEPT ![v] = seen[v]] /\ wreck' = wreck \ {v}
    BY Zenon, <1>4 DEF Succeed, ChildExit
  <2>2. QED
    BY Zenon, <1>1, <1>4, <2>1
<1>5. CASE Fail(v)
  <2>1. /\ stage' = [stage EXCEPT ![v] = "none"] /\ UNCHANGED <<seen, mtime, content>>
        /\ \/ child' = [child EXCEPT ![v] = "ok"] /\ wreck' = wreck \cup {v}
           \/ child' = [child EXCEPT ![v] = "failed"] /\ wreck' = wreck
    BY Zenon, <1>5, FailMeaning DEF ChildExit
  <2>2. QED
    BY Zenon, <1>1, <1>5, <2>1
<1>6. QED
  BY Zenon, <1>2, <1>3, <1>4, <1>5

(* An output just written is not stale.                                       *)
LEMMA WrittenFresh ==
  ASSUME FileInv, NEW v \in Inst, NEW c, manifest' = manifest, Kind(v) # "phony",
         mtime' = [mtime EXCEPT ![v] = clock], content' = [content EXCEPT ![v] = c]
  PROVE  ~inst_stale(v)'
<1>1. /\ mtime'[v] = clock /\ file_exists(v)' /\ \A f \in File : mtime'[f] <= clock
      /\ mtime' \in [File -> Int] /\ clock \in Nat
  BY Zenon, OutputWritten DEF FileInv
<1>2. manifest.in[v] \subseteq File /\ manifest.stale_extra[v] \subseteq File
  BY Zenon, ManifestMeaning
<1>3. Kind(v)' # "phony"
  BY Zenon DEF Kind
<1>4. QED
  BY SMTT(30), <1>1, <1>2, <1>3 DEF inst_stale

(* What the run has made or skipped stays in order.                            *)
LEMMA DoneStep ==
  ASSUME FileInv, ExecInv, DoneInv, BuildNext
  PROVE  DoneInv'
<1> SUFFICES ASSUME ~summary_mode', ~Idle', NEW w \in Inst, Passed(w)'
             PROVE  InOrder(w)'
  BY Zenon DEF DoneInv
<1>1. CASE Process
  <2>1. UNCHANGED <<manifest, mtime, wreck, summary_mode>> /\ IInv
    BY Zenon, <1>1, ProcessFrame, ProcessRuns
  <2>2. inst_stale(w)' <=> inst_stale(w)
    BY Zenon, <2>1, StaleSame
  <2>3. InOrder(w)' <=> InOrder(w)
    BY Zenon, <2>1, <2>2 DEF InOrder, Kind
  <2>4. Passed(w) \/ ~inst_stale(w)
    <3>1. child \in [Inst -> Children] /\ pc # "summary"
      BY Zenon, <2>1 DEF IInv, TypeOK, ExecInv, ModeInv
    <3>2. CASE UNCHANGED <<child, completed>>
      BY Zenon, <3>2 DEF Passed
    <3>3. ASSUME NEW v \in Inst, v \notin completed, Skips(v) \/ Starts(v) \/ WaitsFor(v)
          PROVE  Passed(w) \/ ~inst_stale(w)
      BY Zenon, <3>1, <3>3 DEF Passed, Skips, Starts, WaitsFor
    <3>4. QED
      BY Zenon, <1>1, <2>1, <3>1, <3>2, <3>3, ProcessMeaning
  <2>5. QED
    BY Zenon, <1>1, <2>1, <2>3, <2>4, ProcessMeaning DEF DoneInv, InOrder
<1>2. ASSUME NEW v \in Inst,
             OpenRedirect(v) \/ ReadInputs(v) \/ OpenOutput(v) \/ Succeed(v) \/ Fail(v)
      PROVE  InOrder(w)'
  <2>1. child[v] = "alive" /\ UNCHANGED <<manifest, clock, summary_mode, pc, completed>>
    BY Zenon, <1>2, CommandFrame
  <2>2. ~Idle /\ ~summary_mode /\ v \notin completed
    BY Zenon, <2>1, WhileAlive
  <2>3. CASE w # v
    <3>1. (w \in wreck' <=> w \in wreck) /\ child'[w] = child[w]
      BY Zenon, <1>2, <2>3, CommandEnds
    <3>2. Passed(w) /\ (child[w] # "none" \/ w \in completed)
      BY Zenon, <2>1, <3>1 DEF Passed
    <3>3. inst_stale(w)' <=> inst_stale(w)
      BY Zenon, <1>2, <2>3, <3>2, WriteKeeps
    <3>4. InOrder(w)
      BY Zenon, <2>2, <3>2 DEF DoneInv
    <3>5. QED
      BY Zenon, <2>1, <3>1, <3>3, <3>4 DEF InOrder, Kind
  <2>4. CASE w = v
    <3>1. child'[v] = "ok"
      BY Zenon, <2>1, <2>2, <2>4, <1>2, CommandEnds DEF Passed
    <3>2. CASE v \in wreck' \/ Kind(v) = "phony"
      BY Zenon, <2>1, <2>4, <3>2 DEF InOrder, Kind
    <3>3. CASE /\ Kind(v) # "phony" /\ mtime' = [mtime EXCEPT ![v] = clock]
               /\ content' = [content EXCEPT ![v] = seen[v]]
      BY Zenon, <2>1, <2>4, <3>3, WrittenFresh DEF InOrder
    <3>4. QED
      BY Zenon, <1>2, <3>1, <3>2, <3>3, CommandEnds
  <2>5. QED
    BY Zenon, <2>3, <2>4
<1>3. CASE Tick
  <2>1. UNCHANGED <<manifest, mtime, wreck, summary_mode, pc, child, completed>>
    BY Zenon, <1>3 DEF Tick, schedVars
  <2>2. inst_stale(w)' <=> inst_stale(w)
    BY Zenon, <2>1, StaleSame
  <2>3. InOrder(w)
    BY Zenon, <2>1 DEF DoneInv, Passed, Idle
  <2>4. QED
    BY Zenon, <2>1, <2>2, <2>3 DEF InOrder, Kind
<1>4. CASE \/ Interrupt \/ (\E s \in Source : Edit(s)) \/ \E v \in Inst : Remove(v)
  BY Zenon, <1>4 DEF Interrupt, Edit, Remove, Idle, schedVars
<1>5. ASSUME NEW mode \in BOOLEAN, Invoke(mode)
      PROVE  InOrder(w)'
  BY Zenon, <1>5 DEF Invoke, Passed
<1>6. QED
  BY Zenon, <1>1, <1>2, <1>3, <1>4, <1>5 DEF BuildNext, Command, User

(* What a command has read stays what its inputs hold until it ends.           *)
LEMMA SeenStep ==
  ASSUME FileInv, ExecInv, SeenInv, BuildNext
  PROVE  SeenInv'
<1> SUFFICES ASSUME NEW w \in Inst, child'[w] = "alive", stage'[w] \in {"read", "writing"}
             PROVE  seen'[w] = Oldest(w)'
  BY Zenon DEF SeenInv
<1>1. DOMAIN stage = Inst /\ DOMAIN seen = Inst
  BY Zenon DEF FileInv
<1>2. CASE Process
  <2>1. UNCHANGED <<manifest, content, seen>> /\ IInv
    BY Zenon, <1>2, ProcessFrame, ProcessRuns
  <2>2. child \in [Inst -> Children]
    BY Zenon, <2>1 DEF IInv, TypeOK
  <2>3. Oldest(w)' = Oldest(w)
    BY Zenon, <2>1, OldestSame
  <2>4. child[w] = "alive" /\ stage[w] = stage'[w]
    <3>1. CASE UNCHANGED <<child, stage>>
      BY Zenon, <3>1
    <3>2. ASSUME NEW v \in Inst, Starts(v)
          PROVE  child[w] = "alive" /\ stage[w] = stage'[w]
      BY Zenon, <1>1, <2>2, <3>2 DEF Starts
    <3>3. QED
      BY Zenon, <1>2, <2>1, <3>1, <3>2, ProcessMeaning DEF Skips, WaitsFor, Reports
  <2>5. QED
    BY Zenon, <2>1, <2>3, <2>4 DEF SeenInv
<1>3. ASSUME NEW v \in Inst,
             OpenRedirect(v) \/ ReadInputs(v) \/ OpenOutput(v) \/ Succeed(v) \/ Fail(v)
      PROVE  seen'[w] = Oldest(w)'
  <2>1. child[v] = "alive"
    BY Zenon, <1>3, CommandFrame
  <2>2. CASE w # v
    <3>1. child[w] = "alive" /\ stage[w] = stage'[w] /\ seen'[w] = seen[w]
      BY Zenon, <1>3, <2>2, CommandEnds
    <3>2. Oldest(w)' = Oldest(w)
      BY Zenon, <1>3, <3>1, WriteKeeps
    <3>3. QED
      BY Zenon, <3>1, <3>2 DEF SeenInv
  <2>3. CASE w = v
    <3>1. Oldest(v)' = Oldest(v)
      BY Zenon, <1>3, <2>1, WriteKeeps
    <3>2. CASE OpenRedirect(v)
      BY Zenon, <1>1, <2>3, <3>2 DEF OpenRedirect
    <3>3. CASE ReadInputs(v)
      BY Zenon, <1>1, <2>3, <3>1, <3>3 DEF ReadInputs
    <3>4. CASE OpenOutput(v)
      <4>1. stage[v] = "read" /\ seen' = seen
        BY Zenon, <3>4 DEF OpenOutput, ChildAt, Truncate
      <4>2. QED
        BY Zenon, <2>1, <2>3, <3>1, <4>1 DEF SeenInv
    <3>5. CASE Succeed(v) \/ Fail(v)
      BY Zenon, <1>1, <2>3, <3>5 DEF Succeed, Fail
    <3>6. QED
      BY Zenon, <1>3, <3>2, <3>3, <3>4, <3>5
  <2>4. QED
    BY Zenon, <2>2, <2>3
<1>4. CASE Tick
  <2>1. UNCHANGED <<manifest, content, seen, stage, child>>
    BY Zenon, <1>4 DEF Tick, schedVars
  <2>2. QED
    BY Zenon, <2>1, OldestSame DEF SeenInv
<1>5. CASE (\E s \in Source : Edit(s)) \/ \E v \in Inst : Remove(v)
  <2>1. Idle /\ child' = child
    BY Zenon, <1>5 DEF Edit, Remove, schedVars
  <2>2. QED
    BY Zenon, <2>1, WhileAlive
<1>6. CASE Interrupt \/ \E mode \in BOOLEAN : Invoke(mode)
  BY Zenon, <1>6 DEF Interrupt, Invoke
<1>7. QED
  BY Zenon, <1>2, <1>3, <1>4, <1>5, <1>6 DEF BuildNext, Command, User

(* LocalAt only depends on an output and its inputs.                           *)
LEMMA LocalSame ==
  ASSUME FileInv, manifest' = manifest, NEW w \in Inst, LocalAt(w),
         w \in wreck => w \in wreck',
         mtime'[w] = mtime[w], content'[w] = content[w],
         \A f \in Inputs(w) : mtime'[f] = mtime[f] /\ content'[f] = content[f]
  PROVE  LocalAt(w)'
<1>1. Oldest(w)' = Oldest(w)
  BY Zenon, OldestSame
<1>2. Inputs(w)' = Inputs(w) /\ Kind(w)' = Kind(w)
  BY Zenon DEF Inputs, Kind
<1>3. CASE Kind(w) = "phony" \/ w \in wreck \/ ~file_exists(w)
  BY Zenon, <1>2, <1>3 DEF LocalAt, file_exists
<1>4. CASE \E f \in Inputs(w) : ~file_exists(f) \/ mtime[f] > mtime[w]
  BY Zenon, <1>2, <1>4 DEF LocalAt, file_exists
<1>5. CASE content[w] = Oldest(w)
  BY Zenon, <1>1, <1>5 DEF LocalAt
<1>6. QED
  BY Zenon, <1>3, <1>4, <1>5 DEF LocalAt

(* Whatever changes an input leaves a mark on what is made from it: a later     *)
(* time, or a missing file.                                                   *)
LEMMA LocalStep ==
  ASSUME FileInv, ExecInv, TimesInv, SeenInv, LocalInv, BuildNext
  PROVE  LocalInv'
<1> SUFFICES ASSUME NEW w \in Inst
             PROVE  LocalAt(w)'
  BY Zenon DEF LocalInv
<1>1. /\ LocalAt(w) /\ w \in File /\ Inputs(w) \subseteq File /\ mtime \in [File -> Int]
      /\ clock \in Nat
  BY Zenon, FilesApart, ManifestMeaning DEF LocalInv, FileInv
<1>2. CASE Process
  <2>1. UNCHANGED <<manifest, mtime, content, wreck>>
    BY Zenon, <1>2, ProcessFrame
  <2>2. QED
    BY Zenon, <1>1, <2>1, LocalSame
<1>3. ASSUME NEW v \in Inst,
             OpenRedirect(v) \/ ReadInputs(v) \/ OpenOutput(v) \/ Succeed(v) \/ Fail(v)
      PROVE  LocalAt(w)'
  <2>1. child[v] = "alive" /\ UNCHANGED <<manifest, clock>>
    BY Zenon, <1>3, CommandFrame
  <2>2. ~Idle
    BY Zenon, <2>1, WhileAlive
  <2>3. CASE w = v
    <3>1. CASE Succeed(v) /\ Kind(v) # "phony"
      <4>1. content' = [content EXCEPT ![v] = seen[v]] /\ stage[v] \in {"read", "writing"}
        BY Zenon, <3>1 DEF Succeed, ChildAt
      <4>2. content'[v] = seen[v]
        BY Zenon, <4>1, FilesApart DEF FileInv
      <4>3. Oldest(v)' = Oldest(v) /\ seen[v] = Oldest(v)
        BY Zenon, <1>3, <2>1, <4>1, WriteKeeps DEF SeenInv
      <4>4. QED
        BY Zenon, <2>3, <4>2, <4>3 DEF LocalAt
    <3>2. CASE OpenRedirect(v) \/ OpenOutput(v)
      BY Zenon, <2>3, <3>2 DEF OpenRedirect, OpenOutput, Truncate, LocalAt
    <3>3. CASE ReadInputs(v) \/ Fail(v) \/ (Succeed(v) /\ Kind(v) = "phony")
      <4>1. UNCHANGED <<mtime, content>> /\ wreck \subseteq wreck'
        BY Zenon, <3>3 DEF ReadInputs, Fail, Succeed
      <4>2. QED
        BY Zenon, <1>1, <2>1, <4>1, LocalSame
    <3>4. QED
      BY Zenon, <1>3, <3>1, <3>2, <3>3
  <2>4. CASE w # v
    <3>1. w \in wreck => w \in wreck'
      BY Zenon, <1>3, <2>4, CommandEnds
    <3>2. CASE UNCHANGED <<mtime, content>>
      BY Zenon, <1>1, <2>1, <3>1, <3>2, LocalSame
    <3>3. ASSUME NEW c, mtime' = [mtime EXCEPT ![v] = clock], content' = [content EXCEPT ![v] = c]
          PROVE  LocalAt(w)'
      <4>1. /\ mtime'[v] = clock
            /\ \A f \in File \ {v} : mtime'[f] = mtime[f] /\ content'[f] = content[f]
        BY Zenon, <3>3, OutputWritten
      <4>2. CASE v \in Inputs(w)
        <5>1. mtime[w] < clock
          BY Zenon, <2>1, <2>2, <4>2, WhileAlive DEF TimesInv
        <5>2. mtime'[v] > mtime'[w] /\ v \in Inputs(w)'
          BY Zenon, <1>1, <2>1, <2>4, <4>1, <4>2, <5>1 DEF Inputs
        <5>3. QED
          BY Zenon, <5>2 DEF LocalAt
      <4>3. CASE v \notin Inputs(w)
        BY Zenon, <1>1, <2>1, <2>4, <3>1, <4>1, <4>3, LocalSame
      <4>4. QED
        BY Zenon, <4>2, <4>3
    <3>4. QED
      BY Zenon, <1>3, <3>2, <3>3, CommandFrame
  <2>5. QED
    BY Zenon, <2>3, <2>4
<1>4. CASE Tick
  BY Zenon, <1>1, <1>4, LocalSame DEF Tick
<1>5. ASSUME NEW s \in Source, Edit(s)
      PROVE  LocalAt(w)'
  <2>1. /\ Settled /\ mtime'[s] = clock
        /\ \A f \in File \ {s} : mtime'[f] = mtime[f] /\ content'[f] = content[f]
        /\ UNCHANGED <<manifest, wreck>>
    BY Zenon, <1>5, EditFrame
  <2>2. w # s
    BY Zenon, FilesApart
  <2>3. CASE s \in Inputs(w)
    <3>1. mtime'[s] > mtime'[w] /\ s \in Inputs(w)'
      BY Zenon, <1>1, <2>1, <2>2, <2>3 DEF Settled, Inputs
    <3>2. QED
      BY Zenon, <3>1 DEF LocalAt
  <2>4. CASE s \notin Inputs(w)
    BY Zenon, <1>1, <2>1, <2>2, <2>4, LocalSame
  <2>5. QED
    BY Zenon, <2>3, <2>4
<1>6. ASSUME NEW v \in Inst, Remove(v)
      PROVE  LocalAt(w)'
  <2>1. /\ mtime'[v] = -1 /\ wreck' = wreck \ {v} /\ manifest' = manifest
        /\ \A f \in File \ {v} : mtime'[f] = mtime[f] /\ content'[f] = content[f]
    BY Zenon, <1>6, RemoveFrame
  <2>2. ~file_exists(v)'
    BY <2>1 DEF file_exists
  <2>3. CASE w = v
    BY Zenon, <2>2, <2>3 DEF LocalAt
  <2>4. CASE v \in Inputs(w)
    <3>1. v \in Inputs(w)'
      BY Zenon, <2>1, <2>4 DEF Inputs
    <3>2. QED
      BY Zenon, <2>2, <3>1 DEF LocalAt
  <2>5. CASE w # v /\ v \notin Inputs(w)
    BY Zenon, <1>1, <2>1, <2>5, LocalSame
  <2>6. QED
    BY Zenon, <2>3, <2>4, <2>5
<1>7. CASE Interrupt \/ \E mode \in BOOLEAN : Invoke(mode)
  <2>1. UNCHANGED <<manifest, mtime, content, wreck>>
    BY Zenon, <1>7 DEF Interrupt, Invoke
  <2>2. QED
    BY <1>1, <2>1, LocalSame
<1>8. QED
  BY Zenon, <1>2, <1>3, <1>4, <1>5, <1>6, <1>7 DEF BuildNext, Command, User

(* The ingredients of a file hold the inputs of every instance among them.      *)
LEMMA IngredientsClosed ==
  ASSUME FileInv, NEW f \in File
  PROVE  /\ f \in Ingredients(f) /\ Ingredients(f) \subseteq File
         /\ \A u \in Ingredients(f) \cap Inst : Inputs(u) \subseteq Ingredients(f)
<1>1. f \in Ingredients(f) /\ Ingredients(f) \subseteq File
  BY Zenon DEF Ingredients
<1>2. ASSUME NEW u \in Ingredients(f) \cap Inst, NEW g \in Inputs(u)
      PROVE  g \in Ingredients(f)
  <2>1. g \in File
    BY Zenon, ManifestMeaning
  <2>2. ASSUME NEW S \in SUBSET File, f \in S, \A v \in S \cap Inst : Inputs(v) \subseteq S
        PROVE  g \in S
    <3>1. u \in S
      BY Zenon, <2>2 DEF Ingredients
    <3>2. QED
      BY Zenon, <2>2, <3>1
  <2>3. QED
    BY Zenon, <2>1, <2>2 DEF Ingredients
<1>3. QED
  BY Zenon, <1>1, <1>2

(* They are the file itself and the ingredients of its inputs.                  *)
LEMMA IngredientsMeaning ==
  ASSUME FileInv, NEW v \in Inst
  PROVE  /\ \A f \in Inputs(v) : Ingredients(f) \subseteq Ingredients(v)
         /\ \A g \in Ingredients(v) : g = v \/ \E f \in Inputs(v) : g \in Ingredients(f)
<1>1. v \in File /\ Inputs(v) \subseteq File
  BY Zenon, FilesApart, ManifestMeaning
<1>2. ASSUME NEW f \in Inputs(v), NEW g \in Ingredients(f)
      PROVE  g \in Ingredients(v)
  <2>1. g \in File
    BY Zenon, <1>1, <1>2 DEF Ingredients
  <2>2. ASSUME NEW S \in SUBSET File, v \in S, \A u \in S \cap Inst : Inputs(u) \subseteq S
        PROVE  g \in S
    <3>1. f \in S
      BY Zenon, <2>2
    <3>2. QED
      BY Zenon, <1>2, <2>2, <3>1 DEF Ingredients
  <2>3. QED
    BY Zenon, <2>1, <2>2 DEF Ingredients
<1>3. ASSUME NEW g \in Ingredients(v)
      PROVE  g = v \/ \E f \in Inputs(v) : g \in Ingredients(f)
  <2> DEFINE S == {v} \cup UNION {Ingredients(f) : f \in Inputs(v)}
  <2>1. S \in SUBSET File /\ v \in S
    BY Zenon, <1>1, IngredientsClosed
  <2>2. ASSUME NEW u \in S \cap Inst
        PROVE  Inputs(u) \subseteq S
    <3>1. CASE u = v
      BY Zenon, <1>1, <3>1, IngredientsClosed
    <3>2. CASE u # v
      <4>1. PICK f \in Inputs(v) : u \in Ingredients(f)
        BY Zenon, <2>2, <3>2
      <4>2. Inputs(u) \subseteq Ingredients(f)
        BY Zenon, <1>1, <2>2, <4>1, IngredientsClosed
      <4>3. QED
        BY Zenon, <4>1, <4>2
    <3>3. QED
      BY Zenon, <3>1, <3>2
  <2>3. g \in S
    BY Zenon, <1>3, <2>1, <2>2 DEF Ingredients
  <2>4. QED
    BY Zenon, <2>3
<1>4. QED
  BY Zenon, <1>2, <1>3

(* A source has no ingredient but itself.                                      *)
LEMMA SourceIngredients ==
  ASSUME NEW s \in Source
  PROVE  Ingredients(s) = {s}
<1>1. s \in File /\ s \notin Inst
  BY Zenon, FilesApart
<1>2. s \in Ingredients(s)
  BY Zenon, <1>1 DEF Ingredients
<1>3. {s} \in SUBSET File /\ \A v \in {s} \cap Inst : Inputs(v) \subseteq {s}
  BY Zenon, <1>1
<1>4. QED
  BY Zenon, <1>2, <1>3 DEF Ingredients

(* The oldest of two values, one of which may be missing.                       *)
LEMMA OldestOfTwo ==
  ASSUME NEW c \in Int, NEW u \in Int, c < u, NEW S, S \subseteq {c, u}, u \in S
  PROVE  Min(S) = IF c \in S THEN c ELSE u
<1>1. \E x \in S : \A y \in S : x <= y
  BY c \in S \/ c \notin S
<1> DEFINE m == Min(S)
<1>2. m \in S /\ \A y \in S : m <= y
  BY <1>1, Zenon DEF Min
<1> HIDE DEF m
<1>3. m = IF c \in S THEN c ELSE u
  BY <1>2
<1>4. QED
  BY Zenon, <1>3 DEF m

(* What is made of inputs up to date is so.                                    *)
LEMMA CurrentMade ==
  ASSUME FileInv, NEW v \in Inst, content[v] = Oldest(v), \A f \in Inputs(v) : UpToDate(f)
  PROVE  UpToDate(v)
<1> SUFFICES ASSUME NEW s \in Source
             PROVE  content[v][s] = IF s \in Ingredients(v) THEN content[s][s] ELSE Untouched
  BY Zenon DEF UpToDate
<1> DEFINE c == content[s][s]
           S == {Untouched} \cup {content[f][s] : f \in Inputs(v)}
<1>1. c \in Int /\ Untouched \in Int /\ c < Untouched
  BY FilesApart, BuildAssumption DEF FileInv
<1>2. content[v][s] = Min(S)
  BY Zenon DEF Oldest
<1>3. \A f \in Inputs(v) : content[f][s] = IF s \in Ingredients(f) THEN c ELSE Untouched
  BY Zenon DEF UpToDate
<1>4. c \in S <=> \E f \in Inputs(v) : s \in Ingredients(f)
  BY <1>1, <1>3
<1>5. S \subseteq {c, Untouched} /\ Untouched \in S
  BY Zenon, <1>3
<1>6. s \in Ingredients(v) <=> \E f \in Inputs(v) : s \in Ingredients(f)
  BY Zenon, IngredientsMeaning, FilesApart
<1> HIDE DEF c, S
<1>7. Min(S) = IF c \in S THEN c ELSE Untouched
  BY Zenon, <1>1, <1>5, OldestOfTwo
<1>8. QED
  BY Zenon, <1>2, <1>4, <1>6, <1>7 DEF c

(* A source is up to date.                                                     *)
LEMMA SourceCurrent ==
  ASSUME FileInv, NEW s \in Source
  PROVE  UpToDate(s)
<1>1. Ingredients(s) = {s} /\ content[s] = Edited(content[s][s])[s]
  BY Zenon, SourceIngredients DEF FileInv
<1>2. \A x \in Source : content[s][x] = IF x = s THEN content[s][s] ELSE Untouched
  BY SMTT(30), <1>1, EditedMeaning
<1>3. QED
  BY Zenon, <1>1, <1>2 DEF UpToDate

(* Only schedule_and_run() returning ends a run.                               *)
LEMMA DoneByReturn ==
  ASSUME pc # "done", pc' = "done", [BuildNext]_vars
  PROVE  Return
<1>1. BuildNext
  BY Zenon DEF vars, schedVars
<1>2. ~Commands /\ ~UNCHANGED schedVars /\ ~Interrupt /\ ~\E mode \in BOOLEAN : Invoke(mode)
  BY Zenon DEF Commands, ChildExit, schedVars, Interrupt, Invoke
<1>3. Process
  BY Zenon, <1>1, <1>2, OutsideFrame DEF BuildNext
<1>4. QED
  BY Zenon, <1>3 DEF Process, Skip, SkipFresh, Run, Spawn, CanStart, Report, Summarise, Sort, Scan,
              StartLevel, Reap, EndLevel, Retire, RetireNext

(* When a run returns 0 it has passed every instance, and all are in order.     *)
LEMMA AllInOrder ==
  ASSUME FileInv, ExecInv, DoneInv, Return, pc' = "done", ~summary_mode, ~failed_any
  PROVE  completed = Inst /\ \A v \in Inst : InOrder(v)
<1>1. Process /\ BuildNext
  BY Zenon DEF Process, BuildNext
<1>2. IInv /\ ~Idle
  BY Zenon, <1>1, ProcessRuns, ProcessMeaning
<1>3. IInv'
  BY Zenon, <1>1, ExecStep DEF ExecInv
<1>4. completed' = completed
  BY Zenon DEF Return, Finish
<1>5. completed = Inst
  BY Zenon, <1>2, <1>3, <1>4, FreshEnd DEF CycleHonest, Left, IInv, TypeOK
<1>6. \A v \in Inst : child[v] # "failed"
  BY Zenon, <1>2, <1>5 DEF IInv, ChildInv
<1>7. QED
  BY Zenon, <1>2, <1>5, <1>6 DEF DoneInv, Passed

(* ... and made from the sources as they are.                                  *)
LEMMA ReturnSound ==
  ASSUME FileInv, ExecInv, AcyclicInv, DoneInv, LocalInv,
         Return, pc' = "done", ~summary_mode, ~failed_any
  PROVE  \A v \in Inst :
           Kind(v) = "phony" \/ UpToDate(v) \/ Ingredients(v) \cap wreck # {}
<1> DEFINE Bad == {v \in Inst : ~(Kind(v) = "phony" \/ UpToDate(v) \/ Ingredients(v) \cap wreck # {})}
<1>1. completed = Inst /\ \A v \in Inst : InOrder(v)
  BY Zenon, AllInOrder
<1>2. ASSUME NEW v \in Bad
      PROVE  dep_inst[v] \cap Bad # {}
  <2>1. /\ v \in Inst /\ Kind(v) # "phony" /\ ~UpToDate(v) /\ Ingredients(v) \cap wreck = {}
        /\ v \in File /\ Inputs(v) \subseteq File
    BY Zenon, <1>2, FilesApart, ManifestMeaning
  <2>2. v \notin wreck /\ \A f \in Inputs(v) : f \notin wreck
    BY Zenon, <2>1, IngredientsClosed, IngredientsMeaning
  <2>3. ~inst_stale(v)
    BY Zenon, <1>1, <2>1, <2>2 DEF InOrder
  <2>4. \A f \in Inputs(v) : file_exists(f)
    <3> SUFFICES ASSUME NEW f \in Inputs(v) PROVE file_exists(f)
      BY Zenon
    <3>1. CASE f \in Source
      BY Zenon, <3>1 DEF FileInv
    <3>2. CASE f \in Inst
      <4>1. Kind(f) # "phony"
        BY Zenon, <2>1, <3>2, ManifestMeaning
      <4>2. ~inst_stale(f)
        BY Zenon, <1>1, <2>2, <3>2, <4>1 DEF InOrder
      <4>3. QED
        BY Zenon, <4>2 DEF inst_stale
    <3>3. QED
      BY Zenon, <2>1, <3>1, <3>2, FilesApart
  <2>5. content[v] = Oldest(v)
    <3>1. file_exists(v) /\ \A f \in Inputs(v) : ~(mtime[f] > mtime[v])
      BY Zenon, <2>3, <2>4 DEF inst_stale, Inputs
    <3>2. QED
      BY Zenon, <2>1, <2>2, <2>4, <3>1 DEF LocalInv, LocalAt
  <2>6. PICK u \in Inputs(v) : ~UpToDate(u)
    BY Zenon, <2>1, <2>5, CurrentMade
  <2>7. u \in Inst
    BY Zenon, <2>1, <2>6, SourceCurrent, FilesApart
  <2>9. Kind(u) # "phony" /\ u \in dep_inst[v]
    BY Zenon, <2>1, <2>7, ManifestMeaning
  <2>10. Ingredients(u) \cap wreck = {}
    BY Zenon, <2>1, IngredientsMeaning
  <2>11. QED
    BY Zenon, <2>6, <2>7, <2>9, <2>10
<1>3. Bad \in SUBSET Inst
  BY Zenon
<1> HIDE DEF Bad
<1>4. pc # "killed"
  BY Zenon DEF Return, Finish
<1>5. Bad \cap completed = {}
  BY Zenon, <1>2, <1>3, <1>4 DEF AcyclicInv
<1>6. Bad = {}
  BY Zenon, <1>1, <1>3, <1>5
<1>7. QED
  BY Zenon, <1>6 DEF Bad

(* What a run may start again depends on the manifest and on undone only.       *)
LEMMA RedoneSame ==
  ASSUME manifest' = manifest, undone' = undone, NEW v \in Inst
  PROVE  Redone(v)' <=> Redone(v)
BY Zenon DEF Redone, Kind, Ingredients, Inputs

(* After a run that returned 0, what is run writes only what may be run again,   *)
(* and what takes that in may be run again too.                                *)
LEMMA CleanStep ==
  ASSUME FileInv, ExecInv, DoneInv, CleanInv, BuildNext
  PROVE  CleanInv'
<1>1. CASE Process
  <2>1. UNCHANGED <<manifest, mtime, wreck, summary_mode>> /\ IInv /\ ~Idle
    BY Zenon, <1>1, ProcessFrame, ProcessRuns, ProcessMeaning
  <2>2. \A v \in Inst : (inst_stale(v)' <=> inst_stale(v)) /\ Kind(v)' = Kind(v)
    BY Zenon, <2>1, StaleSame DEF Kind
  <2>3. CASE Return
    <3>1. Idle'
      BY Zenon, <2>3 DEF Return, Finish, Idle
    <3>2. ASSUME NEW v \in Inst
          PROVE  Redone(v)' \/ ~inst_stale(v)
      <4>1. CASE summary_mode
        <5>1. undone' = undone
          BY Zenon, <2>3, <4>1 DEF Return
        <5>2. QED
          BY Zenon, <2>1, <5>1, RedoneSame DEF CleanInv
      <4>2. v \in Ingredients(v)'
        BY Zenon, FilesApart DEF Ingredients
      <4>3. CASE ~summary_mode /\ pc' = "done" /\ ~failed_any
        <5>1. undone' = wreck
          BY Zenon, <2>3, <4>3 DEF Return
        <5>2. InOrder(v)
          BY Zenon, <2>3, <4>3, AllInOrder
        <5>3. QED
          BY Zenon, <2>2, <4>2, <5>1, <5>2 DEF InOrder, Redone
      <4>4. CASE ~summary_mode /\ ~(pc' = "done" /\ ~failed_any)
        <5>1. undone' = Inst
          BY Zenon, <2>3, <4>4 DEF Return
        <5>2. QED
          BY Zenon, <4>2, <5>1 DEF Redone
      <4>5. QED
        BY Zenon, <4>1, <4>3, <4>4
    <3>3. QED
      BY Zenon, <2>2, <3>1, <3>2 DEF CleanInv
  <2>4. CASE ~Return
    <3>1. /\ undone' = undone /\ \A v \in Inst : Redone(v) \/ ~inst_stale(v)
          /\ \A v \in Inst : Redone(v)' <=> Redone(v)
      BY Zenon, <1>1, <2>1, <2>4, ProcessFrame, RedoneSame DEF CleanInv
    <3>2. ASSUME ~summary_mode', NEW w \in Inst, child'[w] # "none"
          PROVE  Redone(w)
      <4>1. child \in [Inst -> Children]
        BY Zenon, <2>1 DEF IInv, TypeOK
      <4>2. CASE child' = child
        BY Zenon, <2>1, <3>1, <3>2, <4>2 DEF CleanInv
      <4>3. ASSUME NEW v \in Inst, Starts(v)
            PROVE  Redone(w)
        <5>1. CASE w = v
          BY Zenon, <3>1, <4>3, <5>1 DEF Starts
        <5>2. CASE w # v
          <6>1. child[w] # "none"
            BY Zenon, <3>2, <4>1, <4>3, <5>2 DEF Starts
          <6>2. QED
            BY Zenon, <2>1, <3>1, <3>2, <6>1 DEF CleanInv
        <5>3. QED
          BY Zenon, <5>1, <5>2
      <4>4. QED
        BY Zenon, <1>1, <2>1, <4>2, <4>3, ProcessMeaning DEF Skips, WaitsFor, Reports
    <3>3. QED
      BY Zenon, <2>2, <3>1, <3>2 DEF CleanInv
  <2>5. QED
    BY Zenon, <2>3, <2>4
<1>2. ASSUME NEW v \in Inst,
             OpenRedirect(v) \/ ReadInputs(v) \/ OpenOutput(v) \/ Succeed(v) \/ Fail(v)
      PROVE  CleanInv'
  <2>1. child[v] = "alive" /\ UNCHANGED <<manifest, undone>>
    BY Zenon, <1>2, CommandFrame
  <2>2. ~Idle /\ ~summary_mode
    BY Zenon, <2>1, WhileAlive
  <2>3. Redone(v)
    BY Zenon, <2>1, <2>2 DEF CleanInv
  <2>4. \A w \in Inst : Redone(w)' <=> Redone(w)
    BY Zenon, <2>1, RedoneSame
  <2>5. ASSUME NEW w \in Inst, ~Redone(w)
        PROVE  ~inst_stale(w)' /\ child'[w] = "none"
    <3>1. w # v /\ w \in File /\ Inputs(w) \subseteq File
      BY Zenon, <2>3, <2>5, FilesApart, ManifestMeaning
    <3>2. ~inst_stale(w) /\ child[w] = "none"
      BY Zenon, <2>2, <2>5 DEF CleanInv
    <3>3. UNCHANGED mtime \/ v \notin Inputs(w)
      <4>1. ASSUME v \in Inputs(w), Kind(v) # "phony"
            PROVE  FALSE
        <5>1. Ingredients(v) \cap undone # {}
          BY Zenon, <2>3, <4>1 DEF Redone
        <5>2. Ingredients(v) \subseteq Ingredients(w)
          BY Zenon, <4>1, IngredientsMeaning
        <5>3. QED
          BY Zenon, <2>5, <5>1, <5>2 DEF Redone
      <4>2. QED
        BY Zenon, <1>2, <4>1, CommandFrame
    <3>4. \A f \in File \ {v} : mtime'[f] = mtime[f]
      BY SMTT(30), <1>2, CommandFrame DEF FileInv
    <3>5. \A f \in Inputs(w) \cup {w} : mtime'[f] = mtime[f]
      BY Zenon, <3>1, <3>3, <3>4
    <3>6. ~inst_stale(w)'
      BY Zenon, <2>1, <3>2, <3>5, StaleSame
    <3>7. child'[w] = "none"
      BY Zenon, <1>2, <3>1, <3>2, CommandEnds
    <3>8. QED
      BY Zenon, <3>6, <3>7
  <2>6. QED
    BY Zenon, <2>4, <2>5 DEF CleanInv
<1>3. CASE Tick
  <2>1. UNCHANGED <<manifest, mtime, undone, summary_mode, pc, child>>
    BY Zenon, <1>3 DEF Tick, schedVars
  <2>2. \A v \in Inst : (inst_stale(v)' <=> inst_stale(v)) /\ (Redone(v)' <=> Redone(v))
    BY Zenon, <2>1, StaleSame, RedoneSame
  <2>3. QED
    BY Zenon, <2>1, <2>2 DEF CleanInv, Idle
<1>4. CASE \/ Interrupt \/ (\E s \in Source : Edit(s)) \/ \E v \in Inst : Remove(v)
  <2>1. undone' = Inst /\ \A v \in Inst : v \in Ingredients(v)'
    BY Zenon, <1>4, FilesApart DEF Interrupt, Edit, Remove, Ingredients
  <2>2. QED
    BY Zenon, <2>1 DEF CleanInv, Redone
<1>5. ASSUME NEW mode \in BOOLEAN, Invoke(mode)
      PROVE  CleanInv'
  <2>1. UNCHANGED <<manifest, mtime, undone>> /\ \A v \in Inst : child'[v] = "none"
    BY Zenon, <1>5 DEF Invoke
  <2>2. \A v \in Inst : (inst_stale(v)' <=> inst_stale(v)) /\ (Redone(v)' <=> Redone(v))
    BY Zenon, <2>1, StaleSame, RedoneSame
  <2>3. QED
    BY Zenon, <2>1, <2>2 DEF CleanInv
<1>6. QED
  BY Zenon, <1>1, <1>2, <1>3, <1>4, <1>5 DEF BuildNext, Command, User

(* -S announces an instance after everything it depends on.                     *)
LEMMA SummaryKept ==
  ASSUME FileInv, ExecInv, SummaryInv, BuildNext
  PROVE  SummaryInv'
<1> SUFFICES ASSUME summary_mode', ~Idle', NEW w \in Inst
             PROVE  IF w \in completed'
                      THEN inst_stale(w)' \/ (\E d \in dep_inst'[w] : will_build'[d]) => will_build'[w]
                      ELSE ~will_build'[w]
  BY Zenon DEF SummaryInv
<1>1. CASE Process
  <2>1. UNCHANGED <<manifest, mtime, dep_inst, summary_mode>> /\ IInv /\ ~Idle
    BY Zenon, <1>1, ProcessFrame, ProcessRuns, ProcessMeaning
  <2>2. inst_stale(w)' <=> inst_stale(w)
    BY Zenon, <2>1, StaleSame
  <2>3. /\ will_build \in [Inst -> BOOLEAN] /\ completed \subseteq Inst
        /\ dep_inst[w] \subseteq Inst /\ pc # "batch" /\ \A v \in Inst : child[v] = "none"
    BY Zenon, <2>1 DEF IInv, TypeOK, ExecInv, ModeInv
  <2>4. CASE UNCHANGED <<completed, will_build>>
    BY Zenon, <2>1, <2>2, <2>4 DEF SummaryInv
  <2>5. ASSUME NEW v \in Inst, v \notin completed, dep_inst[v] \subseteq completed, Reports(v)
        PROVE  IF w \in completed'
                 THEN inst_stale(w)' \/ (\E d \in dep_inst'[w] : will_build'[d]) => will_build'[w]
                 ELSE ~will_build'[w]
    <3>1. /\ completed' = completed \cup {v}
          /\ will_build'[v] <=> inst_stale(v) \/ \E d \in dep_inst[v] : will_build[d]
          /\ \A u \in Inst \ {v} : will_build'[u] = will_build[u]
      BY Zenon, <2>3, <2>5 DEF Reports
    <3>2. w \in completed' => \A d \in dep_inst[w] : d # v /\ will_build'[d] = will_build[d]
      <4>1. w \in completed' => dep_inst[w] \subseteq completed
        BY Zenon, <2>1, <2>5, <3>1, StartedDeps
      <4>2. QED
        BY Zenon, <2>3, <2>5, <3>1, <4>1
    <3>3. CASE w = v
      BY Zenon, <2>1, <2>2, <3>1, <3>2, <3>3
    <3>4. CASE w # v
      BY Zenon, <2>1, <2>2, <3>1, <3>2, <3>4 DEF SummaryInv
    <3>5. QED
      BY Zenon, <3>3, <3>4
  <2>6. QED
    BY Zenon, <1>1, <2>1, <2>3, <2>4, <2>5, ProcessMeaning DEF WaitsFor
<1>2. CASE Command
  <2>1. PICK v \in Inst :
          OpenRedirect(v) \/ ReadInputs(v) \/ OpenOutput(v) \/ Succeed(v) \/ Fail(v)
    BY Zenon, <1>2 DEF Command
  <2>2. QED
    BY Zenon, <2>1, CommandFrame, WhileAlive
<1>3. CASE Tick
  <2>1. UNCHANGED <<manifest, mtime, summary_mode, pc, completed, dep_inst, will_build>>
    BY Zenon, <1>3 DEF Tick, schedVars
  <2>2. inst_stale(w)' <=> inst_stale(w)
    BY Zenon, <2>1, StaleSame
  <2>3. QED
    BY Zenon, <2>1, <2>2 DEF SummaryInv, Idle
<1>4. CASE \/ Interrupt \/ (\E s \in Source : Edit(s)) \/ \E v \in Inst : Remove(v)
  BY Zenon, <1>4 DEF Interrupt, Edit, Remove, Idle, schedVars
<1>5. CASE \E mode \in BOOLEAN : Invoke(mode)
  BY Zenon, <1>5 DEF Invoke
<1>6. QED
  BY Zenon, <1>1, <1>2, <1>3, <1>4, <1>5 DEF BuildNext, User

(* With every instance announced, nothing is left to show.                     *)
LEMMA AllAnnounced ==
  ASSUME predicted' = Inst
  PROVE  PredictInv'
<1>1. Announced({})'
  BY Zenon DEF Announced
<1>2. QED
  BY Zenon, <1>1 DEF PredictInv

(* Announced, where the times of the files and what was announced stay.         *)
LEMMA AnnouncedKept ==
  ASSUME FileInv, NEW left \in SUBSET Inst, Announced(left),
         UNCHANGED <<manifest, mtime, dep_inst, predicted>>,
         ~summary_mode' => \A v \in Inst : child'[v] # "none" => v \in predicted
  PROVE  PredictInv'
<1>1. \A v \in Inst : inst_stale(v)' <=> inst_stale(v)
  BY Zenon, StaleSame
<1>2. Announced(left)'
  BY Zenon, <1>1 DEF Announced
<1>3. QED
  BY Zenon, <1>2 DEF PredictInv

(* A run starts nothing that was not announced, so that what was not announced  *)
(* stays in order.                                                            *)
LEMMA PredictStep ==
  ASSUME FileInv, ExecInv, AcyclicInv, SummaryInv, PredictInv, BuildNext
  PROVE  PredictInv'
<1>1. PICK left \in SUBSET Inst : Announced(left)
  BY Zenon DEF PredictInv
<1>2. CASE Return
  <2>1. Process
    BY Zenon, <1>2 DEF Process
  <2>2. /\ UNCHANGED <<manifest, mtime, dep_inst, summary_mode, completed>> /\ IInv /\ ~Idle
    BY Zenon, <1>2, <2>1, ProcessFrame, ProcessRuns, ProcessMeaning DEF Return, Finish
  <2>3. CASE ~summary_mode
    <3>1. predicted' = Inst
      BY Zenon, <1>2, <2>3 DEF Return
    <3>2. QED
      BY Zenon, <3>1, AllAnnounced
  <2>4. CASE summary_mode
    <3> DEFINE L == Inst \ completed
    <3>1. predicted' = {v \in Inst : will_build[v]}
      BY Zenon, <1>2, <2>4 DEF Return
    <3>2. \A v \in Inst : inst_stale(v)' <=> inst_stale(v)
      BY Zenon, <2>2, StaleSame
    <3>3. \A v \in L : dep_inst[v] \cap L # {}
      <4>1. IInv'
        <5>1. ExecInv' /\ pc' # "killed"
          BY Zenon, <1>2, ExecStep DEF Return, Finish
        <5>2. QED
          BY Zenon, <5>1 DEF ExecInv
      <4>2. CycleHonest' /\ pc' \in {"done", "cycle"}
        BY Zenon, <1>2, <4>1, FreshEnd DEF Return, Finish
      <4>3. QED
        BY Zenon, <2>2, <4>2 DEF CycleHonest, Left
    <3>4. \A v \in Inst : IF v \in completed
             THEN inst_stale(v) \/ (\E d \in dep_inst[v] : will_build[d]) => will_build[v]
             ELSE ~will_build[v]
      BY Zenon, <2>2, <2>4 DEF SummaryInv
    <3>5. Announced(L)'
      <4>1. L \cap predicted' = {}
        BY Zenon, <3>1, <3>4
      <4>2. ASSUME NEW v \in Inst \ (predicted' \cup L)
            PROVE  ~inst_stale(v) /\ dep_inst[v] \cap predicted' = {}
        BY Zenon, <3>1, <3>4
      <4> HIDE DEF L
      <4>3. L' = L
        BY Zenon, <2>2 DEF L
      <4>4. QED
        BY Zenon, <2>2, <2>4, <3>2, <3>3, <4>1, <4>2, <4>3 DEF Announced
    <3>6. QED
      BY Zenon, <2>2, <3>5 DEF PredictInv
  <2>5. QED
    BY Zenon, <2>3, <2>4
<1>3. CASE Process /\ ~Return
  <2>1. /\ UNCHANGED <<manifest, mtime, dep_inst, summary_mode, predicted>> /\ IInv
        /\ pc # "killed"
    BY Zenon, <1>3, ProcessFrame, ProcessRuns
  <2>2. ASSUME ~summary_mode, NEW w \in Inst, child'[w] # "none"
        PROVE  w \in predicted
    <3>1. child \in [Inst -> Children]
      BY Zenon, <2>1 DEF IInv, TypeOK
    <3>2. CASE child[w] # "none"
      BY Zenon, <1>1, <2>2, <3>2 DEF Announced
    <3>3. ASSUME NEW v \in Inst, dep_inst[v] \subseteq completed, Starts(v), child[w] = "none"
          PROVE  w \in predicted
      <4>1. w = v /\ inst_stale(w)
        BY Zenon, <2>2, <3>1, <3>3 DEF Starts
      <4>2. left \cap completed = {}
        BY Zenon, <1>1, <2>1 DEF AcyclicInv, Announced
      <4>3. w \notin left
        BY Zenon, <1>1, <3>3, <4>1, <4>2 DEF Announced
      <4>4. QED
        BY Zenon, <1>1, <4>1, <4>3 DEF Announced
    <3>4. QED
      BY Zenon, <1>3, <2>1, <2>2, <3>2, <3>3, ProcessMeaning DEF Skips, WaitsFor, Reports
  <2>3. QED
    BY Zenon, <1>1, <2>1, <2>2, AnnouncedKept
<1>4. ASSUME NEW v \in Inst,
             OpenRedirect(v) \/ ReadInputs(v) \/ OpenOutput(v) \/ Succeed(v) \/ Fail(v)
      PROVE  PredictInv'
  <2>1. child[v] = "alive" /\ UNCHANGED <<manifest, dep_inst, summary_mode, predicted>>
    BY Zenon, <1>4, CommandFrame
  <2>2. ~summary_mode /\ v \in predicted
    BY Zenon, <1>1, <2>1, WhileAlive DEF Announced
  <2>3. ASSUME NEW w \in Inst \ (predicted \cup left)
        PROVE  inst_stale(w)' <=> inst_stale(w)
    <3>1. w # v /\ v \notin dep_inst[w]
      BY Zenon, <1>1, <2>2, <2>3 DEF Announced
    <3>2. v \notin Inputs(w) /\ Inputs(w) \subseteq File /\ w \in File
      BY Zenon, <3>1, ManifestMeaning, FilesApart
    <3>3. \A f \in File \ {v} : mtime'[f] = mtime[f]
      BY ZenonT(30), <1>4, CommandFrame DEF FileInv
    <3>4. QED
      BY Zenon, <2>1, <3>1, <3>2, <3>3, StaleSame
  <2>4. ASSUME NEW w \in Inst, child'[w] # "none"
        PROVE  w \in predicted
    <3>1. CASE w = v
      BY Zenon, <2>2, <3>1
    <3>2. CASE w # v
      BY Zenon, <1>1, <1>4, <2>2, <2>4, <3>2, CommandEnds DEF Announced
    <3>3. QED
      BY Zenon, <3>1, <3>2
  <2>5. Announced(left)'
    BY Zenon, <1>1, <2>1, <2>3, <2>4 DEF Announced
  <2>6. QED
    BY Zenon, <2>5 DEF PredictInv
<1>5. CASE Tick
  <2>1. UNCHANGED <<manifest, mtime, dep_inst, predicted, summary_mode, child>>
    BY Zenon, <1>5 DEF Tick, schedVars
  <2>2. QED
    BY Zenon, <1>1, <2>1, AnnouncedKept DEF Announced
<1>6. CASE \/ Interrupt \/ (\E s \in Source : Edit(s)) \/ \E v \in Inst : Remove(v)
  <2>1. predicted' = Inst
    BY Zenon, <1>6 DEF Interrupt, Edit, Remove
  <2>2. QED
    BY <2>1, AllAnnounced
<1>7. ASSUME NEW mode \in BOOLEAN, Invoke(mode)
      PROVE  PredictInv'
  <2>1. UNCHANGED <<manifest, mtime, dep_inst, predicted>> /\ \A v \in Inst : child'[v] = "none"
    BY Zenon, <1>7 DEF Invoke
  <2>2. QED
    BY Zenon, <1>1, <2>1, AnnouncedKept
<1>8. QED
  BY Zenon, <1>2, <1>3, <1>4, <1>5, <1>6, <1>7 DEF BuildNext, Command, User

(* All of it together                                                         *)
BuildInv ==
  /\ FileInv /\ ExecInv /\ AcyclicInv /\ TimesInv /\ DoneInv /\ SeenInv /\ LocalInv
  /\ CleanInv /\ SummaryInv /\ PredictInv

(* A first run starts with sources only.                                       *)
LEMMA BuildInitInv == BuildInit => BuildInv
<1> SUFFICES ASSUME BuildInit PROVE BuildInv
  BY Zenon 
<1>1. Init /\ pc = "scan" /\ \A v \in Inst : child[v] = "none" /\ v \notin completed
  BY Zenon DEF BuildInit, Init
<1>2. /\ ManifestOK(manifest) /\ dep_inst = manifest.dep_inst
      /\ mtime = [f \in File |-> IF f \in Source THEN 0 ELSE -1]
      /\ content = [f \in File |-> IF f \in Source THEN Edited(0)[f] ELSE Torn]
      /\ clock = 0 /\ DOMAIN stage = Inst /\ DOMAIN seen = Inst /\ wreck = {}
      /\ undone = Inst /\ predicted = Inst
  BY Zenon DEF BuildInit
<1>3. FileInv
  <2>1. \A s \in Source : mtime[s] = 0 /\ content[s] = Edited(0)[s] /\ content[s][s] = 0
    BY Zenon, <1>2, FilesApart, EditedMeaning
  <2>2. mtime \in [File -> Int] /\ \A f \in File : mtime[f] <= 0
    BY <1>2
  <2>3. QED
    BY SMTT(30), <1>2, <2>1, <2>2, BuildAssumption DEF FileInv, file_exists
<1>4. ExecInv
  BY Zenon, <1>1, InitIInv DEF ExecInv, ModeInv
<1>5. AcyclicInv
  BY Zenon, <1>1 DEF AcyclicInv, Init
<1>6. \A v \in Inst : mtime[v] = -1
  BY Zenon, <1>2, FilesApart
<1>7. TimesInv
  BY <1>2, <1>6 DEF TimesInv
<1>8. DoneInv /\ SeenInv
  BY Zenon, <1>1 DEF DoneInv, Passed, SeenInv
<1>9. LocalInv
  BY <1>6 DEF LocalInv, LocalAt, file_exists
<1>10. CleanInv
  BY Zenon, <1>2, FilesApart DEF CleanInv, Redone, Ingredients
<1>11. SummaryInv
  BY Zenon, <1>1 DEF SummaryInv, Init
<1>12. PredictInv
  <2>1. Announced({})
    BY Zenon, <1>2 DEF Announced
  <2>2. QED
    BY Zenon, <2>1 DEF PredictInv
<1>13. QED
  BY Zenon, <1>3, <1>4, <1>5, <1>7, <1>8, <1>9, <1>10, <1>11, <1>12 DEF BuildInv

(* Every step of a build keeps it.                                             *)
LEMMA BuildStep == BuildInv /\ [BuildNext]_vars => BuildInv'
<1> SUFFICES ASSUME BuildInv, [BuildNext]_vars PROVE BuildInv'
  BY Zenon
<1>1. CASE BuildNext
  BY Zenon, <1>1, FileStep, ExecStep, AcyclicStep, TimesStep, DoneStep, SeenStep, LocalStep, CleanStep,
     SummaryKept, PredictStep DEF BuildInv
<1>2. CASE UNCHANGED vars
  <2>1. UNCHANGED schedVars /\ UNCHANGED buildVars
    BY Zenon, <1>2 DEF vars
  <2>2. /\ UNCHANGED <<dep_inst, summary_mode, pc, child, will_build, completed>>
        /\ UNCHANGED <<manifest, mtime, content, clock, stage, seen, wreck, undone, predicted>>
    BY Zenon, <2>1 DEF schedVars, buildVars
  <2>3. /\ FileInv /\ ExecInv /\ AcyclicInv /\ TimesInv /\ DoneInv /\ SeenInv /\ LocalInv
        /\ CleanInv /\ SummaryInv /\ PredictInv
    BY Zenon DEF BuildInv
  <2>4. \A v \in Inst : /\ inst_stale(v)' <=> inst_stale(v)
                        /\ Oldest(v)' = Oldest(v) /\ Kind(v)' = Kind(v)
                        /\ Redone(v)' <=> Redone(v)
    BY Zenon, <2>2, <2>3, StaleSame, OldestSame, RedoneSame DEF Kind
  <2>5. FileInv'
    BY Zenon, <2>2, <2>3, FileFrame DEF FileInv
  <2>6. ExecInv'
    BY Zenon, <2>1, <2>2, <2>3, StutterStep DEF ExecInv, ModeInv
  <2>7. AcyclicInv' /\ TimesInv'
    BY Zenon, <2>2, <2>3 DEF AcyclicInv, TimesInv, Idle
  <2>8. DoneInv' /\ CleanInv' /\ SummaryInv'
    BY Zenon, <2>2, <2>3, <2>4 DEF DoneInv, CleanInv, SummaryInv, Passed, InOrder, Idle
  <2>9. SeenInv'
    BY Zenon, <2>2, <2>3, <2>4 DEF SeenInv
  <2>10. LocalInv'
    BY Zenon, <2>2, <2>3, LocalSame DEF LocalInv
  <2>11. PredictInv'
    <3>1. PICK left \in SUBSET Inst : Announced(left)
      BY Zenon, <2>3 DEF PredictInv
    <3>2. QED
      BY Zenon, <2>2, <2>3, <3>1, AnnouncedKept DEF Announced
  <2>12. QED
    BY Zenon, <2>5, <2>6, <2>7, <2>8, <2>9, <2>10, <2>11 DEF BuildInv
<1>3. QED
  BY Zenon, <1>1, <1>2

(* BuildInv holds throughout.                                                  *)
LEMMA BuildInvariance == BuildSpec => []BuildInv
BY BuildInitInv, BuildStep, PTL DEF BuildSpec

(* When ninqu returns 0 every output was made from the sources as they are,      *)
(* through every intermediate output, for every manifest, any number of rules    *)
(* and sources and every history of edits, removals, failures and interrupted    *)
(* runs, except for what goes back to a half-written output.                    *)
THEOREM BuildsAreSound == BuildSpec => BuildSound
<1>1. BuildInv /\ [BuildNext]_vars =>
        [pc # "done" /\ pc' = "done" /\ ~summary_mode /\ ~failed_any =>
           \A v \in Inst :
             \/ Kind(v) = "phony" \/ UpToDate(v)
             \/ Ingredients(v) \cap wreck # {}]_vars
  <2> SUFFICES ASSUME BuildInv, [BuildNext]_vars, pc # "done", pc' = "done", ~summary_mode,
                      ~failed_any
               PROVE  \A v \in Inst :
                        \/ Kind(v) = "phony" \/ UpToDate(v)
                        \/ Ingredients(v) \cap wreck # {}
    BY Zenon
  <2>1. Return
    BY Zenon, DoneByReturn
  <2>2. QED
    BY Zenon, <2>1, ReturnSound DEF BuildInv
<1>2. QED
  BY <1>1, BuildInvariance, PTL DEF BuildSpec, BuildSound

(* After a run that returned 0 the next one starts phony rules only, and what    *)
(* goes back to an output that run left half-written or to a pipeline of which   *)
(* a stage failed, for every manifest and every history.                        *)
THEOREM NothingReworked == BuildSpec => []NoRework
<1>1. BuildInv => NoRework
  BY Zenon DEF BuildInv, CleanInv, Redone, NoRework
<1>2. QED
  BY <1>1, BuildInvariance, PTL

(* A run starts no command that -S did not announce for the same files, whatever *)
(* the graph, cycles included.                                                 *)
THEOREM SummaryAnnouncesAll == BuildSpec => []SummarySound
<1>1. BuildInv => SummarySound
  BY Zenon DEF BuildInv, PredictInv, Announced, SummarySound
<1>2. QED
  BY <1>1, BuildInvariance, PTL
=============================================================================
