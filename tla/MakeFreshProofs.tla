--------------------------- MODULE MakeFreshProofs ---------------------------
(***************************************************************************)
(* What the walk of Make has done when it ends.  Where inference rules and       *)
(* .DEFAULT are no goals or prerequisites and inferred sources are made by no    *)
(* rule, exit status 0 means every goal is up to date, and no recipe runs        *)
(* twice.  Under -q, for every makefile, the exit status answers the question.  *)
(***************************************************************************)
EXTENDS MakeProofs

(* What inference() may build a target from is made by no rule: a .c file with   *)
(* neither actions nor a file that another rule would build it from           *)
LeafSources(m) ==
  \A n \in DOMAIN m.suffixes, t \in Target :
    LET s == m.source[m.suffixes[n]][t] IN
    s # None => /\ m.lines[s] = 0
                /\ \A k \in DOMAIN m.suffixes : m.source[m.suffixes[k]][s] = None

(* .DEFAULT is no goal and no prerequisite                                   *)
NamesNoDefault(m) ==
  /\ Default \notin SeqElems(m.goals)
  /\ \A e \in SeqElems(m.edges) : e[2] # Default

(* The makefiles the theorems about 0 and about running once are for          *)
StandardMakefile(m) == PlainMakefile(m) /\ LeafSources(m) /\ NamesNoDefault(m)

(* No -n, -q, -t or -i, no status that wait() did not store, and not killed     *)
Live == Followed /\ ~Dry /\ status # "killed"

(* The prerequisites the loop of an activation is past                       *)
SeenBy(f) == {deps[f.t][n] : n \in 1 .. f.i - 1}

(* The activation whose recipe runs                                          *)
Working(k) == k = Len(stack) /\ pc \in InRun

(* What an activation knows: which prerequisites are done, and that one of a     *)
(* settled target finds its stamp and theirs as they are on the disk          *)
FrameFresh(D, k) ==
  LET f == stack[k] IN
  /\ ~f.err => SeenBy(f) \subseteq D
  /\ f.need => deps[f.t] # <<>>
  /\ Settled(f.t) /\ ~Working(k) =>
       /\ stamp[f.t] = file[f.t]
       /\ f.t \in D => ~f.need
       /\ ~f.err /\ ~f.need => \A d \in SeenBy(f) : file[d] <= file[f.t]

(* Whose actions run() runs, and for which target                            *)
Serves ==
  \/ rule = Top.t /\ HasActions(Top.t)
  \/ /\ rule \in SeqElems(mk.suffixes) /\ HasActions(rule)
     /\ bind[rule] = Top.t /\ Usable(Top.t, TRUE) # {}
  \/ rule = Default /\ ~Settled(Top.t)

(* The last line has succeeded                                               *)
Ended ==
  \/ pc = "run" /\ line > mk.lines[rule]
  \/ pc = "ret" /\ ret = 0
  \/ child.st = "exited" /\ child.code = 0 /\ child.last

(* The recipe of a settled target is needed, and has made it once it ended    *)
RunFresh(D) ==
  pc \in InRun =>
    /\ Serves
    /\ Settled(Top.t) => Top.t \notin D
    /\ Settled(Top.t) /\ Ended => Fresh(Top.t)

(* Only the target of the recipe that runs is half written                   *)
TornFresh ==
  exitstatus = 0 =>
    /\ torn # {} => pc \in InRun /\ torn \subseteq {Top.t} /\ rule # Default
    /\ pc \in InRun /\ Ended => torn = {}

(* While no error is known a goal is done, in work or still to come           *)
GoalsDone(D) ==
  exitstatus = 0 =>
    /\ \A g \in SeqElems(mk.goals) :
         \/ g \in SeqElems(goals) \cup D
         \/ stack # <<>> /\ stack[1].t = g
    /\ status = "exit" => goals = <<>> /\ stack = <<>>

(* D: the targets rebuild() has returned 0 for                               *)
DoneBy(D) ==
  /\ D \in Closed
  /\ pc = "parse" => D = {}
  /\ \A x \in D : Settled(x) => Fresh(x)
  /\ made \subseteq D
  /\ status = "run" => \A k \in 1 .. Len(stack) : FrameFresh(D, k)
  /\ RunFresh(D) /\ GoalsDone(D)

(* What is closed and holds the target of an activation holds those of the ones  *)
(* above it                                                                  *)
Stacked ==
  \A D \in Closed : \A k \in 1 .. Len(stack) :
    stack[k].t \in D => \A m \in k .. Len(stack) : stack[m].t \in D

(* The invariant GoalsUpToDate and RecipesRunOnce rest on                    *)
FreshInv ==
  /\ Stacked
  /\ clock \in Nat /\ \A x \in Target : file[x] <= clock
  /\ lost => stop
  /\ pc = "touchdeps" => Flag("t")
  /\ Live => TornFresh /\ \E D \in SUBSET Target : DoneBy(D)

-----------------------------------------------------------------------------
(* What a target depends on.                                                 *)

(* Reach() holds the target and, with a target, what that depends on          *)
LEMMA ReachFacts ==
  ASSUME deps \in [Target -> Seq(Target)], NEW t \in Target
  PROVE  /\ t \in Reach(t)
         /\ \A d \in SeqElems(deps[t]) : d \in Target /\ Reach(d) \subseteq Reach(t)
         /\ \A S \in Closed : t \in S => Reach(t) \subseteq S
<1>1. t \in Reach(t)
  BY Zenon DEF Reach
<1>2. ASSUME NEW d \in SeqElems(deps[t])
      PROVE  d \in Target /\ Reach(d) \subseteq Reach(t)
  <2>1. d \in Target
    BY DEF SeqElems
  <2>2. \A S \in Closed : t \in S => d \in S
    BY Zenon DEF Closed
  <2> QED BY Zenon, <2>1, <2>2 DEF Reach
<1>3. \A S \in Closed : t \in S => Reach(t) \subseteq S
  BY Zenon DEF Reach
<1> QED BY Zenon, <1>1, <1>2, <1>3

(* A settled target has what it needs, and so has what it depends on          *)
LEMMA SettledFacts ==
  ASSUME MakeTypeOK, NEW t \in Target, Settled(t)
  PROVE  /\ t \notin mk.phony
         /\ Ruled(t) \/ (deps[t] = <<>> /\ file[t] # -1)
         /\ \A d \in SeqElems(deps[t]) : d \in Target /\ Settled(d)
<1>1. deps \in [Target -> Seq(Target)]
  BY Zenon DEF MakeTypeOK
<1> QED BY Zenon, <1>1, ReachFacts DEF Settled

(* inference() finds a rule when there is one to use, and when forced whenever   *)
(* it would unforced                                                         *)
LEMMA InferenceFinds ==
  ASSUME MakeTypeOK, NEW t \in Target
  PROVE  /\ inference(t, TRUE) # None <=> Usable(t, TRUE) # {}
         /\ inference(t, FALSE) # None <=> Usable(t, FALSE) # {}
         /\ Usable(t, FALSE) = {n \in Usable(t, TRUE) : file[mk.source[mk.suffixes[n]][t]] > stamp[t]}
         /\ Ruled(t) <=> HasActions(t) \/ Usable(t, TRUE) # {}
         /\ inference(t, TRUE) # None => HasActions(inference(t, TRUE))
<1>1. mk.suffixes \in Seq(Target \ {Default})
  BY Zenon, MakefileType DEF MakeTypeOK
<1>2. ASSUME NEW force \in BOOLEAN, Usable(t, force) # {}
      PROVE  inference(t, force) # None /\ HasActions(inference(t, force))
  <2>1. Usable(t, force) \subseteq DOMAIN mk.suffixes
    BY Zenon DEF Usable
  <2> DEFINE n == First(Usable(t, force))
  <2>2. n \in Usable(t, force)
    BY Zenon, <1>2, FirstIn
  <2>3. inference(t, force) = mk.suffixes[n]
    BY Zenon, <1>2 DEF inference
  <2> HIDE DEF n
  <2>4. HasActions(mk.suffixes[n])
    BY Zenon, <2>2 DEF Usable
  <2>5. mk.suffixes[n] \in Target
    BY <1>1, <2>1, <2>2
  <2> QED BY Zenon, <2>3, <2>4, <2>5, MakeAssumption
<1>3. ASSUME NEW force \in BOOLEAN, Usable(t, force) = {} PROVE inference(t, force) = None
  BY Zenon, <1>3 DEF inference
<1>4. Usable(t, FALSE) = {n \in Usable(t, TRUE) : file[mk.source[mk.suffixes[n]][t]] > stamp[t]}
  BY Zenon DEF Usable
<1> QED BY Zenon, <1>2, <1>3, <1>4 DEF Ruled

(* What a usable rule builds from is a target                                *)
LEMMA SourceType ==
  ASSUME MakeTypeOK, NEW t \in Target, NEW n \in Usable(t, TRUE)
  PROVE  mk.source[mk.suffixes[n]][t] \in Target
<1>1. /\ mk.suffixes \in Seq(Target \ {Default})
      /\ mk.source \in [Target -> [Target -> Target \cup {None}]]
  BY Zenon, MakefileType DEF MakeTypeOK
<1>2. n \in DOMAIN mk.suffixes /\ mk.source[mk.suffixes[n]][t] # None
  BY Zenon DEF Usable
<1> QED BY <1>1, <1>2

(* Nothing that inference() looks at changes, nor what is settled, when make      *)
(* writes one of the targets it has a rule for                               *)
LEMMA WriteKeepsSettled ==
  ASSUME MakeTypeOK, LeafSources(mk), UNCHANGED <<mk, deps>>,
         NEW z \in Target, HasActions(z) \/ Usable(z, TRUE) # {},
         \A x \in Target : x # z => file'[x] = file[x]
  PROVE  \A t \in Target :
           /\ Usable(t, TRUE)' = Usable(t, TRUE)
           /\ \A n \in Usable(t, TRUE) :
                /\ mk.source[mk.suffixes[n]][t] \in Target
                /\ mk.source[mk.suffixes[n]][t] # z
           /\ Settled(t)' <=> Settled(t)
<1>1. /\ mk.suffixes \in Seq(Target \ {Default})
      /\ mk.source \in [Target -> [Target -> Target \cup {None}]]
      /\ mk.lines \in [Target -> Nat]
  BY Zenon, MakefileType DEF MakeTypeOK
<1>2. ASSUME NEW t \in Target, NEW n \in DOMAIN mk.suffixes,
             mk.source[mk.suffixes[n]][t] # None
      PROVE  mk.source[mk.suffixes[n]][t] \in Target \ {z}
  <2> DEFINE s == mk.source[mk.suffixes[n]][t]
  <2>1. s \in Target
    BY <1>1, <1>2
  <2>2. mk.lines[s] = 0 /\ \A k \in DOMAIN mk.suffixes : mk.source[mk.suffixes[k]][s] = None
    BY Zenon, <1>2 DEF LeafSources
  <2> HIDE DEF s
  <2>3. ~HasActions(s)
    BY SMTT(30), <2>2 DEF HasActions
  <2>4. Usable(s, TRUE) = {}
    BY Zenon, <2>2 DEF Usable
  <2> QED BY Zenon, <2>1, <2>3, <2>4 DEF s
<1>3. ASSUME NEW t \in Target PROVE Usable(t, TRUE)' = Usable(t, TRUE)
  BY Zenon, <1>2 DEF Usable, HasActions
<1>4. ASSUME NEW t \in Target, NEW n \in Usable(t, TRUE)
      PROVE  /\ mk.source[mk.suffixes[n]][t] \in Target
             /\ mk.source[mk.suffixes[n]][t] # z
  BY Zenon, <1>2 DEF Usable
<1>5. \A x \in Target : Ruled(x)' = Ruled(x)
  BY Zenon, <1>3 DEF Ruled, HasActions, inference
<1>6. Ruled(z)
  BY Zenon, InferenceFinds
<1>7. \A t \in Target : Reach(t)' = Reach(t) /\ Reach(t) \subseteq Target
  BY Zenon DEF Reach, Closed
<1>8. \A x \in Target : (file'[x] # -1 <=> file[x] # -1) \/ (Ruled(x) /\ Ruled(x)')
  BY Zenon, <1>5, <1>6
<1>9. \A t \in Target : Settled(t)' <=> Settled(t)
  <2>1. ASSUME NEW x \in Target
        PROVE  (x \notin mk.phony /\ (Ruled(x) \/ (deps[x] = <<>> /\ file[x] # -1)))'
                 <=> (x \notin mk.phony /\ (Ruled(x) \/ (deps[x] = <<>> /\ file[x] # -1)))
    BY Zenon, <1>5, <1>8
  <2> QED BY Zenon, <1>7, <2>1 DEF Settled
<1> QED BY Zenon, <1>3, <1>4, <1>9

(* Neither does it change while the files stay                               *)
LEMMA StillSettled ==
  ASSUME UNCHANGED <<mk, deps, file>>
  PROVE  \A t : /\ Usable(t, TRUE)' = Usable(t, TRUE)
                /\ Settled(t)' <=> Settled(t)
                /\ Fresh(t)' <=> Fresh(t)
<1>1. \A t : Usable(t, TRUE)' = Usable(t, TRUE)
  BY Zenon DEF Usable, HasActions
<1>2. \A t : Reach(t)' = Reach(t)
  BY Zenon DEF Reach, Closed
<1>3. \A t : Ruled(t)' = Ruled(t)
  <2>1. \A t : inference(t, TRUE)' = inference(t, TRUE)
    BY Zenon, <1>1, InferenceKept
  <2> QED BY Zenon, <2>1 DEF Ruled, HasActions
<1>4. \A t : Settled(t)' <=> Settled(t)
  BY Zenon, <1>2, <1>3 DEF Settled
<1>5. \A t : Fresh(t)' <=> Fresh(t)
  BY Zenon, <1>1 DEF Fresh
<1> QED BY Zenon, <1>1, <1>4, <1>5

-----------------------------------------------------------------------------
(* The steps.                                                                *)

(* An activation that a step leaves alone                                    *)
LEMMA FrameStays ==
  ASSUME UNCHANGED <<mk, deps, stack, stamp, file>>, pc \in InRun => pc' \in InRun,
         NEW D, NEW k, FrameFresh(D, k)
  PROVE  FrameFresh(D, k)'
<1>1. Settled(stack[k].t)' <=> Settled(stack[k].t)
  BY Zenon, StillSettled
<1>2. SeenBy(stack[k])' = SeenBy(stack[k]) /\ (~Working(k)' => ~Working(k))
  BY Zenon DEF SeenBy, Working
<1> QED BY Zenon, <1>1, <1>2 DEF FrameFresh

(* A step inside run() that writes nothing                                   *)
LEMMA RunKeepsFresh ==
  ASSUME MakeInv, NEW D, DoneBy(D), TornFresh,
         UNCHANGED <<mk, deps, goals, stack, stamp, file, torn, made, rule, bind,
                     exitstatus, status>>,
         pc \in InRun, pc' \in InRun, Ended' => Ended
  PROVE  DoneBy(D)' /\ TornFresh'
<1>1. \A t : /\ Usable(t, TRUE)' = Usable(t, TRUE)
             /\ Settled(t)' <=> Settled(t)
             /\ Fresh(t)' <=> Fresh(t)
  BY Zenon, StillSettled
<1>2. Top' = Top /\ Closed' = Closed /\ pc' # "parse"
  BY Zenon DEF Top, Closed, InRun
<1>3. Serves => Serves'
  BY Zenon, <1>1, <1>2 DEF Serves, HasActions
<1>4. RunFresh(D)'
  BY Zenon, <1>1, <1>2, <1>3 DEF DoneBy, RunFresh
<1>5. GoalsDone(D)' /\ TornFresh'
  BY Zenon, <1>2 DEF DoneBy, GoalsDone, TornFresh
<1>6. status' = "run" => \A k \in 1 .. Len(stack') : FrameFresh(D, k)'
  BY Zenon, FrameStays DEF DoneBy
<1>7. \A x \in D : Settled(x)' => Fresh(x)'
  BY Zenon, <1>1 DEF DoneBy
<1> QED BY Zenon, <1>2, <1>4, <1>5, <1>6, <1>7 DEF DoneBy

(* launch() and the lines of run(), when no error is ignored and no status lost  *)
LEMMA LaunchFresh ==
  ASSUME MakeInv, Clean, ~Flag("i"), ~Dry, NEW D, DoneBy(D), TornFresh,
         RunLine \/ RunDone \/ Block \/ Fork \/ NotForked \/ Wait \/ Reap
  PROVE  DoneBy(D)' /\ TornFresh'
<1>1. ~Flag("t")
  BY Zenon DEF Dry, Flag
<1>2. UNCHANGED <<mk, deps, goals, stack, stamp, file, torn, made, rule, bind,
                  exitstatus, status>>
  BY Zenon, <1>1 DEF RunLine, RunDone, Block, Fork, NotForked, Wait, Reap, launched, walk,
              disk, history
<1>3. pc \in InRun /\ pc' \in InRun
  BY Zenon DEF RunLine, RunDone, Block, Fork, NotForked, Wait, Reap, LineReturns, InRun
<1>4. ASSUME Ended' PROVE Ended
  <2>1. CASE RunLine
    <3>1. child = NoChild /\ child' = child
      BY Zenon, <2>1 DEF RunLine, Clean, Waited
    <3> QED BY Zenon, <1>4, <2>1, <3>1 DEF RunLine, Ended, NoChild
  <2>2. CASE RunDone
    BY Zenon, <2>2 DEF RunDone, Ended
  <2>3. CASE Block \/ Wait
    BY Zenon, <1>2, <1>4, <2>3 DEF Block, Wait, Ended
  <2>4. CASE Fork
    BY Zenon, <1>4, <2>4 DEF Fork, Ended
  <2>5. CASE NotForked
    <3>1. child = NoChild /\ child' = child
      BY Zenon, <2>5 DEF NotForked, Clean, Waited
    <3> QED BY SMTT(30), <1>4, <2>5, <3>1 DEF NotForked, LineReturns, Ended, NoChild
  <2>6. CASE Reap
    <3>1. /\ child' = NoChild /\ child.st = "exited" /\ child # NoChild
          /\ pc' \in {"run", "ret"}
          /\ child.code # 0 => pc' = "ret" /\ ret' = child.code
          /\ pc' = "run" => line' = line + 1
      BY <2>6, SMTT(30) DEF Reap, LineReturns, NoChild
    <3>2. child'.st # "exited"
      BY Zenon, <3>1 DEF NoChild
    <3>3. child.code = 0
      BY Zenon, <1>4, <3>1, <3>2 DEF Ended
    <3>4. pc' = "run" /\ line' > mk.lines[rule]
      BY Zenon, <1>2, <1>4, <2>6, <3>2, <3>3 DEF Ended, Reap, LineReturns
    <3>5. rule \in Target /\ pc \in InLaunch
      BY Zenon, <1>3, <2>6 DEF MakeInv, Placed, Reap, InLaunch
    <3>6. line \in Nat /\ mk.lines[rule] \in Nat /\ line <= mk.lines[rule]
      BY Zenon, <3>5, MakefileType DEF MakeInv, MakeTypeOK, Clean, OneTorn
    <3>7. line = mk.lines[rule]
      BY SMTT(30), <3>1, <3>4, <3>6
    <3>8. child.last
      BY Zenon, <3>1, <3>7 DEF Clean, Waited
    <3> QED BY Zenon, <3>1, <3>3, <3>8 DEF Ended
  <2> QED BY Zenon, <2>1, <2>2, <2>3, <2>4, <2>5, <2>6
<1> QED BY Zenon, <1>2, <1>3, <1>4, RunKeepsFresh

(* What rebuild() knows at the end of its loop                               *)
LEMMA AfterLoopKnows ==
  ASSUME MakeInv, NEW D, DoneBy(D), AfterLoop
  PROVE  /\ stack # <<>> /\ Top.t \in Target /\ status = "run"
         /\ ~Top.err => SeqElems(deps[Top.t]) \subseteq D
         /\ Settled(Top.t) =>
              /\ stamp[Top.t] = file[Top.t]
              /\ Top.need => deps[Top.t] # <<>>
              /\ Top.t \in D => ~Top.need
              /\ ~Top.err /\ ~Top.need =>
                   \A d \in SeqElems(deps[Top.t]) : file[d] <= file[Top.t]
<1>1. stack # <<>> /\ status = "run" /\ pc \notin InRun
  BY Zenon DEF AfterLoop, MakeInv, Placed, InRun, MakeTypeOK
<1>2. /\ Len(stack) \in 1 .. Len(stack) /\ Top.t \in Target /\ Top.i \in Nat \ {0}
      /\ deps[Top.t] \in Seq(Target) /\ Len(deps[Top.t]) \in Nat
      /\ Top = stack[Len(stack)]
  BY Zenon, <1>1, TopType DEF MakeInv, Top
<1>3. SeqElems(deps[Top.t]) \subseteq SeenBy(Top)
  <2>1. 1 .. Len(deps[Top.t]) \subseteq 1 .. Top.i - 1
    BY <1>2 DEF AfterLoop
  <2>2. DOMAIN deps[Top.t] = 1 .. Len(deps[Top.t])
    BY Zenon, <1>2, SeqDomain
  <2> QED BY Zenon, <2>1, <2>2 DEF SeqElems, SeenBy
<1>4. FrameFresh(D, Len(stack)) /\ ~Working(Len(stack))
  BY Zenon, <1>1, <1>2 DEF DoneBy, Working
<1> QED BY Zenon, <1>1, <1>2, <1>3, <1>4 DEF FrameFresh

(* A settled target is remade by a rule, and never when it is done            *)
LEMMA SettledNeeds ==
  ASSUME MakeInv, NEW D, DoneBy(D), AfterLoop, Settled(Top.t), Need(Top)
  PROVE  Ruled(Top.t) /\ Top.t \notin D
<1> DEFINE t == Top.t
<1>1. /\ t \in Target /\ stamp[t] = file[t]
      /\ Top.need => deps[t] # <<>>
      /\ t \in D => ~Top.need
  BY Zenon, AfterLoopKnows
<1>2. Ruled(t) \/ (deps[t] = <<>> /\ file[t] # -1)
  BY Zenon, <1>1, SettledFacts DEF MakeInv
<1> HIDE DEF t
<1>3. ASSUME ~Ruled(t) PROVE Newer(t) = None
  BY Zenon, <1>1, <1>3, InferenceFinds DEF MakeInv, Newer
<1>4. ASSUME t \in D PROVE FALSE
  <2>1. Fresh(t)
    BY Zenon, <1>4 DEF DoneBy, t
  <2>2. file[t] # -1 /\ ~Top.need
    BY Zenon, <1>1, <1>4, <2>1 DEF Fresh
  <2>3. Usable(t, FALSE) = {}
    <3>1. ASSUME NEW n \in Usable(t, FALSE) PROVE FALSE
      <4>1. n \in Usable(t, TRUE) /\ file[mk.source[mk.suffixes[n]][t]] > file[t]
        BY Zenon, <1>1, InferenceFinds DEF MakeInv
      <4>2. mk.source[mk.suffixes[n]][t] \in Target
        BY Zenon, <1>1, <4>1, SourceType DEF MakeInv
      <4>3. file[mk.source[mk.suffixes[n]][t]] \in Int /\ file[t] \in Int
        BY Zenon, <1>1, <4>2 DEF MakeInv, MakeTypeOK
      <4>4. file[mk.source[mk.suffixes[n]][t]] <= file[t]
        BY Zenon, <2>1, <4>1 DEF Fresh
      <4> QED BY SMTT(30), <4>1, <4>3, <4>4
    <3> QED BY Zenon, <3>1
  <2>4. Newer(t) = None
    BY Zenon, <1>1, <2>3, InferenceFinds DEF MakeInv, Newer
  <2> QED BY Zenon, <1>1, <2>2, <2>4 DEF Need, t
<1> QED BY Zenon, <1>1, <1>2, <1>3, <1>4 DEF Need, t

(* update() chooses what run() runs                                          *)
LEMMA StartFresh ==
  ASSUME MakeInv, PlainWalk, Met \subseteq Plain, Clean, ~Dry,
         NEW D, DoneBy(D), TornFresh, StartRun
  PROVE  DoneBy(D)' /\ TornFresh'
<1>1. ~Flag("t")
  BY Zenon DEF Dry, Flag
<1>2. /\ UNCHANGED <<mk, deps, goals, stack, stamp, file, torn, made, exitstatus,
                     status, child>>
      /\ pc = "rebuild" /\ pc' = "run" /\ line' = 1
      /\ rule' = RuleFor(Top.t) /\ rule' # None /\ bind' = BoundFor(Top.t)
      /\ AfterLoop /\ ~Top.err /\ Need(Top)
  BY Zenon, <1>1 DEF StartRun, walk, disk, history, Updating, AfterLoop
<1>3. stack # <<>> /\ Top.t \in Target
  BY Zenon, <1>2, AfterLoopKnows
<1>4. Settled(Top.t) => Ruled(Top.t) /\ Top.t \notin D
  BY Zenon, <1>2, SettledNeeds
<1>5. \A t : /\ Usable(t, TRUE)' = Usable(t, TRUE)
             /\ Settled(t)' <=> Settled(t)
             /\ Fresh(t)' <=> Fresh(t)
  BY Zenon, <1>2, StillSettled
<1>6. Top' = Top /\ Closed' = Closed /\ child = NoChild /\ pc \notin InRun
  BY Zenon, <1>2 DEF Top, Closed, Clean, Waited, InRun
<1>7. /\ Serves'
      /\ Settled(Top.t) => mk.lines[rule'] > 0
  <2>1. CASE HasActions(Top.t)
    <3>1. rule' = Top.t
      BY Zenon, <1>2, <2>1 DEF RuleFor
    <3> QED BY Zenon, <1>2, <1>6, <2>1, <3>1 DEF Serves, HasActions
  <2>2. CASE ~HasActions(Top.t) /\ inference(Top.t, TRUE) # None
    <3>1. rule' = inference(Top.t, TRUE)
      BY Zenon, <1>2, <2>2 DEF RuleFor
    <3>2. rule' \in SeqElems(mk.suffixes) /\ rule' \in Target
      BY Zenon, <1>3, <2>2, <3>1, InferenceRule, InferenceType DEF MakeInv
    <3>3. HasActions(rule') /\ Usable(Top.t, TRUE) # {}
      BY Zenon, <1>3, <2>2, <3>1, InferenceFinds DEF MakeInv
    <3>4. Bound(bind, Newer(Top.t), Top.t) \in [Target -> Target]
      BY Zenon, <1>3, RuleForType DEF MakeInv
    <3>5. bind' = [Bound(bind, Newer(Top.t), Top.t) EXCEPT ![rule'] = Top.t]
      BY Zenon, <1>2, <2>2, <3>1 DEF BoundFor, Bound
    <3>6. bind'[rule'] = Top.t
      BY Zenon, <3>2, <3>4, <3>5
    <3> QED BY Zenon, <1>2, <1>5, <1>6, <3>2, <3>3, <3>6 DEF Serves, HasActions
  <2>3. CASE ~HasActions(Top.t) /\ inference(Top.t, TRUE) = None
    <3>1. rule' = Default
      BY Zenon, <1>2, <2>3 DEF RuleFor
    <3>2. ~Settled(Top.t)
      BY Zenon, <1>4, <2>3 DEF Ruled
    <3> QED BY Zenon, <1>5, <1>6, <3>1, <3>2 DEF Serves
  <2> QED BY Zenon, <2>1, <2>2, <2>3
<1>8. Settled(Top.t) => ~Ended'
  <2>1. rule' \in Target
    BY Zenon, <1>2, <1>3, RuleForType DEF MakeInv
  <2>2. mk.lines[rule'] \in Nat
    BY Zenon, <2>1, MakefileType DEF MakeInv, MakeTypeOK
  <2>3. Settled(Top.t) => ~(line' > mk.lines[rule'])
    BY SMTT(30), <1>2, <1>7, <2>2
  <2> QED BY Zenon, <1>2, <1>6, <2>3 DEF Ended, NoChild
<1>9. RunFresh(D)'
  BY Zenon, <1>4, <1>5, <1>6, <1>7, <1>8 DEF RunFresh
<1>10. GoalsDone(D)' /\ TornFresh'
  BY Zenon, <1>2, <1>6 DEF DoneBy, GoalsDone, TornFresh
<1>11. status' = "run" => \A k \in 1 .. Len(stack') : FrameFresh(D, k)'
  BY Zenon, <1>2, <1>6, FrameStays DEF DoneBy
<1>12. \A x \in D : Settled(x)' => Fresh(x)'
  BY Zenon, <1>5 DEF DoneBy
<1> QED BY Zenon, <1>2, <1>6, <1>9, <1>10, <1>11, <1>12 DEF DoneBy

(* The goals that are left to do when main() takes one                        *)
LEMMA GoalsEnter ==
  ASSUME MakeInv, NEW D, GoalsDone(D), NEW t \in Target, Enter(t),
         UNCHANGED <<mk, exitstatus, status>>, status = "run",
         \/ goals' = goals /\ stack # <<>>
         \/ stack = <<>> /\ goals # <<>> /\ t = Head(goals) /\ goals' = Tail(goals)
  PROVE  GoalsDone(D)'
<1>1. /\ Len(stack') = Len(stack) + 1 /\ Len(stack) \in Nat
      /\ \A k \in 1 .. Len(stack) : stack'[k] = stack[k]
      /\ stack'[Len(stack) + 1] = Frame(t) /\ stack' # <<>>
  BY Zenon, EnterStack DEF MakeInv
<1>2. CASE goals' = goals /\ stack # <<>>
  <2>1. stack'[1] = stack[1]
    BY <1>1, <1>2 DEF MakeInv, MakeTypeOK
  <2> QED BY Zenon, <1>1, <1>2, <2>1 DEF GoalsDone
<1>3. CASE stack = <<>> /\ goals # <<>> /\ t = Head(goals) /\ goals' = Tail(goals)
  <2>1. stack'[1].t = t
    BY <1>1, <1>3 DEF Frame
  <2>2. goals \in Seq(Target)
    BY Zenon DEF MakeInv, MakeTypeOK
  <2>3. SeqElems(goals) \subseteq {t} \cup SeqElems(goals')
    <3>1. ASSUME NEW n \in 1 .. Len(goals), n # 1
          PROVE  n - 1 \in DOMAIN goals' /\ goals'[n - 1] = goals[n]
      BY <1>3, <2>2, <3>1
    <3>2. goals[1] = t /\ DOMAIN goals = 1 .. Len(goals)
      BY <1>3, <2>2
    <3> QED BY <3>1, <3>2 DEF SeqElems
  <2> QED BY Zenon, <1>1, <1>3, <2>1, <2>3 DEF GoalsDone
<1> QED BY Zenon, <1>2, <1>3

(* A call of rebuild()                                                       *)
LEMMA EnterFresh ==
  ASSUME MakeInv, NEW D, DoneBy(D), TornFresh, NEW t \in Target, Enter(t),
         UNCHANGED <<mk, deps, file, torn, made, exitstatus, status>>,
         pc \notin InRun \cup {"parse"}, pc' = "rebuild", status = "run",
         \/ goals' = goals /\ stack # <<>>
         \/ stack = <<>> /\ goals # <<>> /\ t = Head(goals) /\ goals' = Tail(goals)
  PROVE  DoneBy(D)' /\ TornFresh'
<1>1. /\ Len(stack') = Len(stack) + 1 /\ Len(stack) \in Nat
      /\ \A k \in 1 .. Len(stack) : stack'[k] = stack[k]
      /\ stack'[Len(stack) + 1] = Frame(t) /\ stack' # <<>>
  BY Zenon, EnterStack DEF MakeInv
<1>2. \A x : /\ Settled(x)' <=> Settled(x)
             /\ Fresh(x)' <=> Fresh(x)
  BY Zenon, StillSettled
<1>3. Closed' = Closed /\ pc' \notin InRun \cup {"parse"}
  BY Zenon DEF Closed, InRun
<1>4. stamp \in [Target -> Int] /\ stamp' = Stamped(t)
  BY Zenon DEF MakeInv, MakeTypeOK, Enter
<1>5. ASSUME NEW x \in Target, Settled(x), x = t \/ stamp[x] = file[x]
      PROVE  stamp'[x] = file'[x]
  <2>1. x \notin mk.phony
    BY Zenon, <1>5, SettledFacts DEF MakeInv
  <2> QED BY Zenon, <1>4, <1>5, <2>1 DEF Stamped
<1>6. ASSUME NEW k \in 1 .. Len(stack') PROVE FrameFresh(D, k)'
  <2>1. CASE k = Len(stack) + 1
    <3>1. stack'[k] = Frame(t)
      BY Zenon, <1>1, <2>1
    <3>2. stack'[k].t = t /\ ~stack'[k].err /\ ~stack'[k].need /\ stack'[k].i = 1
      BY <3>1 DEF Frame
    <3>3. SeenBy(stack[k])' = {}
      BY SMTT(30), <3>2 DEF SeenBy
    <3> QED BY Zenon, <1>2, <1>5, <3>2, <3>3 DEF FrameFresh
  <2>2. CASE k \in 1 .. Len(stack)
    <3>1. stack'[k] = stack[k] /\ FrameFresh(D, k) /\ ~Working(k)
      BY Zenon, <1>1, <2>2 DEF DoneBy, Working
    <3>2. stack[k].t \in Target
      <4>1. stack \in Seq(Frames)
        BY Zenon DEF MakeInv, MakeTypeOK
      <4>2. stack[k] \in Frames
        BY <2>2, <4>1
      <4> QED BY Zenon, <4>2 DEF Frames
    <3>3. SeenBy(stack[k])' = SeenBy(stack[k])
      BY Zenon, <3>1 DEF SeenBy
    <3> QED BY Zenon, <1>2, <1>5, <3>1, <3>2, <3>3 DEF FrameFresh
  <2> QED BY SMTT(30), <1>1, <2>1, <2>2
<1>7. RunFresh(D)' /\ TornFresh'
  BY Zenon, <1>3 DEF RunFresh, TornFresh
<1>8. GoalsDone(D)'
  <2>1. UNCHANGED <<mk, exitstatus, status>> /\ GoalsDone(D)
    BY Zenon DEF DoneBy
  <2> QED BY Zenon, <2>1, GoalsEnter
<1>9. \A x \in D : Settled(x)' => Fresh(x)'
  BY Zenon, <1>2 DEF DoneBy
<1> QED BY Zenon, <1>3, <1>6, <1>7, <1>8, <1>9 DEF DoneBy

(* The calls from main() and from the loop of rebuild()                      *)
LEMMA CallFresh ==
  ASSUME MakeInv, NEW D, DoneBy(D), TornFresh, Goal \/ VisitDep
  PROVE  DoneBy(D)' /\ TornFresh'
<1>1. CASE Goal
  <2>1. stack = <<>> /\ goals # <<>> /\ status = "run"
    BY Zenon, <1>1 DEF Goal, MakeInv, Placed
  <2>2. Head(goals) \in Target
    BY SMTT(30), <2>1 DEF MakeInv, MakeTypeOK
  <2> QED BY Zenon, <1>1, <2>1, <2>2, EnterFresh DEF Goal, InRun, disk, history
<1>2. CASE VisitDep
  <2>1. stack # <<>> /\ status = "run"
    BY Zenon, <1>2 DEF VisitDep, InLoop, MakeInv, Placed, InRun
  <2>2. deps[Top.t][Top.i] \in Target
    BY SMTT(30), <1>2, <2>1, TopType DEF VisitDep, InLoop, MakeInv
  <2> QED BY Zenon, <1>2, <2>1, <2>2, EnterFresh DEF VisitDep, InLoop, InRun, running, disk, history
<1> QED BY Zenon, <1>1, <1>2

(* While a target is not done, none below it on the stack is the same target,    *)
(* once all it depends on is done                                            *)
LEMMA NotBelow ==
  ASSUME MakeInv, Stacked, NEW D \in Closed, stack # <<>>, SeqElems(deps[Top.t]) \subseteq D,
         Top.t \notin D, NEW k \in 1 .. Len(stack) - 1
  PROVE  stack[k].t # Top.t
<1>1. SUFFICES ASSUME stack[k].t = Top.t PROVE FALSE
  BY Zenon 
<1>2. Len(stack) \in Nat \ {0} /\ stack \in Seq(Frames)
  BY Zenon, TopType DEF MakeInv, MakeTypeOK
<1>3. k \in 1 .. Len(stack) /\ k + 1 \in 1 .. Len(stack) /\ Len(stack) \in k + 1 .. Len(stack)
  BY SMTT(30), <1>2
<1>4. stack[k] \in Frames
  BY SMTT(30), <1>2, <1>3
<1>5. /\ stack[k].i \in Nat \ {0} /\ deps[stack[k].t] \in Seq(Target)
      /\ stack[k].i <= Len(deps[stack[k].t])
      /\ stack[k + 1].t = deps[stack[k].t][stack[k].i]
  BY Zenon, <1>4 DEF MakeInv, MakeTypeOK, Frames, Chain
<1>6. stack[k + 1].t \in D
  BY SMTT(30), <1>1, <1>5 DEF SeqElems
<1>7. stack[Len(stack)].t \in D
  BY Zenon, <1>3, <1>6 DEF Stacked
<1> QED BY Zenon, <1>7 DEF Top

(* The caller's activation when a call returns: E are the targets done then    *)
LEMMA CallerFresh ==
  ASSUME MakeInv, NEW D, DoneBy(D), status = "run", stack # <<>>,
         NEW r, NEW built \in BOOLEAN, Return(r, built), UNCHANGED <<mk, file>>,
         NEW E, D \subseteq E, r = 0 => Top.t \in E,
         \A k \in 1 .. Len(stack) - 1 : stack[k].t \in E => stack[k].t \in D,
         Settled(Top.t) /\ Top.t \in D => ~built,
         Settled(Top.t) /\ ~built => stamp[Top.t] = file[Top.t],
         NEW k \in 1 .. Len(stack')
  PROVE  FrameFresh(E, k)'
<1>1. /\ Len(stack) \in Nat \ {0} /\ Len(stack') = Len(stack) - 1
      /\ \A j \in 1 .. Len(stack) - 2 : stack'[j] = stack[j]
      /\ Len(stack) > 1 =>
           /\ stack[Len(stack) - 1] \in Frames
           /\ stack'[Len(stack) - 1] =
                Returned(stack[Len(stack) - 1], Top.t, r, built)
  BY Zenon, ReturnStack DEF MakeInv
<1>2. UNCHANGED <<deps, stamp>> /\ pc' \notin InRun
  BY Zenon DEF Return, InRun
<1>3. \A x : Settled(x)' <=> Settled(x)
  BY Zenon, <1>2, StillSettled
<1>4. k \in 1 .. Len(stack) /\ k \in 1 .. Len(stack) - 1 /\ k # Len(stack)
  BY SMTT(30), <1>1
<1>5. FrameFresh(D, k) /\ ~Working(k)
  BY Zenon, <1>4 DEF DoneBy, Working
<1>6. CASE k # Len(stack) - 1
  <2>1. stack'[k] = stack[k]
    BY SMTT(30), <1>1, <1>4, <1>6
  <2>2. SeenBy(stack[k])' = SeenBy(stack[k])
    BY Zenon, <1>2, <2>1 DEF SeenBy
  <2> QED BY Zenon, <1>2, <1>3, <1>4, <1>5, <2>1, <2>2 DEF FrameFresh
<1>7. CASE k = Len(stack) - 1
  <2> DEFINE f == stack[k]
  <2>1. f \in Frames /\ stack'[k] = Returned(f, Top.t, r, built)
    BY SMTT(30), <1>1, <1>4, <1>7
  <2>2. /\ f.i <= Len(deps[f.t]) /\ Top.t = deps[f.t][f.i]
        /\ f.t \in Target /\ f.i \in Nat \ {0} /\ deps[f.t] \in Seq(Target)
    <3>1. f.i <= Len(deps[f.t]) /\ stack[k + 1].t = deps[f.t][f.i]
      BY Zenon, <1>4 DEF MakeInv, Chain
    <3>2. k + 1 = Len(stack)
      BY SMTT(30), <1>1, <1>7
    <3>3. f.t \in Target /\ f.i \in Nat \ {0}
      BY Zenon, <2>1 DEF Frames
    <3> QED BY Zenon, <3>1, <3>2, <3>3 DEF MakeInv, MakeTypeOK, Top
  <2>3. Top.t \in SeqElems(deps[f.t]) /\ deps[f.t] # <<>>
    BY SMTT(30), <2>2 DEF SeqElems
  <2> HIDE DEF f
  <2>4. /\ stack'[k].t = f.t /\ stack'[k].i = f.i + 1
        /\ stack'[k].err = (f.err \/ r # 0)
        /\ stack'[k].need = (f.need \/ (r = 0 /\ (built \/ stamp[Top.t] > stamp[f.t])))
    BY SMTT(30), <2>1 DEF Returned
  <2>5. SeenBy(stack[k])' = SeenBy(f) \cup {Top.t}
    <3>1. 1 .. (f.i + 1) - 1 = (1 .. f.i - 1) \cup {f.i}
      BY SMTT(30), <2>2
    <3> QED BY Zenon, <1>2, <2>2, <2>4, <3>1 DEF SeenBy
  <2>6. ASSUME Settled(f.t)
        PROVE  /\ stamp'[f.t] = file'[f.t]
               /\ f.t \in E => ~stack'[k].need
               /\ ~stack'[k].err /\ ~stack'[k].need =>
                    \A d \in SeenBy(f) \cup {Top.t} : file[d] <= file[f.t]
    <3>1. Settled(Top.t) /\ Top.t \in Target
      BY Zenon, <2>2, <2>3, <2>6, SettledFacts DEF MakeInv
    <3>2. /\ stamp[f.t] = file[f.t]
          /\ f.t \in D => ~f.need
          /\ ~f.err /\ ~f.need => \A d \in SeenBy(f) : file[d] <= file[f.t]
      BY Zenon, <1>5, <2>6 DEF FrameFresh, f
    <3>3. file[Top.t] \in Int /\ file[f.t] \in Int
      BY Zenon, <2>2, <3>1 DEF MakeInv, MakeTypeOK
    <3>4. ASSUME f.t \in E PROVE ~stack'[k].need
      <4>1. f.t \in D /\ ~f.need
        BY Zenon, <1>4, <3>2, <3>4 DEF f
      <4>2. Top.t \in D /\ file[Top.t] <= file[f.t]
        BY Zenon, <2>3, <2>6, <4>1 DEF DoneBy, Closed, Fresh
      <4>3. ~built /\ stamp[Top.t] = file[Top.t]
        BY Zenon, <3>1, <4>2
      <4>4. ~(stamp[Top.t] > stamp[f.t])
        BY SMTT(30), <3>2, <3>3, <4>2, <4>3
      <4> QED BY Zenon, <2>4, <4>1, <4>3, <4>4
    <3>5. ASSUME ~stack'[k].err, ~stack'[k].need PROVE file[Top.t] <= file[f.t]
      <4>1. r = 0 /\ ~built /\ ~(stamp[Top.t] > stamp[f.t])
        BY Zenon, <2>4, <3>5
      <4>2. stamp[Top.t] = file[Top.t]
        BY Zenon, <3>1, <4>1
      <4> QED BY SMTT(30), <3>2, <3>3, <4>1, <4>2
    <3> QED BY Zenon, <1>2, <2>4, <3>2, <3>4, <3>5
  <2>7. /\ ~f.err => SeenBy(f) \subseteq D
    BY Zenon, <1>5 DEF FrameFresh, f
  <2> QED BY Zenon, <1>2, <1>3, <2>3, <2>4, <2>5, <2>6, <2>7 DEF FrameFresh
<1> QED BY Zenon, <1>6, <1>7

(* When the loop has ended without an error, all prerequisites are done        *)
LEMMA LoopSeen ==
  ASSUME MakeInv, NEW D, DoneBy(D), status = "run", stack # <<>>, ~Top.err,
         Top.i > Len(deps[Top.t])
  PROVE  SeqElems(deps[Top.t]) \subseteq D
<1>1. /\ Len(stack) \in 1 .. Len(stack) /\ Top.i \in Nat \ {0}
      /\ deps[Top.t] \in Seq(Target) /\ Len(deps[Top.t]) \in Nat
      /\ Top = stack[Len(stack)]
  BY Zenon, TopType DEF MakeInv, Top
<1>2. 1 .. Len(deps[Top.t]) \subseteq 1 .. Top.i - 1
  BY <1>1
<1>3. SeqElems(deps[Top.t]) \subseteq SeenBy(Top)
  BY <1>1, <1>2 DEF SeqElems, SeenBy
<1>4. FrameFresh(D, Len(stack))
  BY Zenon, <1>1 DEF DoneBy
<1> QED BY Zenon, <1>1, <1>3, <1>4 DEF FrameFresh

(* What rebuild() finds up to date is.  (A target that lists itself is done      *)
(* before it comes to that.)                                                 *)
LEMMA NotNeededFresh ==
  ASSUME MakeInv, NEW D, DoneBy(D), stack # <<>>, Settled(Top.t), ~Need(Top),
         stamp[Top.t] = file[Top.t], SeqElems(deps[Top.t]) \subseteq D,
         ~Top.need => \A d \in SeqElems(deps[Top.t]) : file[d] <= file[Top.t]
  PROVE  Fresh(Top.t)
<1> DEFINE t == Top.t
<1>1. t \in Target
  BY Zenon, TopType DEF MakeInv
<1>2. ~Top.need /\ file[t] # -1 /\ Newer(t) = None
  BY Zenon DEF Need
<1>3. \A d \in SeqElems(deps[t]) : file[d] <= file[t]
  BY Zenon, <1>2
<1>4. CASE depends(t, t)
  BY Zenon, <1>4 DEF depends, DoneBy
<1>5. CASE ~depends(t, t)
  <2>1. Usable(t, FALSE) = {}
    BY Zenon, <1>1, <1>2, <1>5, InferenceFinds DEF MakeInv, Newer
  <2>2. ASSUME NEW n \in Usable(t, TRUE)
        PROVE  file[mk.source[mk.suffixes[n]][t]] <= file[t]
    <3>1. ~(file[mk.source[mk.suffixes[n]][t]] > file[t])
      BY Zenon, <1>1, <2>1, InferenceFinds DEF MakeInv
    <3>2. mk.source[mk.suffixes[n]][t] \in Target
      BY Zenon, <1>1, SourceType DEF MakeInv
    <3>3. file[mk.source[mk.suffixes[n]][t]] \in Int /\ file[t] \in Int
      BY Zenon, <1>1, <3>2 DEF MakeInv, MakeTypeOK
    <3> QED BY SMTT(30), <3>1, <3>3
  <2> QED BY Zenon, <1>2, <1>3, <2>2 DEF Fresh
<1> QED BY Zenon, <1>4, <1>5

(* The goals that are left to do when rebuild() returns                       *)
LEMMA GoalsReturn ==
  ASSUME MakeInv, NEW D, GoalsDone(D), status = "run", stack # <<>>,
         NEW r, NEW built \in BOOLEAN, Return(r, built), UNCHANGED <<mk, status>>,
         NEW E, D \subseteq E, exitstatus' = 0 => exitstatus = 0 /\ Top.t \in E
  PROVE  GoalsDone(E)'
<1>1. SUFFICES ASSUME exitstatus' = 0 PROVE GoalsDone(E)'
  BY Zenon DEF GoalsDone
<1>2. exitstatus = 0 /\ Top.t \in E /\ goals' = goals
  BY Zenon, <1>1 DEF Return
<1>3. stack[1].t = Top.t \/ (stack' # <<>> /\ stack'[1].t = stack[1].t)
  <2>1. /\ Len(stack) \in Nat \ {0} /\ Len(stack') = Len(stack) - 1
        /\ \A j \in 1 .. Len(stack) - 2 : stack'[j] = stack[j]
        /\ Len(stack) > 1 =>
             /\ stack[Len(stack) - 1] \in Frames
             /\ stack'[Len(stack) - 1] =
                  Returned(stack[Len(stack) - 1], Top.t, r, built)
        /\ stack' \in Seq(Frames)
    BY Zenon, ReturnStack DEF MakeInv
  <2>2. CASE Len(stack) = 1
    BY Zenon, <2>2 DEF Top
  <2>3. CASE Len(stack) = 2
    <3>1. stack[1] \in Frames /\ stack'[1] = Returned(stack[1], Top.t, r, built) /\ Len(stack') = 1
      BY <2>1, <2>3
    <3>2. stack' # <<>>
      BY Zenon, <3>1, NotEmpty
    <3>3. Returned(stack[1], Top.t, r, built).t = stack[1].t
      BY Zenon, <3>1, ReturnedTarget
    <3> QED BY Zenon, <3>1, <3>2, <3>3
  <2>4. CASE Len(stack) > 2
    <3>1. stack'[1] = stack[1] /\ Len(stack') > 1
      BY <2>1, <2>4
    <3> QED BY <2>1, <3>1
  <2> QED BY <2>1, <2>2, <2>3, <2>4
<1>4. ASSUME NEW g \in SeqElems(mk.goals)
      PROVE  g \in SeqElems(goals) \cup E \/ (stack' # <<>> /\ stack'[1].t = g)
  <2>1. g \in SeqElems(goals) \cup D \/ stack[1].t = g
    BY Zenon, <1>2 DEF GoalsDone
  <2> QED BY Zenon, <1>2, <1>3, <2>1
<1> QED BY Zenon, <1>2, <1>4 DEF GoalsDone

(* A return of rebuild(): with 0 its target is done                          *)
LEMMA ReturnFresh ==
  ASSUME MakeInv, Stacked, NEW D, DoneBy(D), status = "run", stack # <<>>, pc # "parse",
         NEW r, NEW built \in BOOLEAN, Return(r, built),
         UNCHANGED <<mk, file, torn, status>>,
         made' = made \/ (r = 0 /\ made' = made \cup {Top.t}),
         r = 0 => /\ SeqElems(deps[Top.t]) \subseteq D
                  /\ Settled(Top.t) => Fresh(Top.t),
         Settled(Top.t) /\ Top.t \in D => ~built,
         Settled(Top.t) /\ ~built => stamp[Top.t] = file[Top.t],
         exitstatus' = 0 => exitstatus = 0 /\ r = 0 /\ torn = {}
  PROVE  TornFresh' /\ \E E \in SUBSET Target : DoneBy(E)'
<1>1. UNCHANGED <<deps, stamp, goals>> /\ pc' \in {"main", "rebuild"}
  BY Zenon DEF Return
<1>2. pc' \notin InRun \cup {"parse"} /\ Closed' = Closed
  BY Zenon, <1>1 DEF InRun, Closed
<1>3. \A x : /\ Settled(x)' <=> Settled(x)
             /\ Fresh(x)' <=> Fresh(x)
  BY Zenon, <1>1, StillSettled
<1>4. Top.t \in Target /\ D \in Closed /\ D \subseteq Target
  BY Zenon, TopType DEF MakeInv, DoneBy, Closed
<1>0. PICK E \in SUBSET Target : E = D \cup IF r = 0 THEN {Top.t} ELSE {}
  BY Zenon, <1>4
<1>5. E \in Closed
  BY Zenon, <1>0, <1>4 DEF Closed
<1>6. \A x \in E : Settled(x)' => Fresh(x)'
  BY Zenon, <1>0, <1>3 DEF DoneBy
<1>7. \A k \in 1 .. Len(stack) - 1 : stack[k].t \in E => stack[k].t \in D
  BY Zenon, <1>0, <1>4, NotBelow
<1>8. D \subseteq E /\ (r = 0 => Top.t \in E)
  BY Zenon, <1>0
<1>9. made' \subseteq E
  BY Zenon, <1>0 DEF DoneBy
<1>10. ASSUME NEW k \in 1 .. Len(stack') PROVE FrameFresh(E, k)'
  <2>1. UNCHANGED <<mk, file>>
    BY Zenon
  <2> QED BY Zenon, <1>7, <1>8, <2>1, CallerFresh
<1>11. TornFresh' /\ RunFresh(E)'
  BY Zenon, <1>2 DEF TornFresh, RunFresh
<1>12. GoalsDone(E)'
  <2>1. UNCHANGED <<mk, status>> /\ GoalsDone(D)
    BY Zenon DEF DoneBy
  <2> QED BY Zenon, <1>8, <2>1, GoalsReturn
<1>13. DoneBy(E)'
  BY Zenon, <1>2, <1>5, <1>6, <1>9, <1>10, <1>11, <1>12 DEF DoneBy
<1> QED BY Zenon, <1>5, <1>11, <1>13

(* rebuild() when there is nothing to run, and after run()                   *)
LEMMA RebuildFresh ==
  ASSUME MakeInv, Stacked, Clean, NEW D, DoneBy(D), TornFresh,
         \/ NotRemade \/ NotNeeded \/ NoRule \/ Succeeded \/ Failed
  PROVE  TornFresh' /\ \E E \in SUBSET Target : DoneBy(E)'
<1>1. stack # <<>> /\ pc # "parse" /\ status = "run" /\ pc # "over"
  BY Zenon DEF NotRemade, NotNeeded, NoRule, Succeeded, Failed, Updating, AfterLoop,
         MakeInv, MakeTypeOK, Placed, InRun
<1>2. UNCHANGED <<mk, file, torn>>
  BY Zenon DEF NotRemade, NotNeeded, NoRule, Succeeded, Failed, disk
<1>3. D \in SUBSET Target
  BY Zenon DEF DoneBy, Closed
<1>4. CASE exit(1) /\ UNCHANGED <<walk, made>>
  <2>1. pc' \notin InRun \cup {"parse"} /\ exitstatus' = 1 /\ status' = "exit"
        /\ UNCHANGED <<deps, goals, stack, stamp, made>>
    BY Zenon, <1>4 DEF exit, InRun, walk
  <2>2. \A x : /\ Settled(x)' <=> Settled(x)
               /\ Fresh(x)' <=> Fresh(x)
    BY Zenon, <1>2, <2>1, StillSettled
  <2>3. Closed' = Closed
    BY Zenon, <2>1 DEF Closed
  <2>4. DoneBy(D)'
    BY SMTT(30), <2>1, <2>2, <2>3 DEF DoneBy, RunFresh, GoalsDone
  <2> QED BY SMTT(30), <1>3, <2>1, <2>4 DEF TornFresh
<1>5. CASE NotRemade
  <2>1. AfterLoop /\ Top.err /\ Return(1, FALSE) /\ UNCHANGED <<made, status, exitstatus>>
    BY Zenon, <1>5 DEF NotRemade
  <2>2. exitstatus = 1
    <3>1. Len(stack) \in 1 .. Len(stack) /\ stack[Len(stack)].err
      BY Zenon, <1>1, <2>1, TopType DEF MakeInv, Top
    <3> QED BY Zenon, <3>1 DEF MakeInv, ErrTold
  <2>3. Settled(Top.t) => stamp[Top.t] = file[Top.t]
    BY Zenon, <2>1, AfterLoopKnows
  <2>4. 1 # 0 /\ exitstatus' # 0
    BY SMTT(30), <2>1, <2>2
  <2> QED BY Zenon, <1>1, <1>2, <2>1, <2>3, <2>4, ReturnFresh
<1>6. ASSUME AfterLoop, ~Top.err
      PROVE  /\ SeqElems(deps[Top.t]) \subseteq D
             /\ exitstatus = 0 => torn = {}
  BY Zenon, <1>6, AfterLoopKnows DEF TornFresh, AfterLoop, InRun
<1>7. CASE NotNeeded
  <2>1. AfterLoop /\ ~Top.err /\ ~Need(Top) /\ Return(0, FALSE)
        /\ UNCHANGED <<made, status, exitstatus>>
    BY Zenon, <1>7 DEF NotNeeded
  <2>2. /\ Top.t \in Target
        /\ Settled(Top.t) => /\ stamp[Top.t] = file[Top.t]
                             /\ ~Top.need =>
                                  \A d \in SeqElems(deps[Top.t]) : file[d] <= file[Top.t]
    BY Zenon, <2>1, AfterLoopKnows
  <2>3. ASSUME Settled(Top.t) PROVE Fresh(Top.t)
    BY Zenon, <1>1, <1>6, <2>1, <2>2, <2>3, NotNeededFresh
  <2> QED BY Zenon, <1>1, <1>2, <1>6, <2>1, <2>2, <2>3, ReturnFresh
<1>8. CASE NoRule
  <2>1. AfterLoop /\ ~Top.err /\ Need(Top) /\ RuleFor(Top.t) = None /\ UNCHANGED made
    BY Zenon, <1>8 DEF NoRule, Updating
  <2>2. ~Settled(Top.t)
    <3>1. Ruled(Top.t) => RuleFor(Top.t) # None
      <4>1. Top.t \in Target
        BY Zenon, <2>1, AfterLoopKnows
      <4> QED BY Zenon, <4>1, MakeAssumption DEF RuleFor, Ruled
    <3> QED BY Zenon, <2>1, <3>1, SettledNeeds
  <2>3. CASE Return(0, TRUE) /\ UNCHANGED <<exitstatus, status>>
    BY Zenon, <1>1, <1>2, <1>6, <2>1, <2>2, <2>3, ReturnFresh
  <2> QED BY Zenon, <1>4, <1>8, <2>1, <2>3 DEF NoRule
<1>9. CASE Succeeded \/ (Failed /\ Flag("k"))
  <2>1. pc = "ret" /\ pc \in InRun /\ RunFresh(D) /\ UNCHANGED status
        /\ (Return(ret, TRUE) \/ (Return(0, TRUE) /\ ret = 0))
    BY Zenon, <1>9 DEF Succeeded, Failed, InRun, DoneBy
  <2>2. Settled(Top.t) => Top.t \notin D
    BY Zenon, <2>1 DEF RunFresh
  <2>3. ~Top.err /\ Top.i > Len(deps[Top.t])
    BY Zenon, <2>1 DEF MakeInv, Placed
  <2>4. SeqElems(deps[Top.t]) \subseteq D
    BY Zenon, <1>1, <2>3, LoopSeen
  <2>5. CASE Succeeded
    <3>1. Return(0, TRUE) /\ ret = 0 /\ exitstatus' = exitstatus
          /\ (made' = made \/ made' = made \cup {Top.t})
      BY Zenon, <2>5 DEF Succeeded
    <3>2. Ended
      BY Zenon, <2>1, <3>1 DEF Ended
    <3>3. Settled(Top.t) => Fresh(Top.t)
      BY Zenon, <2>1, <3>2 DEF RunFresh
    <3>4. exitstatus = 0 => torn = {}
      BY Zenon, <2>1, <3>2 DEF TornFresh
    <3> QED BY Zenon, <1>1, <1>2, <2>1, <2>2, <2>4, <3>1, <3>3, <3>4, ReturnFresh
  <2>6. CASE Failed /\ Flag("k")
    <3>1. Return(ret, TRUE) /\ ret # 0 /\ exitstatus' = 1 /\ made' = made
      BY Zenon, <2>6 DEF Failed
    <3>2. exitstatus' # 0
      BY <3>1
    <3> QED BY Zenon, <1>1, <1>2, <2>1, <2>2, <3>1, <3>2, ReturnFresh
  <2> QED BY Zenon, <1>9, <2>5, <2>6
<1>10. CASE Failed /\ ~Flag("k")
  BY Zenon, <1>4, <1>10 DEF Failed
<1> QED BY Zenon, <1>5, <1>7, <1>8, <1>9, <1>10

(* A write of one target, neither in nor below one that is done, leaves what is  *)
(* done as it was                                                            *)
LEMMA WriteKeepsDone ==
  ASSUME MakeInv, LeafSources(mk), NEW D, DoneBy(D), UNCHANGED <<mk, deps>>,
         NEW z \in Target, HasActions(z) \/ Usable(z, TRUE) # {},
         Settled(z) => z \notin D,
         \A x \in Target : x # z => file'[x] = file[x]
  PROVE  \A x \in D : Settled(x) => x # z /\ file'[x] = file[x] /\ Fresh(x)'
<1> SUFFICES ASSUME NEW x \in D, Settled(x)
             PROVE  x # z /\ file'[x] = file[x] /\ Fresh(x)'
  BY Zenon
<1>1. D \in Closed /\ x \in Target /\ Fresh(x) /\ x # z
  BY Zenon DEF DoneBy, Closed
<1>2. \A d \in SeqElems(deps[x]) : d \in Target /\ d # z
  <2>1. \A d \in SeqElems(deps[x]) : d \in Target /\ Settled(d) /\ d \in D
    BY Zenon, <1>1, SettledFacts DEF MakeInv, Closed
  <2> QED BY Zenon, <2>1
<1>3. /\ Usable(x, TRUE)' = Usable(x, TRUE)
      /\ \A n \in Usable(x, TRUE) :
           /\ mk.source[mk.suffixes[n]][x] \in Target
           /\ mk.source[mk.suffixes[n]][x] # z
  BY Zenon, <1>1, WriteKeepsSettled DEF MakeInv
<1>4. file'[x] = file[x] /\ (\A d \in SeqElems(deps[x]) : file'[d] = file[d])
  BY Zenon, <1>1, <1>2
<1>5. \A n \in Usable(x, TRUE) : file'[mk.source[mk.suffixes[n]][x]] = file[mk.source[mk.suffixes[n]][x]]
  BY Zenon, <1>3
<1> QED BY Zenon, <1>1, <1>3, <1>4, <1>5 DEF Fresh

(* Nor does it change what the activations know                              *)
LEMMA WriteKeepsFrames ==
  ASSUME MakeInv, Stacked, LeafSources(mk), NEW D, DoneBy(D), UNCHANGED <<mk, deps, stack, stamp, pc>>,
         pc \in InRun, status = "run",
         HasActions(Top.t) \/ Usable(Top.t, TRUE) # {},
         Settled(Top.t) => Top.t \notin D,
         \A x \in Target : x # Top.t => file'[x] = file[x],
         NEW k \in 1 .. Len(stack)
  PROVE  FrameFresh(D, k)'
<1>1. stack # <<>> /\ ~Top.err /\ Top.i > Len(deps[Top.t])
  BY Zenon DEF MakeInv, Placed
<1>2. Top.t \in Target /\ Len(stack) \in Nat \ {0} /\ D \in Closed
  BY Zenon, <1>1, TopType DEF MakeInv, DoneBy
<1>3. SeqElems(deps[Top.t]) \subseteq D
  BY Zenon, <1>1, LoopSeen
<1>4. \A t \in Target : Settled(t)' <=> Settled(t)
  BY Zenon, <1>2, WriteKeepsSettled DEF MakeInv
<1>5. \A x \in D : Settled(x) => x # Top.t /\ file'[x] = file[x]
  BY ZenonT(30), <1>2, WriteKeepsDone
<1>6. FrameFresh(D, k) /\ SeenBy(stack[k])' = SeenBy(stack[k]) /\ (Working(k)' <=> Working(k))
  BY Zenon DEF DoneBy, SeenBy, Working
<1>7. stack[k].t \in Target /\ stack[k].i \in Nat \ {0}
  <2>1. stack \in Seq(Frames)
    BY Zenon DEF MakeInv, MakeTypeOK
  <2>2. stack[k] \in Frames
    BY SMTT(30), <2>1
  <2> QED BY Zenon, <2>2 DEF Frames
<1>8. CASE k = Len(stack)
  BY Zenon, <1>6, <1>8 DEF FrameFresh, Working
<1>9. CASE k # Len(stack)
  <2> DEFINE f == stack[k]
  <2>1. k \in 1 .. Len(stack) - 1 /\ ~Working(k)
    BY SMTT(30), <1>2, <1>9 DEF Working
  <2>2. f.t = Top.t => Top.t \in D
    BY Zenon, <1>1, <1>2, <1>3, <2>1, NotBelow
  <2>3. SeenBy(f) \subseteq SeqElems(deps[f.t])
    <3>1. f.i <= Len(deps[f.t]) /\ deps[f.t] \in Seq(Target)
      BY Zenon, <1>7, <2>1 DEF MakeInv, Chain, MakeTypeOK
    <3> QED BY SMTT(30), <1>7, <3>1 DEF SeenBy, SeqElems
  <2>4. ASSUME Settled(f.t)
        PROVE  /\ file'[f.t] = file[f.t]
               /\ ~f.err => \A d \in SeenBy(f) : file'[d] = file[d]
    <3>1. f.t # Top.t
      BY Zenon, <2>2, <2>4
    <3>2. \A d \in SeenBy(f) : Settled(d)
      BY Zenon, <1>7, <2>3, <2>4, SettledFacts DEF MakeInv
    <3>3. ~f.err => SeenBy(f) \subseteq D
      BY Zenon, <1>6 DEF FrameFresh
    <3> QED BY Zenon, <1>5, <1>7, <3>1, <3>2, <3>3
  <2>5. Settled(f.t)' <=> Settled(f.t)
    BY Zenon, <1>4, <1>7
  <2> QED BY Zenon, <1>6, <2>1, <2>4, <2>5 DEF FrameFresh
<1> QED BY Zenon, <1>8, <1>9

(* A recipe writes the target at hand, or none                               *)
LEMMA ChildTarget ==
  ASSUME MakeInv, PlainWalk, Met \subseteq Plain, Default \notin Met, Clean,
         NEW D, DoneBy(D), child.st = "run"
  PROVE  /\ child \in Children /\ pc \in {"forked", "wait"} /\ pc \in InRun
         /\ stack # <<>> /\ Top.t \in Target /\ Top.t # Default /\ status = "run"
         /\ \/ /\ child.target = Top.t /\ rule # Default
               /\ HasActions(Top.t) \/ Usable(Top.t, TRUE) # {}
            \/ child.target = Default /\ rule = Default /\ ~Settled(Top.t)
<1>1. child # NoChild /\ child \in Children
  BY SMTT(30) DEF MakeInv, MakeTypeOK, NoChild
<1>2. pc \in {"forked", "wait"} /\ child.target = bind[rule]
  BY Zenon, <1>1 DEF Clean, Waited
<1>3. pc \in InRun /\ pc # "over"
  BY Zenon, <1>2 DEF InRun
<1>4. stack # <<>> /\ status = "run" /\ Serves
  BY Zenon, <1>3 DEF MakeInv, Placed, DoneBy, RunFresh
<1>5. Top.t \in Target /\ Top.t \in Met
  BY Zenon, <1>4, TopType DEF MakeInv, PlainWalk, Top
<1>6. mk.suffixes \in Seq(Target \ {Default})
  BY Zenon, MakefileType DEF MakeInv, MakeTypeOK
<1>7. Default \in Plain /\ Default \notin SeqElems(mk.suffixes)
  BY <1>6, MakeAssumption DEF Plain, SeqElems
<1>8. bind[Default] = Default /\ bind[Top.t] = Top.t
  BY Zenon, <1>5, <1>7 DEF PlainWalk
<1> QED BY Zenon, <1>1, <1>2, <1>3, <1>4, <1>5, <1>7, <1>8 DEF Serves

(* The end of a line                                                         *)
LEMMA ChildFresh ==
  ASSUME MakeInv, Stacked, PlainWalk, Met \subseteq Plain, Default \notin Met, LeafSources(mk), Clean,
         NEW D, DoneBy(D), TornFresh, clock \in Nat, \A x \in Target : file[x] <= clock,
         ChildEnd
  PROVE  DoneBy(D)' /\ TornFresh'
<1>1. PICK ok \in BOOLEAN, wrote \in BOOLEAN, c \in Now :
        /\ child' = [child EXCEPT !.st = "exited", !.code = IF ok THEN 0 ELSE 1]
        /\ LET t == child.target
               whole == ok /\ child.last
               writes == t \notin mk.phony \cup {Default} /\ (whole \/ wrote)
           IN /\ file' = IF writes THEN [file EXCEPT ![t] = c] ELSE file
              /\ torn' = IF ~writes THEN torn
                         ELSE IF whole THEN torn \ {t} ELSE torn \cup {t}
  BY Zenon DEF ChildEnd
<1>2. /\ child.st = "run"
      /\ UNCHANGED <<mk, deps, goals, stack, stamp, pc, rule, line, ret, bind, exitstatus,
                     status, made>>
  BY Zenon DEF ChildEnd, walk, running, history
<1>3. /\ child \in Children /\ pc \in {"forked", "wait"} /\ pc \in InRun
      /\ stack # <<>> /\ Top.t \in Target /\ Top.t # Default /\ status = "run"
      /\ \/ /\ child.target = Top.t /\ rule # Default
            /\ HasActions(Top.t) \/ Usable(Top.t, TRUE) # {}
         \/ child.target = Default /\ rule = Default /\ ~Settled(Top.t)
  BY Zenon, <1>2, ChildTarget
<1>4. /\ Top' = Top /\ Closed' = Closed
      /\ Ended' => ok /\ child.last
      /\ Settled(Top.t) => Top.t \notin D
  <2>1. child'.last = child.last /\ (child'.code = 0 => ok)
    BY SMTT(30), <1>1, <1>3 DEF Children
  <2> QED BY Zenon, <1>2, <1>3, <2>1 DEF Top, Closed, Ended, DoneBy, RunFresh
<1>5. GoalsDone(D)'
  BY Zenon, <1>2 DEF DoneBy, GoalsDone
<1>6. CASE child.target = Default /\ rule = Default /\ ~Settled(Top.t)
  <2>1. UNCHANGED <<file, torn>>
    BY Zenon, <1>1, <1>6
  <2>2. \A t : /\ Usable(t, TRUE)' = Usable(t, TRUE)
               /\ Settled(t)' <=> Settled(t)
               /\ Fresh(t)' <=> Fresh(t)
    BY Zenon, <1>2, <2>1, StillSettled
  <2>3. RunFresh(D)'
    BY Zenon, <1>2, <1>4, <1>6, <2>2 DEF RunFresh, Serves
  <2>4. TornFresh'
    BY Zenon, <1>2, <1>4, <1>6, <2>1 DEF TornFresh
  <2>5. \A k \in 1 .. Len(stack') : FrameFresh(D, k)'
    BY Zenon, <1>2, <1>3, <2>1, FrameStays DEF DoneBy
  <2>6. \A x \in D : Settled(x)' => Fresh(x)'
    BY Zenon, <2>2 DEF DoneBy
  <2> QED BY Zenon, <1>2, <1>4, <1>5, <2>3, <2>4, <2>5, <2>6 DEF DoneBy
<1>7. CASE /\ child.target = Top.t /\ rule # Default
           /\ HasActions(Top.t) \/ Usable(Top.t, TRUE) # {}
  <2>1. file \in [Target -> Int]
    BY Zenon DEF MakeInv, MakeTypeOK
  <2>2. \A x \in Target : x # Top.t => file'[x] = file[x]
    BY Zenon, <1>1, <1>7, <2>1
  <2>3. \A t \in Target :
           /\ Usable(t, TRUE)' = Usable(t, TRUE)
           /\ \A n \in Usable(t, TRUE) :
                /\ mk.source[mk.suffixes[n]][t] \in Target
                /\ mk.source[mk.suffixes[n]][t] # Top.t
           /\ Settled(t)' <=> Settled(t)
    BY Zenon, <1>2, <1>3, <1>7, <2>2, WriteKeepsSettled DEF MakeInv
  <2>4. \A k \in 1 .. Len(stack') : FrameFresh(D, k)'
    BY Zenon, <1>2, <1>3, <1>4, <1>7, <2>2, WriteKeepsFrames
  <2>5. D \subseteq Target
    BY Zenon DEF DoneBy, Closed
  <2>6. \A x \in D : Settled(x)' => Fresh(x)'
    <3>1. UNCHANGED <<mk, deps>>
      BY Zenon, <1>2
    <3>2. \A x \in D : Settled(x) => Fresh(x)'
      BY Zenon, <1>3, <1>4, <1>7, <2>2, <3>1, WriteKeepsDone
    <3> QED BY Zenon, <2>3, <2>5, <3>2
  <2>7. ASSUME Settled(Top.t), ok, child.last PROVE Fresh(Top.t)'
    <3>1. Top.t \notin mk.phony \cup {Default}
      BY Zenon, <1>3, <2>7, SettledFacts DEF MakeInv
    <3>2. file'[Top.t] = c
      BY Zenon, <1>1, <1>3, <1>7, <2>1, <2>7, <3>1
    <3>3. c \in Nat /\ clock <= c
      BY SMTT(30) DEF Now
    <3>4. \A x \in Target : file'[x] <= c
      BY SMTT(30), <2>1, <2>2, <3>2, <3>3
    <3>5. \A d \in SeqElems(deps[Top.t]) : d \in Target
      BY Zenon, <1>3, <2>7, SettledFacts DEF MakeInv
    <3>6. c # -1
      BY SMTT(30), <3>3
    <3> QED BY Zenon, <1>2, <1>3, <1>4, <2>3, <3>2, <3>4, <3>5, <3>6 DEF Fresh
  <2>8. RunFresh(D)'
    <3>1. Serves'
      BY Zenon, <1>2, <1>3, <1>4, <2>3 DEF Serves, HasActions, DoneBy, RunFresh
    <3> QED BY Zenon, <1>3, <1>4, <2>3, <2>7, <3>1 DEF RunFresh
  <2>9. TornFresh'
    <3>1. SUFFICES ASSUME exitstatus = 0 PROVE TornFresh'
      BY Zenon, <1>2 DEF TornFresh
    <3>2. torn \subseteq {Top.t} /\ torn \cap mk.phony = {}
      BY Zenon, <3>1 DEF TornFresh, Clean, OneTorn
    <3>3. torn' \subseteq {Top.t} /\ (ok /\ child.last => torn' = {})
      BY Zenon, <1>1, <1>3, <1>7, <3>2
    <3> QED BY Zenon, <1>2, <1>3, <1>4, <1>7, <3>3 DEF TornFresh
  <2> QED BY Zenon, <1>2, <1>4, <1>5, <2>4, <2>6, <2>8, <2>9 DEF DoneBy
<1> QED BY Zenon, <1>3, <1>6, <1>7

(* Reading the makefile, and the end of main()                               *)
LEMMA MainFresh ==
  ASSUME MakeInv, NEW D, DoneBy(D), TornFresh, AddDep \/ Parsed \/ AllDone
  PROVE  DoneBy(D)' /\ TornFresh'
<1>1. /\ UNCHANGED <<mk, goals, stack, file, torn, made, exitstatus>>
      /\ stack = <<>> /\ pc \notin InRun /\ pc' \notin InRun
      /\ status' = status \/ (AllDone /\ status' = "exit")
  BY Zenon DEF AddDep, Parsed, AllDone, exit, walk, running, disk, history, MakeInv, Placed, InRun
<1>2. CASE AddDep
  <2>1. D = {} /\ pc = "parse" /\ pc' = "parse" /\ D \in Closed' /\ status' = status
    BY Zenon, <1>2 DEF AddDep, DoneBy, running, Closed
  <2> QED BY SMTT(30), <1>1, <2>1 DEF DoneBy, RunFresh, GoalsDone, TornFresh
<1>3. CASE Parsed \/ AllDone
  <2>1. deps' = deps /\ pc' # "parse" /\ pc \in {"parse", "main"}
    BY Zenon, <1>3 DEF Parsed, AllDone, exit, walk
  <2>2. \A t : /\ Settled(t)' <=> Settled(t)
               /\ Fresh(t)' <=> Fresh(t)
    BY Zenon, <1>1, <2>1, StillSettled
  <2>3. Closed' = Closed /\ (AllDone => goals = <<>>)
    BY Zenon, <2>1 DEF Closed, AllDone
  <2>4. GoalsDone(D)'
    BY Zenon, <1>1, <2>3 DEF DoneBy, GoalsDone
  <2>5. D \in Closed' /\ made' \subseteq D /\ (\A x \in D : Settled(x)' => Fresh(x)')
    BY Zenon, <1>1, <2>2, <2>3 DEF DoneBy
  <2>6. RunFresh(D)' /\ TornFresh'
    BY Zenon, <1>1 DEF RunFresh, TornFresh
  <2> QED BY SMTT(30), <1>1, <2>1, <2>4, <2>5, <2>6 DEF DoneBy
<1> QED BY Zenon, <1>2, <1>3

(* A signal that finds no status to lose                                     *)
LEMMA SignalFresh ==
  ASSUME MakeInv, NEW D, DoneBy(D), TornFresh,
         UNCHANGED <<mk, deps, goals, stack, stamp, file, torn, made, pc, rule, line, ret,
                     bind, child, exitstatus, status>>
  PROVE  DoneBy(D)' /\ TornFresh'
<1>1. \A t : /\ Usable(t, TRUE)' = Usable(t, TRUE)
             /\ Settled(t)' <=> Settled(t)
             /\ Fresh(t)' <=> Fresh(t)
  BY Zenon, StillSettled
<1>2. Top' = Top /\ Closed' = Closed /\ Ended' = Ended
  BY Zenon DEF Top, Closed, Ended
<1>3. Serves' = Serves
  BY Zenon, <1>1, <1>2 DEF Serves, HasActions
<1>4. RunFresh(D)' /\ GoalsDone(D)' /\ TornFresh'
  BY Zenon, <1>1, <1>2, <1>3 DEF DoneBy, RunFresh, GoalsDone, TornFresh
<1>5. status' = "run" => \A k \in 1 .. Len(stack') : FrameFresh(D, k)'
  BY Zenon, FrameStays DEF DoneBy
<1>6. \A x \in D : Settled(x)' => Fresh(x)'
  BY Zenon, <1>1 DEF DoneBy
<1> QED BY Zenon, <1>2, <1>4, <1>5, <1>6 DEF DoneBy

(* No file is newer than the clock                                           *)
LEMMA ClockStep ==
  ASSUME MakeInv, MakeInv', clock \in Nat, \A x \in Target : file[x] <= clock,
         [Next]_makeVars
  PROVE  clock' \in Nat /\ \A x \in Target : file'[x] <= clock'
<1>1. file \in [Target -> Int] /\ file' \in [Target -> Int]
  BY Zenon DEF MakeInv, MakeTypeOK
<1>2. ASSUME NEW c \in Now, clock' = c, NEW S, 
             \A x \in Target : file'[x] = IF x \in S THEN c ELSE file[x]
      PROVE  clock' \in Nat /\ \A x \in Target : file'[x] <= clock'
  <2>1. c \in Nat /\ clock <= c
    BY DEF Now
  <2>2. ASSUME NEW x \in Target PROVE file'[x] <= c
    BY <1>1, <1>2, <2>1
  <2> QED BY Zenon, <1>2, <2>1, <2>2
<1>3. ASSUME UNCHANGED clock, \A x \in Target : file'[x] \in {file[x], -1}
      PROVE  clock' \in Nat /\ \A x \in Target : file'[x] <= clock'
  BY <1>1, <1>3
<1>4. CASE UNCHANGED <<file, clock>>
  BY Zenon, <1>4
<1>5. CASE TouchDeps
  <2>1. PICK n \in 0 .. Len(Touched(rule)), c \in Now :
          /\ file' = [t \in Target |-> IF t \in {Touched(rule)[k] : k \in 1 .. n} THEN c ELSE file[t]]
          /\ clock' = c
    BY <1>5, Zenon DEF TouchDeps
  <2> QED BY Zenon, <1>2, <2>1
<1>6. CASE RunDone
  <2>1. CASE Flag("t")
    <3>1. PICK ok \in BOOLEAN, c \in Now :
            /\ file' = IF ok THEN [file EXCEPT ![bind[rule]] = c] ELSE file
            /\ clock' = c
      BY Zenon, <1>6, <2>1 DEF RunDone
    <3>2. PICK S : S = IF ok THEN {bind[rule]} ELSE {}
      BY Zenon
    <3>3. \A x \in Target : file'[x] = IF x \in S THEN c ELSE file[x]
      BY Zenon, <1>1, <3>1, <3>2
    <3> QED BY Zenon, <1>2, <3>1, <3>3
  <2> QED BY Zenon, <1>4, <1>6, <2>1 DEF RunDone
<1>7. CASE ChildEnd
  <2>1. PICK c \in Now : clock' = c /\ (file' = file \/ file' = [file EXCEPT ![child.target] = c])
    BY Zenon, <1>7 DEF ChildEnd
  <2>2. \A x \in Target :
          file'[x] = IF x \in (IF file' = file THEN {} ELSE {child.target}) THEN c ELSE file[x]
    BY Zenon, <1>1, <2>1
  <2> QED BY ZenonT(30), <1>2, <2>1, <2>2
<1>8. ASSUME NEW t, cleanup(t) PROVE clock' \in Nat /\ \A x \in Target : file'[x] <= clock'
  <2>1. UNCHANGED clock /\ (file' = file \/ file' = [file EXCEPT ![t] = -1])
    BY Zenon, <1>8 DEF cleanup
  <2>2. \A x \in Target : file'[x] \in {file[x], -1}
    BY Zenon, <1>1, <2>1
  <2> QED BY Zenon, <1>3, <2>1, <2>2
<1>9. CASE StopInLoop \/ StopInRun \/ StopAfterRun
  BY Zenon, <1>8, <1>9 DEF StopInLoop, StopInRun, StopAfterRun
<1>10. CASE \/ AddDep \/ Parsed \/ Goal \/ AllDone \/ VisitDep \/ NotRemade \/ NotNeeded
            \/ NoRule \/ StartRun \/ DryLine \/ RunLine \/ Succeeded \/ Failed
            \/ Block \/ Fork \/ NotForked \/ Wait \/ Reap \/ Deliver \/ Signal
            \/ UNCHANGED makeVars
  BY Zenon, <1>4, <1>10 DEF AddDep, Parsed, Goal, AllDone, VisitDep, NotRemade, NotNeeded, NoRule,
       StartRun, DryLine, RunLine, Succeeded, Failed, Block, Fork, NotForked, Wait, Reap,
       Deliver, Signal, launched, disk, makeVars
<1> QED BY Zenon, <1>5, <1>6, <1>7, <1>9, <1>10 DEF Next, Step

(* touchdeps() runs under -t alone, and a status that was lost leaves stop set   *)
LEMMA MarksStep ==
  ASSUME lost => stop, pc = "touchdeps" => Flag("t"), [Next]_makeVars
  PROVE  (lost => stop)' /\ (pc = "touchdeps" => Flag("t"))'
<1>2. UNCHANGED <<lost, stop>> \/ stop' = TRUE
  BY Zenon DEF Next, Step, AddDep, Parsed, Goal, AllDone, VisitDep, StopInLoop, NotRemade,
         NotNeeded, NoRule, StartRun, TouchDeps, StopInRun, DryLine, RunLine, RunDone,
         Succeeded, StopAfterRun, Failed, Block, Fork, NotForked, Wait, Reap, cleanup,
         Deliver, ChildEnd, Signal, launched, signalVars, history, makeVars
<1>3. pc' = "touchdeps" => Flag("t")
  <2>1. CASE AddDep \/ DryLine \/ ChildEnd \/ Deliver \/ UNCHANGED makeVars
    BY Zenon, <2>1 DEF AddDep, DryLine, ChildEnd, Deliver, running, makeVars
  <2>2. CASE \/ Parsed \/ AllDone \/ StopInLoop \/ StopInRun \/ StopAfterRun
             \/ TouchDeps \/ RunLine \/ RunDone \/ Block \/ Fork \/ Wait
    BY Zenon, <2>2 DEF Parsed, AllDone, StopInLoop, StopInRun, StopAfterRun, cleanup, exit, TouchDeps,
                RunLine, RunDone, Block, Fork, Wait
  <2>3. CASE Goal \/ VisitDep
    BY Zenon, <2>3 DEF Goal, VisitDep, InLoop, running
  <2>4. CASE NotRemade \/ NotNeeded \/ NoRule \/ Succeeded \/ Failed
    BY Zenon, <2>4 DEF NotRemade, NotNeeded, NoRule, Succeeded, Failed, Return, exit
  <2>5. CASE StartRun
    BY Zenon, <2>5 DEF StartRun
  <2>6. CASE NotForked \/ Reap \/ Signal
    BY Zenon, <2>6 DEF NotForked, Reap, Signal, Interrupted, LineReturns
  <2> QED BY Zenon, <2>1, <2>2, <2>3, <2>4, <2>5, <2>6 DEF Next, Step
<1> QED BY SMTT(30), <1>2, <1>3, MakefileSame DEF Flag

(* What make dies of it stays dead of, and nothing else unmakes what Live says   *)
LEMMA LiveBefore ==
  ASSUME MakeInv, [Next]_makeVars, Live'
  PROVE  Live /\ ~lost' /\ ~(StopInLoop \/ StopInRun \/ StopAfterRun)
<1>1. lost' = lost \/ lost'
  <2>1. CASE Step
    BY Zenon, <2>1 DEF Step, AddDep, Parsed, Goal, AllDone, VisitDep, StopInLoop, NotRemade,
                NotNeeded, NoRule, StartRun, TouchDeps, StopInRun, DryLine, RunLine, RunDone,
                Succeeded, StopAfterRun, Failed, Block, Fork, NotForked, Wait, Reap, cleanup,
                history
  <2>2. CASE Deliver \/ ChildEnd
    BY Zenon, <2>2 DEF Deliver, ChildEnd, history
  <2>3. CASE Signal
    BY Zenon, <2>3 DEF Signal, Interrupted
  <2>4. CASE UNCHANGED makeVars
    BY Zenon, <2>4 DEF makeVars, history
  <2> QED BY Zenon, <2>1, <2>2, <2>3, <2>4 DEF Next
<1>2. status' # "killed" /\ ~lost'
  BY Zenon DEF Live, Followed
<1>3. ~(StopInLoop \/ StopInRun \/ StopAfterRun)
  BY Zenon, <1>2 DEF StopInLoop, StopInRun, StopAfterRun, cleanup
<1>4. pc = "over" => status' = status
  BY Zenon DEF Next, Step, AddDep, Parsed, Goal, AllDone, VisitDep, InLoop, AfterLoop, Updating,
         StopInLoop, NotRemade,
         NotNeeded, NoRule, StartRun, TouchDeps, StopInRun, DryLine, RunLine, RunDone,
         Succeeded, StopAfterRun, Failed, Block, Fork, NotForked, Wait, Reap,
         Deliver, ChildEnd, Signal, launched, makeVars
<1>5. status = "killed" => pc = "over"
  BY Zenon DEF MakeInv, Placed
<1>6. Dry' = Dry /\ Flag("i")' = Flag("i")
  BY Zenon, MakefileSame DEF Dry, Flag
<1> QED BY SMTT(30), <1>1, <1>2, <1>3, <1>4, <1>5, <1>6 DEF Live, Followed

(* Calls go to what the caller depends on                                    *)
LEMMA StackedEnter ==
  ASSUME MakeInv, Stacked, NEW t \in Target, Enter(t), deps' = deps,
         stack # <<>> => t \in SeqElems(deps[Top.t])
  PROVE  Stacked'
<1>1. /\ Len(stack') = Len(stack) + 1 /\ Len(stack) \in Nat
      /\ \A k \in 1 .. Len(stack) : stack'[k] = stack[k]
      /\ stack'[Len(stack) + 1] = Frame(t)
  BY Zenon, EnterStack DEF MakeInv
<1>2. Closed' = Closed
  BY Zenon DEF Closed
<1>3. SUFFICES ASSUME NEW D \in Closed, NEW k \in 1 .. Len(stack) + 1, stack'[k].t \in D,
                      NEW m \in k .. Len(stack) + 1
               PROVE  stack'[m].t \in D
  BY Zenon, <1>1, <1>2 DEF Stacked
<1>4. CASE m = k
  BY Zenon, <1>3, <1>4
<1>5. CASE m # k
  <2>1. k \in 1 .. Len(stack) /\ Len(stack) \in k .. Len(stack) /\ stack # <<>>
    BY <1>1, <1>3, <1>5
  <2>2. \A n \in k .. Len(stack) : stack[n].t \in D
    BY Zenon, <1>1, <1>3, <2>1 DEF Stacked
  <2>3. Top.t \in D
    BY Zenon, <2>1, <2>2 DEF Top
  <2>4. t \in D
    BY Zenon, <2>1, <2>3 DEF Closed
  <2>5. CASE m = Len(stack) + 1
    BY <1>1, <2>4, <2>5 DEF Frame
  <2>6. CASE m # Len(stack) + 1
    BY <1>1, <1>3, <2>2, <2>6
  <2> QED BY Zenon, <2>5, <2>6
<1> QED BY Zenon, <1>4, <1>5

(* A return leaves the targets of the activations below                      *)
LEMMA StackedReturn ==
  ASSUME MakeInv, Stacked, stack # <<>>, NEW r, NEW built \in BOOLEAN, Return(r, built)
  PROVE  Stacked'
<1>1. /\ Len(stack) \in Nat \ {0} /\ Len(stack') = Len(stack) - 1
      /\ \A k \in 1 .. Len(stack) - 2 : stack'[k] = stack[k]
      /\ Len(stack) > 1 =>
           /\ stack[Len(stack) - 1] \in Frames
           /\ stack'[Len(stack) - 1] = Returned(stack[Len(stack) - 1], Top.t, r, built)
  BY Zenon, ReturnStack DEF MakeInv
<1>2. Closed' = Closed
  BY Zenon DEF Closed, Return
<1>3. \A k \in 1 .. Len(stack) - 1 : stack'[k].t = stack[k].t
  BY <1>1 DEF Returned
<1>4. SUFFICES ASSUME NEW D \in Closed, NEW k \in 1 .. Len(stack) - 1, stack'[k].t \in D,
                      NEW m \in k .. Len(stack) - 1
               PROVE  stack'[m].t \in D
  BY Zenon, <1>1, <1>2 DEF Stacked
<1>5. k \in 1 .. Len(stack) /\ m \in k .. Len(stack) /\ m \in 1 .. Len(stack) - 1
  BY <1>1
<1>6. stack[k].t \in D
  BY Zenon, <1>3, <1>4
<1>7. stack[m].t \in D
  BY Zenon, <1>5, <1>6 DEF Stacked
<1> QED BY Zenon, <1>3, <1>5, <1>7

(* Every step keeps Stacked                                                  *)
LEMMA StackedStep ==
  ASSUME MakeInv, Stacked, [Next]_makeVars
  PROVE  Stacked'
<1>1. ASSUME UNCHANGED <<deps, stack>> PROVE Stacked'
  BY Zenon, <1>1 DEF Stacked, Closed
<1>2. CASE AddDep
  <2>1. stack' = <<>>
    BY Zenon, <1>2 DEF AddDep, MakeInv, Placed
  <2> QED BY <2>1 DEF Stacked
<1>3. CASE Goal
  <2>1. stack = <<>> /\ Head(goals) \in Target
    BY <1>3 DEF Goal, MakeInv, MakeTypeOK, Placed
  <2> QED BY Zenon, <1>3, <2>1, StackedEnter DEF Goal
<1>4. CASE VisitDep
  <2>1. stack # <<>>
    BY Zenon, <1>4 DEF VisitDep, InLoop, MakeInv, Placed
  <2>2. /\ Top.t \in Target /\ Top.i \in Nat \ {0} /\ deps[Top.t] \in Seq(Target)
        /\ Top.i <= Len(deps[Top.t])
    BY Zenon, <1>4, <2>1, TopType DEF VisitDep, InLoop, MakeInv
  <2>3. deps[Top.t][Top.i] \in Target /\ deps[Top.t][Top.i] \in SeqElems(deps[Top.t])
    BY <2>2 DEF SeqElems
  <2> QED BY Zenon, <1>1, <1>4, <2>3, StackedEnter DEF VisitDep
<1>5. CASE NotRemade \/ NotNeeded \/ NoRule \/ Succeeded \/ Failed
  <2>1. stack # <<>>
    BY Zenon, <1>5 DEF NotRemade, NotNeeded, NoRule, Succeeded, Failed, Updating, AfterLoop,
                       MakeInv, Placed, InRun
  <2>2. \/ UNCHANGED <<deps, stack>> \/ Return(1, FALSE) \/ Return(0, FALSE)
        \/ Return(0, TRUE) \/ Return(ret, TRUE)
    BY Zenon, <1>5 DEF NotRemade, NotNeeded, NoRule, Succeeded, Failed, walk
  <2> QED BY Zenon, <1>1, <2>1, <2>2, StackedReturn
<1>6. CASE \/ Parsed \/ AllDone \/ StartRun \/ TouchDeps \/ DryLine \/ RunLine \/ RunDone
           \/ StopInLoop \/ StopInRun \/ StopAfterRun \/ Block \/ Fork \/ NotForked
           \/ Wait \/ Reap \/ Deliver \/ ChildEnd \/ Signal \/ UNCHANGED makeVars
  <2>1. UNCHANGED <<deps, stack>>
    BY Zenon, <1>6 DEF Parsed, AllDone, StartRun, TouchDeps, DryLine, RunLine, RunDone,
         StopInLoop, StopInRun, StopAfterRun, cleanup, Block, Fork, NotForked, Wait, Reap,
         Deliver, ChildEnd, Signal, launched, walk, running, makeVars
  <2> QED BY Zenon, <1>1, <2>1
<1> QED BY Zenon, <1>2, <1>3, <1>4, <1>5, <1>6 DEF Next, Step

(* Every step keeps FreshInv, MakeInv and TornInv given                       *)
LEMMA NextFreshInv ==
  ASSUME MakeInv, MakeInv', TornInv, Default \notin Met, LeafSources(mk), FreshInv,
         [Next]_makeVars
  PROVE  FreshInv'
<1>1. clock' \in Nat /\ \A x \in Target : file'[x] <= clock'
  BY Zenon, ClockStep DEF FreshInv
<1>2. (lost => stop)' /\ (pc = "touchdeps" => Flag("t"))'
  BY Zenon, MarksStep DEF FreshInv
<1>4. Stacked /\ Stacked'
  BY Zenon, StackedStep DEF FreshInv
<1>3. ASSUME Live' PROVE TornFresh' /\ \E D \in SUBSET Target : DoneBy(D)'
  <2>1. Live /\ ~lost' /\ ~(StopInLoop \/ StopInRun \/ StopAfterRun)
    BY Zenon, <1>3, LiveBefore
  <2>2. TornFresh /\ ~Dry /\ ~Flag("i") /\ ~Flag("t")
    BY Zenon, <2>1 DEF FreshInv, Live, Followed, Dry, Flag
  <2>3. PlainWalk /\ Met \subseteq Plain /\ Clean
    BY Zenon, <2>1 DEF TornInv, Live
  <2>4. PICK D \in SUBSET Target : DoneBy(D)
    BY Zenon, <2>1 DEF FreshInv
  <2>5. CASE Step
    <3>1. ~TouchDeps /\ ~DryLine
      BY Zenon, <2>2 DEF FreshInv, TouchDeps, DryLine
    <3>2. CASE AddDep \/ Parsed \/ AllDone
      BY Zenon, <2>2, <2>4, <3>2, MainFresh
    <3>3. CASE Goal \/ VisitDep
      BY Zenon, <2>2, <2>4, <3>3, CallFresh
    <3>4. CASE NotRemade \/ NotNeeded \/ NoRule \/ Succeeded \/ Failed
      BY Zenon, <1>4, <2>2, <2>3, <2>4, <3>4, RebuildFresh
    <3>5. CASE StartRun
      BY Zenon, <2>2, <2>3, <2>4, <3>5, StartFresh
    <3>6. CASE RunLine \/ RunDone \/ Block \/ Fork \/ NotForked \/ Wait \/ Reap
      BY Zenon, <2>2, <2>3, <2>4, <3>6, LaunchFresh
    <3> QED BY Zenon, <2>1, <2>5, <3>1, <3>2, <3>3, <3>4, <3>5, <3>6 DEF Step
  <2>6. CASE ChildEnd
    BY Zenon, <1>4, <2>2, <2>3, <2>4, <2>6, ChildFresh DEF FreshInv
  <2>7. CASE Deliver \/ Signal \/ UNCHANGED makeVars
    <3>1. UNCHANGED <<mk, deps, goals, stack, stamp, file, torn, made, pc, rule, line, ret,
                      bind, child, exitstatus, status>>
      BY Zenon, <2>1, <2>7 DEF Deliver, Signal, Interrupted, launched, makeVars, walk, running, disk,
                        history
    <3> QED BY Zenon, <2>2, <2>4, <3>1, SignalFresh
  <2> QED BY Zenon, <2>5, <2>6, <2>7 DEF Next
<1> QED BY Zenon, <1>1, <1>2, <1>3, <1>4 DEF FreshInv

(* mk never changes, so the makefile stays a standard one                    *)
LEMMA StandardStays ==
  ASSUME \A m \in Makefiles : StandardMakefile(m), MakeInv
  PROVE  Default \notin Met /\ LeafSources(mk)
<1>1. mk \in Makefiles /\ StandardMakefile(mk)
  BY Zenon DEF MakeInv, MakeTypeOK
<1> QED BY Zenon, <1>1 DEF StandardMakefile, NamesNoDefault, Met

(* MakeInv, TornInv and FreshInv always hold with standard makefiles          *)
LEMMA FreshInvariant ==
  ASSUME \A m \in Makefiles : StandardMakefile(m)
  PROVE  Spec => [](MakeInv /\ TornInv /\ FreshInv)
<1>1. \A m \in Makefiles : PlainMakefile(m)
  BY Zenon DEF StandardMakefile
<1>2. Spec => []TornInv
  BY Zenon, <1>1, TornInvariant
<1>3. Init => FreshInv
  <2> SUFFICES ASSUME Init PROVE FreshInv
    BY Zenon 
  <2>1. clock \in Nat /\ (\A x \in Target : file[x] <= clock) /\ ~lost
    BY SMTT(30), MakeAssumption DEF Init
  <2>2. /\ pc = "parse" /\ stack = <<>> /\ made = {} /\ torn = {} /\ goals = mk.goals
        /\ status = "run"
    BY Zenon DEF Init
  <2>3. TornFresh
    BY Zenon, <2>2 DEF TornFresh, InRun
  <2>4. DoneBy({})
    BY <2>2 DEF DoneBy, Closed, RunFresh, GoalsDone, InRun
  <2>5. Stacked
    BY <2>2 DEF Stacked
  <2> QED BY Zenon, <2>1, <2>2, <2>3, <2>4, <2>5 DEF FreshInv
<1>4. MakeInv /\ MakeInv' /\ TornInv /\ FreshInv /\ [Next]_makeVars => FreshInv'
  BY Zenon, StandardStays, NextFreshInv
<1> QED BY <1>2, <1>3, <1>4, MakeInvariant, PTL DEF Spec

(* When make exits with 0 having built for real and lost no status, every goal   *)
(* and everything the goals depend on that make can settle (nothing below it is   *)
(* phony or without both a rule and a file) exists, is whole and is not older     *)
(* than any of its prerequisites or than the source its inference rule builds it  *)
(* from: rebuild() looks at a shared prerequisite once per dependent, and the     *)
(* stamps it compares are still those of the disk.  The makefile's inference      *)
(* rules and .DEFAULT are no goals or prerequisites, and what an inference rule   *)
(* builds from is made by no rule.                                           *)
THEOREM GoalsUpToDate ==
  ASSUME \A m \in Makefiles : StandardMakefile(m)
  PROVE  Spec => []UpToDate
<1>1. ASSUME MakeInv, FreshInv PROVE UpToDate
  <2> SUFFICES ASSUME status = "exit", exitstatus = 0, ~lost, ~Dry, ~Flag("i"),
                      NEW t \in Asked, Settled(t)
               PROVE  Fresh(t) /\ t \notin torn
    BY Zenon DEF UpToDate
  <2>1. TornFresh /\ \E D \in SUBSET Target : DoneBy(D)
    BY Zenon, <1>1 DEF FreshInv, Live, Followed
  <2>2. PICK D \in SUBSET Target : DoneBy(D)
    BY Zenon, <2>1
  <2>3. pc = "over" /\ torn = {}
    BY Zenon, <1>1, <2>1 DEF MakeInv, Placed, TornFresh, InRun
  <2>4. \A g \in SeqElems(mk.goals) : g \in D
    BY <2>2 DEF DoneBy, GoalsDone, SeqElems
  <2>5. PICK g \in SeqElems(mk.goals) : t \in Reach(g)
    BY Zenon DEF Asked
  <2>6. t \in D
    BY Zenon, <2>2, <2>4, <2>5 DEF DoneBy, Reach
  <2> QED BY Zenon, <2>2, <2>3, <2>6 DEF DoneBy
<1> QED BY <1>1, FreshInvariant, PTL

(* No recipe is started for a target whose recipe has already succeeded in this  *)
(* invocation, however many targets depend on it: rebuild() keeps no record of    *)
(* what it has built, and the stamps alone tell it.  For makefiles as above, and  *)
(* for the targets make can settle.                                          *)
THEOREM RecipesRunOnce ==
  ASSUME \A m \in Makefiles : StandardMakefile(m)
  PROVE  Spec => RunsOnce
<1>1. ASSUME MakeInv, TornInv, FreshInv, [Next]_makeVars, Forks, ~Flag("i"), Top.t \in made
      PROVE  ~Settled(Top.t)
  <2>1. Fork
    BY Zenon, <1>1, ForksOnlyInFork
  <2>2. pc = "masked" /\ ~stop /\ ~lost
    BY Zenon, <1>1, <2>1 DEF Fork, FreshInv
  <2>3. ~Dry
    BY Zenon, <1>1, <2>2 DEF TornInv, Followed, Clean, OneTorn, InLaunch
  <2>4. status = "run"
    BY Zenon, <1>1, <2>2 DEF MakeInv, Placed, MakeTypeOK
  <2>5. PICK D \in SUBSET Target : DoneBy(D)
    BY Zenon, <1>1, <2>2, <2>3, <2>4 DEF FreshInv, Live, Followed
  <2> QED BY Zenon, <1>1, <2>2, <2>5 DEF DoneBy, RunFresh, InRun
<1>2. MakeInv /\ TornInv /\ FreshInv /\ [Next]_makeVars =>
        [Forks /\ ~Flag("i") /\ Top.t \in made => ~Settled(Top.t)]_makeVars
  BY Zenon, <1>1
<1> QED BY <1>2, FreshInvariant, PTL DEF Spec, RunsOnce

-----------------------------------------------------------------------------
(* make -q.                                                                  *)

(* What an activation of rebuild() knows under -q                            *)
FrameAsks(D, k) ==
  LET f == stack[k] IN
  /\ ~f.err /\ stamp[f.t] = StampOf(f.t)
  /\ f.i <= Len(deps[f.t]) + 1 /\ SeenBy(f) \subseteq D
  /\ f.need <=> \E d \in SeenBy(f) : OutOfDate(d) \/ StampOf(d) > StampOf(f.t)

(* D: the targets rebuild() has returned for                                 *)
AnsweredBy(D) ==
  /\ D \in Closed
  /\ pc = "parse" => D = {}
  /\ \A x \in D : x \notin SeqElems(deps[x]) /\ stamp[x] = StampOf(x)
  /\ exitstatus = 0 => \A x \in D : ~(OutOfDate(x) /\ Acts(x))
  /\ status = "run" => \A k \in 1 .. Len(stack) : FrameAsks(D, k)
  /\ GoalsDone(D)

(* Nothing is run, and 1 is answered only with a reason                       *)
OnlyAsks ==
  /\ \A x \in Target : file[x] >= -1
  /\ child.st # "run"
  /\ pc \in {"parse", "main", "rebuild", "over", "run", "ret"}
  /\ pc \in InRun =>
       /\ OutOfDate(Top.t) /\ rule = RuleFor(Top.t)
       /\ pc = "run" => line = 1 \/ exitstatus = 1
       /\ pc = "ret" => ret = 0 /\ (mk.lines[rule] = 0 \/ exitstatus = 1)
  /\ pc = "parse" => exitstatus = 0
  /\ \A k \in 1 .. Len(stack) : stack[k].t \in Asked
  /\ SeqElems(goals) \subseteq SeqElems(mk.goals)
  /\ exitstatus = 1 => \E x \in Asked : OutOfDate(x) /\ Acts(x)

(* The invariant QuestionAnswered rests on                                   *)
AskInv ==
  Flag("q") /\ ~Flag("t") => OnlyAsks /\ \E D \in SUBSET Target : AnsweredBy(D)

-----------------------------------------------------------------------------

(* What Reach() holds besides the target comes through a prerequisite          *)
LEMMA ReachThrough ==
  ASSUME deps \in [Target -> Seq(Target)], NEW t \in Target, NEW x \in Reach(t), x # t
  PROVE  \E d \in SeqElems(deps[t]) : x \in Reach(d)
<1>1. PICK S : S = {t} \cup UNION {Reach(d) : d \in SeqElems(deps[t])}
  BY Zenon
<1>2. S \subseteq Target /\ t \in S
  BY Zenon, <1>1 DEF Reach
<1>3. ASSUME NEW y \in S PROVE SeqElems(deps[y]) \subseteq S
  <2>1. CASE y = t
    <3>1. \A d \in SeqElems(deps[t]) : d \in Target /\ d \in Reach(d)
      BY Zenon, ReachFacts
    <3> QED BY Zenon, <1>1, <2>1, <3>1
  <2>2. CASE y # t
    <3>1. PICK d \in SeqElems(deps[t]) : y \in Reach(d)
      BY Zenon, <1>1, <2>2
    <3>2. \A T \in Closed : d \in T => SeqElems(deps[y]) \subseteq T
      BY Zenon, <3>1 DEF Reach, Closed
    <3>3. SeqElems(deps[y]) \subseteq Target
      BY <1>2 DEF SeqElems
    <3>4. SeqElems(deps[y]) \subseteq Reach(d)
      BY Zenon, <3>2, <3>3 DEF Reach
    <3> QED BY Zenon, <1>1, <3>1, <3>4
  <2> QED BY Zenon, <2>1, <2>2
<1>4. S \in Closed
  BY Zenon, <1>2, <1>3 DEF Closed
<1> QED BY Zenon, <1>1, <1>2, <1>4 DEF Reach

(* A target is out of date by itself or through a prerequisite               *)
LEMMA OutOfDateUnfolds ==
  ASSUME deps \in [Target -> Seq(Target)], NEW t \in Target
  PROVE  OutOfDate(t) <=> Older(t) \/ \E d \in SeqElems(deps[t]) : OutOfDate(d)
<1>1. t \in Reach(t) /\ \A d \in SeqElems(deps[t]) : Reach(d) \subseteq Reach(t)
  BY Zenon, ReachFacts
<1>2. \A x \in Reach(t) : x = t \/ \E d \in SeqElems(deps[t]) : x \in Reach(d)
  BY Zenon, ReachThrough
<1> QED BY Zenon, <1>1, <1>2 DEF OutOfDate

(* What is asked for holds, with a target, its prerequisites                  *)
LEMMA AskedClosed ==
  ASSUME MakeTypeOK
  PROVE  /\ SeqElems(mk.goals) \subseteq Asked /\ Asked \subseteq Target
         /\ \A x \in Asked : SeqElems(deps[x]) \subseteq Asked
         /\ \A D \in Closed : SeqElems(mk.goals) \subseteq D => Asked \subseteq D
<1>1. mk.goals \in Seq(Target) /\ deps \in [Target -> Seq(Target)]
  BY Zenon, MakefileType DEF MakeTypeOK
<1>2. SeqElems(mk.goals) \subseteq Target
  BY <1>1 DEF SeqElems
<1>3. SeqElems(mk.goals) \subseteq Asked
  BY <1>1, <1>2, ReachFacts DEF Asked
<1>4. Asked \subseteq Target
  BY Zenon DEF Asked, Reach
<1>5. ASSUME NEW x \in Asked PROVE SeqElems(deps[x]) \subseteq Asked
  <2>1. PICK g \in SeqElems(mk.goals) : x \in Reach(g)
    BY Zenon DEF Asked
  <2>2. SeqElems(deps[x]) \subseteq Target
    BY <1>1, <1>4 DEF SeqElems
  <2>3. SeqElems(deps[x]) \subseteq Reach(g)
    BY Zenon, <2>1, <2>2 DEF Reach, Closed
  <2> QED BY Zenon, <2>1, <2>3 DEF Asked
<1>6. \A D \in Closed : SeqElems(mk.goals) \subseteq D => Asked \subseteq D
  BY Zenon DEF Asked, Reach
<1> QED BY Zenon, <1>3, <1>4, <1>5, <1>6

(* The makefile and the files say what is out of date and what would run        *)
LEMMA SameAnswers ==
  ASSUME UNCHANGED <<mk, deps, file>>
  PROVE  /\ Asked' = Asked /\ Closed' = Closed
         /\ \A t : /\ StampOf(t)' = StampOf(t)
                   /\ OutOfDate(t)' <=> OutOfDate(t)
                   /\ RuleFor(t)' = RuleFor(t)
                   /\ Acts(t)' <=> Acts(t)
<1>1. Closed' = Closed
  BY Zenon DEF Closed
<1>2. \A t : Reach(t)' = Reach(t)
  BY Zenon, <1>1 DEF Reach
<1>3. Asked' = Asked
  BY Zenon, <1>2 DEF Asked
<1>4. \A t : StampOf(t)' = StampOf(t)
  BY Zenon DEF StampOf
<1>5. \A t : Older(t)' <=> Older(t)
  BY Zenon, <1>4 DEF Older, HasActions
<1>6. \A t : OutOfDate(t)' <=> OutOfDate(t)
  BY Zenon, <1>2, <1>5 DEF OutOfDate
<1>7. \A t : RuleFor(t)' = RuleFor(t)
  <2>1. \A t : Usable(t, TRUE)' = Usable(t, TRUE)
    BY DEF Usable, HasActions
  <2>2. \A t : inference(t, TRUE)' = inference(t, TRUE)
    BY Zenon, <2>1, InferenceKept
  <2> QED BY Zenon, <2>2 DEF RuleFor, HasActions
<1>8. \A t : Acts(t)' <=> Acts(t)
  BY Zenon, <1>7 DEF Acts
<1> QED BY Zenon, <1>1, <1>3, <1>4, <1>6, <1>7, <1>8

(* After the loop rebuild() needs to make what is out of date, and nothing else  *)
LEMMA NeedsOutOfDate ==
  ASSUME MakeInv, OnlyAsks, NEW D, AnsweredBy(D), status = "run", stack # <<>>,
         Top.i > Len(deps[Top.t])
  PROVE  /\ SeqElems(deps[Top.t]) \subseteq D /\ Top.t \notin SeqElems(deps[Top.t])
         /\ ~Top.err /\ stamp[Top.t] = StampOf(Top.t)
         /\ Need(Top) <=> OutOfDate(Top.t)
<1> DEFINE t == Top.t
<1>1. /\ t \in Target /\ deps \in [Target -> Seq(Target)] /\ deps[t] \in Seq(Target)
      /\ Len(stack) \in 1 .. Len(stack) /\ Top = stack[Len(stack)] /\ Top.i \in Nat \ {0}
      /\ stamp \in [Target -> Int] /\ file \in [Target -> Int]
  BY Zenon, TopType DEF MakeInv, MakeTypeOK, Top
<1>2. FrameAsks(D, Len(stack))
  BY Zenon, <1>1 DEF AnsweredBy
<1>3. SeenBy(Top) = SeqElems(deps[t])
  <2>1. Top.i - 1 = Len(deps[t])
    <3>1. Top.i <= Len(deps[t]) + 1 /\ Top.i > Len(deps[t])
      BY Zenon, <1>1, <1>2 DEF FrameAsks
    <3>2. Len(deps[t]) \in Nat /\ Top.i \in Nat
      BY <1>1
    <3> QED BY <3>1, <3>2
  <2>2. DOMAIN deps[t] = 1 .. Len(deps[t])
    BY Zenon, <1>1, SeqDomain
  <2> QED BY Zenon, <1>1, <2>1, <2>2 DEF SeqElems, SeenBy
<1>4. SeqElems(deps[t]) \subseteq D /\ ~Top.err /\ stamp[t] = StampOf(t)
  BY Zenon, <1>1, <1>2, <1>3 DEF FrameAsks
<1>5. t \notin SeqElems(deps[t])
  BY Zenon, <1>4 DEF AnsweredBy
<1>6. Top.need <=> \E d \in SeqElems(deps[t]) : OutOfDate(d) \/ StampOf(d) > StampOf(t)
  BY Zenon, <1>1, <1>2, <1>3 DEF FrameAsks
<1>7. Newer(t) # None <=>
        /\ StampOf(t) # -1
        /\ \E n \in DOMAIN mk.suffixes :
             LET s == mk.source[mk.suffixes[n]][t] IN
             HasActions(mk.suffixes[n]) /\ s # None /\ file[s] > StampOf(t)
  <2>1. Newer(t) # None <=> StampOf(t) # -1 /\ Usable(t, FALSE) # {}
    BY Zenon, <1>1, <1>4, <1>5, InferenceFinds DEF Newer, depends, MakeInv
  <2>2. StampOf(t) >= -1 /\ StampOf(t) \in Int
    BY <1>1 DEF StampOf, OnlyAsks
  <2>3. ASSUME NEW n \in DOMAIN mk.suffixes, mk.source[mk.suffixes[n]][t] # None
        PROVE  mk.source[mk.suffixes[n]][t] \in Target
    <3>1. /\ mk.suffixes \in Seq(Target \ {Default})
          /\ mk.source \in [Target -> [Target -> Target \cup {None}]]
      BY Zenon, MakefileType DEF MakeInv, MakeTypeOK
    <3>2. mk.suffixes[n] \in Target
      BY <3>1
    <3>3. \A r \in Target, x \in Target : mk.source[r][x] \in Target \cup {None}
      BY Zenon, <3>1
    <3> HIDE DEF t
    <3> QED BY Zenon, <1>1, <2>3, <3>2, <3>3
  <2>4. ASSUME NEW n \in DOMAIN mk.suffixes
        PROVE  n \in Usable(t, FALSE) <=>
                 /\ HasActions(mk.suffixes[n]) /\ mk.source[mk.suffixes[n]][t] # None
                 /\ file[mk.source[mk.suffixes[n]][t]] > StampOf(t)
    <3> DEFINE s == mk.source[mk.suffixes[n]][t]
    <3>1. s # None => file[s] \in Int
      BY Zenon, <1>1, <2>3
    <3>2. n \in Usable(t, FALSE) <=>
            HasActions(mk.suffixes[n]) /\ s # None /\ file[s] # -1 /\ file[s] > StampOf(t)
      BY Zenon, <1>4 DEF Usable
    <3> HIDE DEF s
    <3>3. s # None /\ file[s] > StampOf(t) => file[s] # -1
      BY <2>2, <3>1
    <3> QED BY Zenon, <3>2, <3>3 DEF s
  <2>5. Usable(t, FALSE) \subseteq DOMAIN mk.suffixes
    BY Zenon DEF Usable
  <2> QED BY Zenon, <2>1, <2>4, <2>5
<1>8. OutOfDate(t) <=> Older(t) \/ \E d \in SeqElems(deps[t]) : OutOfDate(d)
  BY Zenon, <1>1, OutOfDateUnfolds
<1>9. Need(Top) <=> Top.need \/ StampOf(t) = -1 \/ Newer(t) # None
  BY Zenon, <1>4 DEF Need
<1>10. Need(Top) <=> OutOfDate(t)
  <2> HIDE DEF t
  <2> QED BY Zenon, <1>6, <1>7, <1>8, <1>9 DEF Older
<1> QED BY Zenon, <1>4, <1>5, <1>10

(* The activations of the callers when the files and stamps stay             *)
LEMMA CallerAsks ==
  ASSUME NEW D, NEW E, D \subseteq E, NEW k, FrameAsks(D, k),
         stack'[k] = stack[k], UNCHANGED <<mk, deps, file>>,
         stamp'[stack[k].t] = stamp[stack[k].t]
  PROVE  FrameAsks(E, k)'
<1>1. \A t : StampOf(t)' = StampOf(t) /\ (OutOfDate(t)' <=> OutOfDate(t))
  BY Zenon, SameAnswers
<1>2. SeenBy(stack[k])' = SeenBy(stack[k])
  BY Zenon DEF SeenBy
<1> QED BY Zenon, <1>1, <1>2 DEF FrameAsks

(* A call of rebuild() under -q                                              *)
LEMMA EnterAsks ==
  ASSUME MakeInv, NEW D, AnsweredBy(D), OnlyAsks, NEW t \in Asked, Enter(t),
         UNCHANGED <<mk, deps, file, exitstatus, status, child>>,
         pc \notin InRun \cup {"parse"}, pc' = "rebuild", status = "run",
         \/ goals' = goals /\ stack # <<>>
         \/ stack = <<>> /\ goals # <<>> /\ t = Head(goals) /\ goals' = Tail(goals)
  PROVE  AnsweredBy(D)' /\ OnlyAsks'
<1>1. t \in Target
  BY Zenon, AskedClosed DEF MakeInv
<1>2. /\ Len(stack') = Len(stack) + 1 /\ Len(stack) \in Nat
      /\ \A k \in 1 .. Len(stack) : stack'[k] = stack[k]
      /\ stack'[Len(stack) + 1] = Frame(t) /\ stack' # <<>>
  BY Zenon, <1>1, EnterStack DEF MakeInv
<1>3. UNCHANGED <<mk, deps, file>>
  BY Zenon
<1>4. /\ Asked' = Asked /\ Closed' = Closed
      /\ \A x : /\ StampOf(x)' = StampOf(x)
                /\ OutOfDate(x)' <=> OutOfDate(x)
                /\ Acts(x)' <=> Acts(x)
  BY Zenon, <1>3, SameAnswers
<1>5. \A x \in Target : stamp'[x] = IF x = t THEN StampOf(t) ELSE stamp[x]
  BY Zenon, <1>1 DEF Enter, Stamped, StampOf, MakeInv, MakeTypeOK
<1>6. ASSUME NEW k \in 1 .. Len(stack') PROVE FrameAsks(D, k)' /\ stack'[k].t \in Asked'
  <2>1. CASE k = Len(stack) + 1
    <3>1. stack'[k] = Frame(t)
      BY Zenon, <1>2, <2>1
    <3>2. stack'[k].t = t /\ ~stack'[k].err /\ ~stack'[k].need /\ stack'[k].i = 1
      BY <3>1 DEF Frame
    <3>3. SeenBy(stack[k])' = {}
      BY <3>2 DEF SeenBy
    <3>4. Len(deps'[t]) \in Nat
      <4>1. deps[t] \in Seq(Target) /\ deps' = deps
        BY Zenon, <1>1, <1>3 DEF MakeInv, MakeTypeOK
      <4> QED BY Zenon, <4>1, SeqDomain
    <3>5. stack'[k].i <= Len(deps'[stack'[k].t]) + 1
      BY <3>2, <3>4
    <3> QED BY Zenon, <1>1, <1>4, <1>5, <3>2, <3>3, <3>5 DEF FrameAsks
  <2>2. CASE k \in 1 .. Len(stack)
    <3>1. stack'[k] = stack[k] /\ FrameAsks(D, k) /\ stack[k].t \in Asked
      BY Zenon, <1>2, <2>2 DEF AnsweredBy, OnlyAsks
    <3>2. stack[k].t \in Target
      BY Zenon, <3>1, AskedClosed DEF MakeInv
    <3>3. stamp'[stack[k].t] = stamp[stack[k].t]
      BY Zenon, <1>5, <3>1, <3>2 DEF FrameAsks
    <3> QED BY Zenon, <1>3, <1>4, <3>1, <3>3, CallerAsks
  <2> QED BY <1>2, <2>1, <2>2
<1>7. GoalsDone(D)'
  <2>1. UNCHANGED <<mk, exitstatus, status>> /\ GoalsDone(D)
    BY Zenon DEF AnsweredBy
  <2> QED BY Zenon, <1>1, <2>1, GoalsEnter
<1>8. \A x \in D : x \notin SeqElems(deps'[x]) /\ stamp'[x] = StampOf(x)'
  <2>1. D \subseteq Target
    BY Zenon DEF AnsweredBy, Closed
  <2> QED BY Zenon, <1>3, <1>4, <1>5, <2>1 DEF AnsweredBy
<1>9. AnsweredBy(D)'
  BY Zenon, <1>4, <1>6, <1>7, <1>8 DEF AnsweredBy
<1>10. SeqElems(goals') \subseteq SeqElems(mk'.goals)
  <2>1. CASE goals' = goals
    BY Zenon, <1>3, <2>1 DEF OnlyAsks
  <2>2. CASE goals # <<>> /\ goals' = Tail(goals)
    <3>1. goals \in Seq(Target)
      BY Zenon DEF MakeInv, MakeTypeOK
    <3>2. \A n \in DOMAIN goals' : n + 1 \in DOMAIN goals /\ goals'[n] = goals[n + 1]
      BY <2>2, <3>1
    <3>3. SeqElems(goals') \subseteq SeqElems(goals)
      BY Zenon, <3>2 DEF SeqElems
    <3> QED BY Zenon, <1>3, <3>3 DEF OnlyAsks
  <2> QED BY Zenon, <2>1, <2>2
<1>11. OnlyAsks'
  BY Zenon, <1>4, <1>6, <1>10 DEF OnlyAsks, InRun
<1> QED BY Zenon, <1>9, <1>11

(* A return of rebuild() under -q                                            *)
LEMMA ReturnAsks ==
  ASSUME MakeInv, NEW D, AnsweredBy(D), OnlyAsks, status = "run", stack # <<>>, pc # "parse",
         NEW built \in BOOLEAN, Return(0, built),
         UNCHANGED <<mk, file, exitstatus, status, child>>,
         Top.i > Len(deps[Top.t]), built <=> OutOfDate(Top.t),
         exitstatus = 0 => ~(OutOfDate(Top.t) /\ Acts(Top.t))
  PROVE  OnlyAsks' /\ \E E \in SUBSET Target : AnsweredBy(E)'
<1>1. /\ SeqElems(deps[Top.t]) \subseteq D /\ Top.t \notin SeqElems(deps[Top.t])
      /\ stamp[Top.t] = StampOf(Top.t)
  BY Zenon, NeedsOutOfDate
<1>2. UNCHANGED <<mk, deps, file, goals, stamp>> /\ pc' \in {"main", "rebuild"}
  BY Zenon DEF Return
<1>3. /\ Asked' = Asked /\ Closed' = Closed
      /\ \A x : /\ StampOf(x)' = StampOf(x)
                /\ OutOfDate(x)' <=> OutOfDate(x)
                /\ Acts(x)' <=> Acts(x)
  BY Zenon, <1>2, SameAnswers
<1>4. Top.t \in Target /\ D \in Closed /\ D \subseteq Target
  BY Zenon, TopType DEF MakeInv, AnsweredBy, Closed
<1>5. PICK E \in SUBSET Target : E = D \cup {Top.t}
  BY Zenon, <1>4
<1>6. E \in Closed'
  BY Zenon, <1>1, <1>3, <1>4, <1>5 DEF Closed
<1>7. /\ Len(stack) \in Nat \ {0} /\ Len(stack') = Len(stack) - 1
      /\ \A j \in 1 .. Len(stack) - 2 : stack'[j] = stack[j]
      /\ Len(stack) > 1 =>
           /\ stack[Len(stack) - 1] \in Frames
           /\ stack'[Len(stack) - 1] = Returned(stack[Len(stack) - 1], Top.t, 0, built)
  BY Zenon, ReturnStack DEF MakeInv
<1>8. ASSUME NEW k \in 1 .. Len(stack') PROVE FrameAsks(E, k)' /\ stack'[k].t \in Asked'
  <2>1. k \in 1 .. Len(stack) - 1 /\ k \in 1 .. Len(stack)
    BY <1>7
  <2>2. FrameAsks(D, k) /\ stack[k].t \in Asked
    BY Zenon, <2>1 DEF AnsweredBy, OnlyAsks
  <2>3. CASE k # Len(stack) - 1
    <3>1. stack'[k] = stack[k]
      BY <1>7, <2>1, <2>3
    <3>2. stamp'[stack[k].t] = stamp[stack[k].t] /\ D \subseteq E
      BY Zenon, <1>2, <1>5
    <3> QED BY Zenon, <1>2, <1>3, <2>2, <3>1, <3>2, CallerAsks
  <2>4. CASE k = Len(stack) - 1
    <3> DEFINE f == stack[k]
    <3>1. f \in Frames /\ stack'[k] = Returned(f, Top.t, 0, built)
      BY <1>7, <2>1, <2>4
    <3>2. /\ f.i <= Len(deps[f.t]) /\ Top.t = deps[f.t][f.i]
          /\ f.t \in Target /\ f.i \in Nat \ {0}
      <4>1. f.i <= Len(deps[f.t]) /\ stack[k + 1].t = deps[f.t][f.i]
        BY Zenon, <2>1 DEF MakeInv, Chain
      <4>2. k + 1 = Len(stack)
        BY <1>7, <2>4
      <4>3. f.t \in Target /\ f.i \in Nat \ {0}
        BY Zenon, <3>1 DEF Frames
      <4> QED BY Zenon, <4>1, <4>2, <4>3 DEF Top
    <3>3. FrameAsks(D, k) /\ f.t \in Asked
      BY Zenon, <2>2
    <3>4. /\ ~f.err /\ stamp[f.t] = StampOf(f.t) /\ SeenBy(f) \subseteq D
          /\ f.need <=> \E d \in SeenBy(f) : OutOfDate(d) \/ StampOf(d) > StampOf(f.t)
      BY Zenon, <3>3 DEF FrameAsks
    <3> HIDE DEF f
    <3>5. /\ stack'[k].t = f.t /\ stack'[k].i = f.i + 1 /\ ~stack'[k].err
          /\ stack'[k].need <=> f.need \/ built \/ stamp[Top.t] > stamp[f.t]
      <4>1. /\ stack'[k].t = f.t /\ stack'[k].i = f.i + 1
            /\ stack'[k].err = (f.err \/ 0 # 0)
            /\ stack'[k].need = (f.need \/ (0 = 0 /\ (built \/ stamp[Top.t] > stamp[f.t])))
        BY <3>1 DEF Returned
      <4> QED BY Zenon, <3>4, <4>1
    <3>6. SeenBy(stack[k])' = SeenBy(f) \cup {Top.t}
      <4>1. 1 .. (f.i + 1) - 1 = (1 .. f.i - 1) \cup {f.i}
        BY <3>2
      <4> QED BY Zenon, <1>2, <3>2, <3>5, <4>1 DEF SeenBy
    <3>7. stack'[k].need <=>
            \E d \in SeenBy(f) \cup {Top.t} : OutOfDate(d) \/ StampOf(d) > StampOf(f.t)
      BY Zenon, <1>1, <3>4, <3>5
    <3>8. stack'[k].i <= Len(deps'[stack'[k].t]) + 1
      <4>1. Len(deps[f.t]) \in Nat
        BY Zenon, <3>2, SeqDomain DEF MakeInv, MakeTypeOK
      <4>2. stack'[k].i = f.i + 1 /\ deps'[stack'[k].t] = deps[f.t]
        BY Zenon, <1>2, <3>5
      <4> QED BY <3>2, <4>1, <4>2
    <3> QED BY Zenon, <1>2, <1>3, <1>5, <3>3, <3>4, <3>5, <3>6, <3>7, <3>8 DEF FrameAsks
  <2> QED BY Zenon, <2>3, <2>4
<1>9. GoalsDone(E)'
  <2>1. UNCHANGED <<mk, status>> /\ GoalsDone(D) /\ D \subseteq E /\ Top.t \in E
    BY Zenon, <1>5 DEF AnsweredBy
  <2> QED BY Zenon, <2>1, GoalsReturn
<1>10. \A x \in E : x \notin SeqElems(deps'[x]) /\ stamp'[x] = StampOf(x)'
  BY Zenon, <1>1, <1>2, <1>3, <1>5 DEF AnsweredBy
<1>11. exitstatus' = 0 => \A x \in E : ~(OutOfDate(x)' /\ Acts(x)')
  BY Zenon, <1>3, <1>5 DEF AnsweredBy
<1>12. AnsweredBy(E)'
  BY Zenon, <1>2, <1>6, <1>8, <1>9, <1>10, <1>11 DEF AnsweredBy
<1>13. OnlyAsks'
  BY Zenon, <1>2, <1>3, <1>8 DEF OnlyAsks, InRun
<1> QED BY Zenon, <1>12, <1>13

(* What stays when the walk does                                             *)
LEMMA StayAsks ==
  ASSUME MakeInv, NEW D, AnsweredBy(D),
         UNCHANGED <<mk, deps, file, goals, stack, stamp>>, pc' # "parse",
         status' = "run" => status = "run",
         exitstatus' = 0 => exitstatus = 0,
         status' = "exit" /\ exitstatus' = 0 => goals = <<>> /\ stack = <<>>
  PROVE  AnsweredBy(D)'
<1>1. UNCHANGED <<mk, deps, file>>
  BY Zenon
<1>2. /\ Closed' = Closed
      /\ \A x : /\ StampOf(x)' = StampOf(x)
                /\ OutOfDate(x)' <=> OutOfDate(x)
                /\ Acts(x)' <=> Acts(x)
  BY Zenon, <1>1, SameAnswers
<1>3. GoalsDone(D)'
  BY Zenon DEF AnsweredBy, GoalsDone
<1>4. ASSUME status' = "run", NEW k \in 1 .. Len(stack') PROVE FrameAsks(D, k)'
  <2>1. FrameAsks(D, k)
    BY Zenon, <1>4 DEF AnsweredBy
  <2> QED BY Zenon, <1>1, <2>1, CallerAsks
<1>5. \A x \in D : x \notin SeqElems(deps'[x]) /\ stamp'[x] = StampOf(x)'
  BY Zenon, <1>2 DEF AnsweredBy
<1> QED BY Zenon, <1>2, <1>3, <1>4, <1>5 DEF AnsweredBy

(* Under -q every step asks                                                  *)
LEMMA WalkAsks ==
  ASSUME MakeInv, NEW D, AnsweredBy(D), OnlyAsks, Goal \/ VisitDep
  PROVE  AnsweredBy(D)' /\ OnlyAsks'
<1>1. CASE Goal
  <2>1. stack = <<>> /\ goals # <<>> /\ status = "run"
    BY Zenon, <1>1 DEF Goal, MakeInv, Placed
  <2>2. Head(goals) \in Asked
    <3>1. goals \in Seq(Target)
      BY Zenon DEF MakeInv, MakeTypeOK
    <3>2. Head(goals) \in SeqElems(goals)
      BY <2>1, <3>1 DEF SeqElems
    <3> QED BY Zenon, <3>2, AskedClosed DEF OnlyAsks, MakeInv
  <2>3. /\ UNCHANGED <<mk, deps, file, exitstatus, status, child>>
        /\ pc \notin InRun \cup {"parse"} /\ pc' = "rebuild"
        /\ Enter(Head(goals)) /\ goals' = Tail(goals)
    BY Zenon, <1>1 DEF Goal, InRun, disk
  <2> QED BY Zenon, <2>1, <2>2, <2>3, EnterAsks
<1>2. CASE VisitDep
  <2>1. stack # <<>> /\ status = "run" /\ Top.i <= Len(deps[Top.t]) /\ pc = "rebuild"
    BY Zenon, <1>2 DEF VisitDep, InLoop, MakeInv, Placed, InRun
  <2>2. /\ Len(stack) \in 1 .. Len(stack) /\ Top = stack[Len(stack)] /\ Top.i \in Nat \ {0}
        /\ deps[Top.t] \in Seq(Target)
    BY ZenonT(30), <2>1, TopType DEF MakeInv, Top
  <2>3. Top.t \in Asked /\ deps[Top.t][Top.i] \in SeqElems(deps[Top.t])
    BY <2>1, <2>2 DEF OnlyAsks, SeqElems
  <2>4. deps[Top.t][Top.i] \in Asked
    BY Zenon, <2>3, AskedClosed DEF MakeInv
  <2>5. /\ UNCHANGED <<mk, deps, file, exitstatus, status, child, goals>>
        /\ pc \notin InRun \cup {"parse"} /\ pc' = "rebuild"
        /\ Enter(deps[Top.t][Top.i])
    BY Zenon, <1>2, <2>1 DEF VisitDep, InRun, running, disk
  <2> QED BY Zenon, <2>1, <2>4, <2>5, EnterAsks
<1> QED BY Zenon, <1>1, <1>2

(* What rebuild() does after its loop, and what run() does                    *)
LEMMA DecideAsks ==
  ASSUME MakeInv, NEW D, AnsweredBy(D), OnlyAsks, NotNeeded \/ NoRule \/ Succeeded
  PROVE  OnlyAsks' /\ \E E \in SUBSET Target : AnsweredBy(E)'
<1>1. /\ stack # <<>> /\ pc # "parse" /\ status = "run" /\ Top.i > Len(deps[Top.t])
      /\ UNCHANGED <<mk, file, child>>
  <2>1. pc \in {"rebuild", "ret"}
    BY Zenon DEF NotNeeded, NoRule, Succeeded, Updating, AfterLoop
  <2>2. pc = "ret" \/ Top.i > Len(deps[Top.t])
    BY Zenon DEF NotNeeded, NoRule, Succeeded, Updating, AfterLoop
  <2>3. UNCHANGED <<mk, file, child>>
    BY Zenon DEF NotNeeded, NoRule, Succeeded, disk
  <2> QED BY Zenon, <2>1, <2>2, <2>3 DEF MakeInv, MakeTypeOK, Placed, InRun
<1>2. Need(Top) <=> OutOfDate(Top.t)
  BY Zenon, <1>1, NeedsOutOfDate
<1>3. CASE NotNeeded
  <2>1. ~OutOfDate(Top.t) /\ Return(0, FALSE) /\ UNCHANGED <<exitstatus, status>>
    BY Zenon, <1>2, <1>3 DEF NotNeeded
  <2> QED BY Zenon, <1>1, <2>1, ReturnAsks
<1>4. CASE Succeeded
  <2>1. /\ OutOfDate(Top.t) /\ rule = RuleFor(Top.t) /\ rule \in Target
        /\ mk.lines[rule] = 0 \/ exitstatus = 1
        /\ Return(0, TRUE) /\ UNCHANGED <<exitstatus, status>>
    BY Zenon, <1>4 DEF Succeeded, OnlyAsks, InRun, MakeInv, Placed
  <2>2. exitstatus = 0 => ~Acts(Top.t)
    BY <2>1, MakeAssumption DEF Acts
  <2> QED BY Zenon, <1>1, <2>1, <2>2, ReturnAsks
<1>5. CASE NoRule /\ Top.t \in mk.defined
  <2>1. OutOfDate(Top.t) /\ Return(0, TRUE) /\ ~Acts(Top.t) /\ UNCHANGED <<exitstatus, status>>
    BY Zenon, <1>2, <1>5 DEF NoRule, Updating, Acts
  <2> QED BY Zenon, <1>1, <2>1, ReturnAsks
<1>6. CASE NoRule /\ Top.t \notin mk.defined
  <2>1. /\ OutOfDate(Top.t) /\ Acts(Top.t)
        /\ exitstatus' = 1 /\ status' = "exit" /\ pc' = "over"
        /\ UNCHANGED <<deps, goals, stack, stamp>>
    BY Zenon, <1>2, <1>6 DEF NoRule, Updating, Acts, exit, walk
  <2>2. UNCHANGED <<mk, deps, file>>
    BY Zenon, <1>1, <2>1
  <2>3. Asked' = Asked /\ \A x : (OutOfDate(x)' <=> OutOfDate(x)) /\ (Acts(x)' <=> Acts(x))
    BY ZenonT(30), <2>2, SameAnswers
  <2>4. AnsweredBy(D)' /\ D \in SUBSET Target
    <3>1. exitstatus' # 0 /\ pc' # "parse" /\ status' # "run"
      BY Zenon, <2>1, NoPositions
    <3> QED BY Zenon, <1>1, <2>1, <3>1, StayAsks DEF AnsweredBy, Closed
  <2>5. Top.t \in Asked
    <3>1. Len(stack) \in 1 .. Len(stack) /\ Top = stack[Len(stack)]
      BY Zenon, <1>1, TopType DEF MakeInv, Top
    <3> QED BY Zenon, <3>1 DEF OnlyAsks
  <2>6. OnlyAsks'
    BY Zenon, <1>1, <2>1, <2>3, <2>5 DEF OnlyAsks, InRun
  <2> QED BY Zenon, <2>4, <2>6
<1> QED BY Zenon, <1>3, <1>4, <1>5, <1>6

(* run() under -q, which prints or passes over its lines                      *)
LEMMA RunAsks ==
  ASSUME MakeInv, NEW D, AnsweredBy(D), OnlyAsks, Flag("q"), ~Flag("t"),
         StartRun \/ DryLine \/ RunDone
  PROVE  AnsweredBy(D)' /\ OnlyAsks'
<1>1. /\ UNCHANGED <<mk, deps, file, goals, stack, stamp, status, child>>
      /\ pc \in {"rebuild", "run"} /\ pc' \in {"run", "ret"}
  BY Zenon DEF StartRun, Updating, AfterLoop, DryLine, RunDone, walk, disk
<1>2. stack # <<>> /\ status = "run" /\ Top' = Top
  BY Zenon, <1>1 DEF MakeInv, MakeTypeOK, Placed, InRun, Top
<1>3. UNCHANGED <<mk, deps, file>>
  BY Zenon, <1>1
<1>4. /\ Asked' = Asked
      /\ \A x : /\ OutOfDate(x)' <=> OutOfDate(x)
                /\ RuleFor(x)' = RuleFor(x)
                /\ Acts(x)' <=> Acts(x)
  BY Zenon, <1>3, SameAnswers
<1>5. Top.t \in Asked
  <2>1. Len(stack) \in 1 .. Len(stack) /\ Top = stack[Len(stack)]
    BY Zenon, <1>2, TopType DEF MakeInv, Top
  <2> QED BY Zenon, <2>1 DEF OnlyAsks
<1>6. exitstatus \in {0, 1} /\ line \in Nat /\ mk \in Makefiles
  BY Zenon DEF MakeInv, MakeTypeOK
<1>7. CASE StartRun
  <2>1. /\ UNCHANGED exitstatus /\ pc' = "run" /\ line' = 1 /\ rule' = RuleFor(Top.t)
        /\ Top.i > Len(deps[Top.t]) /\ Need(Top)
    BY Zenon, <1>7 DEF StartRun, Updating, AfterLoop
  <2>2. OutOfDate(Top.t)
    BY Zenon, <1>2, <2>1, NeedsOutOfDate
  <2>3. AnsweredBy(D)'
    BY Zenon, <1>1, <1>2, <2>1, StayAsks
  <2> QED BY Zenon, <1>1, <1>2, <1>4, <2>1, <2>2, <2>3 DEF OnlyAsks
<1>8. CASE DryLine
  <2>1. /\ pc = "run" /\ pc' = "run" /\ exitstatus' = 1 /\ UNCHANGED rule
        /\ line <= mk.lines[rule] /\ (line = 1 \/ exitstatus = 1)
    BY Zenon, <1>8 DEF DryLine, OnlyAsks, InRun
  <2>2. OutOfDate(Top.t) /\ rule = RuleFor(Top.t) /\ rule \in Target
    BY Zenon, <2>1 DEF OnlyAsks, InRun, MakeInv, Placed
  <2>3. exitstatus = 1 \/ (OutOfDate(Top.t) /\ Acts(Top.t))
    <3>1. mk.lines \in [Target -> Nat]
      BY Zenon, <1>6, MakefileType
    <3>2. line = 1 => mk.lines[rule] > 0
      <4>1. line <= mk.lines[rule] /\ mk.lines[rule] \in Nat
        BY Zenon, <2>1, <2>2, <3>1
      <4> QED BY <4>1
    <3> QED BY Zenon, <2>1, <2>2, <3>2, MakeAssumption DEF Acts
  <2>4. \E x \in Asked : OutOfDate(x) /\ Acts(x)
    BY Zenon, <1>5, <2>3 DEF OnlyAsks
  <2>5. AnsweredBy(D)'
    <3>1. exitstatus' # 0
      BY Zenon, <2>1, NoPositions
    <3> QED BY Zenon, <1>1, <1>2, <2>1, <3>1, StayAsks
  <2> QED BY Zenon, <1>1, <1>2, <1>4, <2>1, <2>2, <2>4, <2>5 DEF OnlyAsks
<1>9. CASE RunDone
  <2>1. /\ pc = "run" /\ pc' = "ret" /\ ret' = 0 /\ UNCHANGED <<rule, exitstatus>>
        /\ line > mk.lines[rule] /\ (line = 1 \/ exitstatus = 1)
    BY Zenon, <1>9 DEF RunDone, OnlyAsks, InRun
  <2>2. OutOfDate(Top.t) /\ rule = RuleFor(Top.t) /\ rule \in Target
    BY Zenon, <2>1 DEF OnlyAsks, InRun, MakeInv, Placed
  <2>3. mk.lines[rule] = 0 \/ exitstatus = 1
    <3>1. mk.lines \in [Target -> Nat]
      BY <1>6, MakefileType
    <3>2. mk.lines[rule] \in Nat
      BY Zenon, <2>2, <3>1
    <3> QED BY <2>1, <3>2
  <2>4. AnsweredBy(D)'
    BY Zenon, <1>1, <1>2, <2>1, StayAsks
  <2> QED BY Zenon, <1>1, <1>2, <1>4, <2>1, <2>2, <2>3, <2>4 DEF OnlyAsks
<1> QED BY Zenon, <1>7, <1>8, <1>9

(* Reading the makefile, the end of main(), and cleanup(), which removes nothing *)
(* under -q                                                                  *)
LEMMA MainAsks ==
  ASSUME MakeInv, NEW D, AnsweredBy(D), OnlyAsks, Flag("q"),
         AddDep \/ Parsed \/ AllDone \/ StopInLoop \/ StopInRun \/ StopAfterRun
  PROVE  AnsweredBy(D)' /\ OnlyAsks'
<1>1. CASE AddDep
  <2>1. /\ pc = "parse" /\ pc' = "parse" /\ stack = <<>> /\ D = {} /\ exitstatus = 0
        /\ UNCHANGED <<mk, goals, stack, file, child, exitstatus, status>>
    BY Zenon, <1>1 DEF AddDep, running, disk, MakeInv, Placed, AnsweredBy, OnlyAsks
  <2>2. D \in Closed' /\ GoalsDone(D)'
    BY ZenonT(30), <2>1 DEF Closed, AnsweredBy, GoalsDone
  <2>3. 1 .. Len(stack') = {} /\ exitstatus' # 1
    BY Zenon, <2>1, NoPositions
  <2>4. AnsweredBy(D)'
    BY Zenon, <2>1, <2>2, <2>3 DEF AnsweredBy
  <2> QED BY Zenon, <2>1, <2>3, <2>4 DEF OnlyAsks, InRun
<1>2. CASE Parsed \/ AllDone \/ StopInLoop \/ StopInRun \/ StopAfterRun
  <2>1. /\ UNCHANGED <<mk, deps, goals, stack, stamp, child, exitstatus>>
        /\ pc' \in {"main", "over"}
        /\ (status' \in {status, "killed"}) \/ (AllDone /\ status' = "exit")
    BY Zenon, <1>2 DEF Parsed, AllDone, exit, walk, StopInLoop, StopInRun, StopAfterRun, cleanup
  <2>2. UNCHANGED file
    BY Zenon, <1>2 DEF Parsed, AllDone, disk, StopInLoop, StopInRun, StopAfterRun, cleanup, Removable
  <2>3. AllDone => goals = <<>> /\ stack = <<>>
    BY Zenon DEF AllDone, MakeInv, Placed
  <2>4. status' = "run" => status = "run"
    BY Zenon, <2>1
  <2>5. status = "run"
    BY Zenon, <1>2 DEF Parsed, AllDone, StopInLoop, InLoop, StopInRun, StopAfterRun,
                MakeInv, MakeTypeOK, Placed
  <2>6. AnsweredBy(D)'
    BY Zenon, <2>1, <2>2, <2>3, <2>5, StayAsks
  <2>7. Asked' = Asked /\ \A x : (OutOfDate(x)' <=> OutOfDate(x)) /\ (Acts(x)' <=> Acts(x))
    <3>1. UNCHANGED <<mk, deps, file>>
      BY Zenon, <2>1, <2>2
    <3> QED BY Zenon, <3>1, SameAnswers
  <2> QED BY Zenon, <2>1, <2>2, <2>6, <2>7 DEF OnlyAsks, InRun
<1> QED BY Zenon, <1>1, <1>2

(* Signals                                                                   *)
LEMMA IdleAsks ==
  ASSUME MakeInv, NEW D, AnsweredBy(D), OnlyAsks, Deliver \/ Signal \/ UNCHANGED makeVars
  PROVE  AnsweredBy(D)' /\ OnlyAsks'
<1>1. UNCHANGED <<mk, deps, goals, stack, stamp, file, pc, rule, line, ret, child,
                  exitstatus, status>>
  BY Zenon DEF Deliver, Signal, Interrupted, OnlyAsks, launched, makeVars, walk, running, disk
<1>2. UNCHANGED <<mk, deps, file>> /\ Top' = Top
  BY Zenon, <1>1 DEF Top
<1>3. /\ Asked' = Asked /\ Closed' = Closed
      /\ \A x : /\ StampOf(x)' = StampOf(x)
                /\ OutOfDate(x)' <=> OutOfDate(x)
                /\ RuleFor(x)' = RuleFor(x)
                /\ Acts(x)' <=> Acts(x)
  BY Zenon, <1>2, SameAnswers
<1>4. OnlyAsks'
  BY Zenon, <1>1, <1>2, <1>3 DEF OnlyAsks
<1>5. ASSUME status = "run", NEW k \in 1 .. Len(stack) PROVE FrameAsks(D, k)'
  <2>1. FrameAsks(D, k) /\ stack'[k] = stack[k] /\ stamp'[stack[k].t] = stamp[stack[k].t]
    BY Zenon, <1>1, <1>5 DEF AnsweredBy
  <2> QED BY Zenon, <1>2, <2>1, CallerAsks
<1>6. GoalsDone(D)'
  BY Zenon, <1>1 DEF AnsweredBy, GoalsDone
<1>7. AnsweredBy(D)'
  BY Zenon, <1>1, <1>3, <1>5, <1>6 DEF AnsweredBy
<1> QED BY Zenon, <1>4, <1>7

(* Every step under -q keeps AskInv: what runs a command is not reached        *)
LEMMA NextAskInv ==
  ASSUME MakeInv, AskInv, [Next]_makeVars
  PROVE  AskInv'
<1>1. SUFFICES ASSUME Flag("q")', ~Flag("t")'
               PROVE  OnlyAsks' /\ \E D \in SUBSET Target : AnsweredBy(D)'
  BY Zenon DEF AskInv
<1>2. Flag("q") /\ ~Flag("t") /\ Dry
  BY Zenon, <1>1, MakefileSame DEF Flag, Dry
<1>3. OnlyAsks
  BY Zenon, <1>2 DEF AskInv
<1>4. PICK D \in SUBSET Target : AnsweredBy(D)
  BY Zenon, <1>2 DEF AskInv
<1>5. ~(TouchDeps \/ RunLine \/ Failed \/ Block \/ Fork \/ NotForked \/ Wait \/ Reap \/ ChildEnd)
  BY Zenon, <1>2, <1>3 DEF TouchDeps, RunLine, Failed, Block, Fork, NotForked, Wait, Reap, ChildEnd,
                    OnlyAsks, InRun
<1>6. ~NotRemade
  <2>1. SUFFICES ASSUME NotRemade PROVE FALSE
    BY Zenon
  <2>2. stack # <<>> /\ status = "run" /\ Top.i > Len(deps[Top.t]) /\ Top.err
    BY Zenon, <2>1 DEF NotRemade, AfterLoop, MakeInv, MakeTypeOK, Placed
  <2> QED BY Zenon, <1>3, <1>4, <2>2, NeedsOutOfDate
<1>7. CASE Goal \/ VisitDep
  BY Zenon, <1>3, <1>4, <1>7, WalkAsks
<1>8. CASE NotNeeded \/ NoRule \/ Succeeded
  BY Zenon, <1>3, <1>4, <1>8, DecideAsks
<1>9. CASE StartRun \/ DryLine \/ RunDone
  BY Zenon, <1>2, <1>3, <1>4, <1>9, RunAsks
<1>10. CASE AddDep \/ Parsed \/ AllDone \/ StopInLoop \/ StopInRun \/ StopAfterRun
  BY Zenon, <1>2, <1>3, <1>4, <1>10, MainAsks
<1>11. CASE Deliver \/ Signal \/ UNCHANGED makeVars
  BY Zenon, <1>3, <1>4, <1>11, IdleAsks
<1> QED BY Zenon, <1>5, <1>6, <1>7, <1>8, <1>9, <1>10, <1>11 DEF Next, Step

(* Under -q make runs nothing and exits with 1 exactly when something asked for  *)
(* is out of date and has a command to run or no way to be made: the answer of    *)
(* the recursive walk, which compares stamps along the calls of rebuild(), is     *)
(* the one the graph of prerequisites and the files give.  For every makefile,    *)
(* with or without -k, -i and -n, and whatever signals arrive.                 *)
THEOREM QuestionAnswered == Spec => []QuestionHonest
<1>1. Init => AskInv
  <2> SUFFICES ASSUME Init PROVE AskInv
    BY Zenon
  <2>1. /\ pc = "parse" /\ stack = <<>> /\ goals = mk.goals /\ status = "run"
        /\ exitstatus = 0 /\ child = NoChild
    BY ZenonT(30) DEF Init
  <2>2. \A x \in Target : file[x] >= -1
    <3>1. file \in [Target -> -1 .. StartClock]
      BY Zenon DEF Init
    <3> QED BY <3>1, MakeAssumption
  <2>3. OnlyAsks
    <3>1. child.st # "run" /\ 1 .. Len(stack) = {} /\ exitstatus # 1
      BY Zenon, <2>1, NoPositions DEF NoChild
    <3> QED BY Zenon, <2>1, <2>2, <3>1 DEF OnlyAsks, InRun
  <2>4. AnsweredBy({})
    <3>1. 1 .. Len(stack) = {}
      BY Zenon, <2>1, NoPositions
    <3> QED BY Zenon, <2>1, <3>1 DEF AnsweredBy, Closed, GoalsDone
  <2> QED BY Zenon, <2>3, <2>4 DEF AskInv
<1>2. MakeInv /\ AskInv /\ [Next]_makeVars => AskInv'
  BY Zenon, NextAskInv
<1>3. ASSUME MakeInv, AskInv PROVE QuestionHonest
  <2>1. SUFFICES ASSUME status = "exit", Flag("q"), ~Flag("t")
                 PROVE  exitstatus = 1 <=> \E t \in Asked : OutOfDate(t) /\ Acts(t)
    BY Zenon DEF QuestionHonest
  <2>2. OnlyAsks
    BY Zenon, <1>3, <2>1 DEF AskInv
  <2>3. PICK D \in SUBSET Target : AnsweredBy(D)
    BY Zenon, <1>3, <2>1 DEF AskInv
  <2>4. ASSUME exitstatus # 1, NEW t \in Asked, OutOfDate(t), Acts(t) PROVE FALSE
    <3>1. exitstatus = 0
      BY Zenon, <1>3, <2>4 DEF MakeInv, MakeTypeOK
    <3>2. SeqElems(mk.goals) \subseteq D
      <4>1. goals = <<>> /\ stack = <<>>
        BY Zenon, <2>1, <2>3, <3>1 DEF AnsweredBy, GoalsDone
      <4>2. SeqElems(goals) = {}
        BY Zenon, <4>1, NoPositions DEF SeqElems
      <4> QED BY Zenon, <2>3, <3>1, <4>1, <4>2 DEF AnsweredBy, GoalsDone
    <3>3. Asked \subseteq D
      BY Zenon, <1>3, <2>3, <3>2, AskedClosed DEF AnsweredBy, MakeInv
    <3> QED BY Zenon, <2>3, <2>4, <3>1, <3>3 DEF AnsweredBy
  <2> QED BY Zenon, <2>2, <2>4 DEF OnlyAsks
<1> QED BY <1>1, <1>2, <1>3, MakeInvariant, PTL DEF Spec

=============================================================================
