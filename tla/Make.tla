-------------------------------- MODULE Make --------------------------------
(***************************************************************************)
(* make (cmd/posix/make): rules.c builds the dependency graph and walks it,   *)
(* posix.c runs the recipes, main.c has the goals and the signal handler.     *)
(*                                                                          *)
(* A makefile is a record: the prerequisites in the order they are read, how  *)
(* many lines each recipe has, the inference rules in the order of .SUFFIXES  *)
(* and the file each of them would build a target from.  What a recipe does   *)
(* is left to it: a line may succeed or fail, write its target or not, but a   *)
(* recipe that succeeds has written it.  A signal may arrive between any two  *)
(* steps.  Line prefixes, .SILENT and .IGNORE are left out.                   *)
(***************************************************************************)
EXTENDS Integers, Sequences, FiniteSets

CONSTANTS
  Target,       \* the names: files, phony targets, inference rules, .DEFAULT
  Default,      \* .DEFAULT
  None,
  Invocations,  \* makefiles with the options make is called with
  StartClock,   \* no file is newer than make's start
  MaxClock, MaxSignals

Makefiles == {v[1] : v \in Invocations}

ASSUME MakeAssumption ==
  /\ Default \in Target /\ None \notin Target
  /\ StartClock \in Nat /\ MaxClock \in Nat /\ MaxSignals \in Nat
  /\ \A m \in Makefiles :
       /\ m.edges \in Seq(Target \X Target)
       /\ m.lines \in [Target -> Nat]
       /\ m.defined \subseteq Target
       /\ m.phony \subseteq Target /\ m.precious \subseteq Target
       /\ m.suffixes \in Seq(Target \ {Default})
       /\ m.source \in [Target -> [Target -> Target \cup {None}]]
       /\ m.files \subseteq Target
       /\ m.goals \in Seq(Target)

VARIABLES
  mk, flags,        \* the makefile and the options: never change
  edges, deps,      \* what parse() has still to read; tp->deps
  goals, stack,     \* targets of main(); the activations of rebuild()
  pc, rule, line,   \* run(): the Target whose actions it runs, the next action
  ret,              \* what launch() or run() has returned
  stamp, bind,      \* tp->stamp, tp->target
  exitstatus, status,
  stop, pend, signals,   \* stop; a signal held back by the mask; how many
  child,            \* the process launch() has forked
  file, torn, clock,  \* mtimes (-1: no file); half-written files
  bad, made, failed, lost   \* history

walk == <<edges, deps, goals, stack, stamp>>
running == <<pc, rule, line, ret, bind>>
signalVars == <<stop, pend, signals>>
disk == <<file, torn, clock>>
history == <<bad, made, failed, lost>>
makeVars == <<mk, flags, walk, running, exitstatus, status, signalVars,
              child, disk, history>>

NoChild == [st |-> "none", target |-> None, last |-> FALSE, code |-> 0]

Init ==
  /\ \E v \in Invocations : mk = v[1] /\ flags = v[2]
  /\ edges = mk.edges /\ deps = [t \in Target |-> <<>>]
  /\ goals = mk.goals /\ stack = <<>>
  /\ pc = "parse" /\ rule = None /\ line = 1 /\ ret = 0
  /\ stamp = [t \in Target |-> -1] /\ bind = [t \in Target |-> t]
  /\ exitstatus = 0 /\ status = "run"
  /\ stop = FALSE /\ pend = FALSE /\ signals = 0
  /\ child = NoChild
  /\ file \in [Target -> -1 .. StartClock]
  /\ \A t \in Target \ mk.files : file[t] = -1
  /\ torn = {} /\ clock = StartClock
  /\ bad = {} /\ made = {} /\ failed = {} /\ lost = FALSE

Flag(c) == c \in flags

SeqElems(s) == {s[n] : n \in DOMAIN s}

HasActions(t) == mk.lines[t] > 0

(* The times at which a write may happen                                     *)
Now == {c \in {clock, clock + 1} : c <= MaxClock}

-----------------------------------------------------------------------------
(* Reading the makefile.                                                     *)

depends(t, d) == d \in SeqElems(deps[t])

adddep(t, d) ==
  IF depends(d, t) \/ depends(t, d)
    THEN deps
    ELSE [deps EXCEPT ![t] = Append(@, d)]

AddDep ==
  /\ pc = "parse" /\ edges # <<>>
  /\ deps' = adddep(Head(edges)[1], Head(edges)[2])
  /\ edges' = Tail(edges)
  /\ UNCHANGED <<mk, flags, goals, stack, stamp, running, exitstatus, status,
                 signalVars, child, disk, history>>

Parsed ==
  /\ pc = "parse" /\ edges = <<>>
  /\ pc' = "main"
  /\ UNCHANGED <<mk, flags, walk, rule, line, ret, bind, exitstatus, status,
                 signalVars, child, disk, history>>

-----------------------------------------------------------------------------
(* rebuild()                                                                 *)

Top == stack[Len(stack)]

Frame(t) == [t |-> t, i |-> 1, need |-> FALSE, err |-> FALSE]

Stamped(t) ==
  [stamp EXCEPT ![t] = IF t \in mk.phony THEN -1 ELSE file[t]]

Enter(t) ==
  /\ stack' = Append(stack, Frame(t))
  /\ stamp' = Stamped(t)

exit(code) ==
  /\ pc' = "over" /\ status' = "exit" /\ exitstatus' = code

(* cleanup(): remove() and raise().  No target is a directory here.          *)
Removable(t) == t \notin mk.precious /\ ~Flag("n") /\ ~Flag("q")

cleanup(t) ==
  /\ file' = IF Removable(t) THEN [file EXCEPT ![t] = -1] ELSE file
  /\ torn' = IF Removable(t) THEN torn \ {t} ELSE torn
  /\ pc' = "over" /\ status' = "killed"
  /\ UNCHANGED <<mk, flags, walk, rule, line, ret, bind, exitstatus,
                 signalVars, child, clock, history>>

(* main(): the next goal, or exit(exitstatus)                                *)
Goal ==
  /\ pc = "main" /\ goals # <<>>
  /\ Enter(Head(goals))
  /\ goals' = Tail(goals)
  /\ pc' = "rebuild"
  /\ UNCHANGED <<mk, flags, edges, deps, rule, line, ret, bind, exitstatus,
                 status, signalVars, child, disk, history>>

AllDone ==
  /\ pc = "main" /\ goals = <<>>
  /\ exit(exitstatus)
  /\ UNCHANGED <<mk, flags, walk, rule, line, ret, bind, signalVars, child,
                 disk, history>>

InLoop == pc = "rebuild" /\ Top.i <= Len(deps[Top.t])

AfterLoop == pc = "rebuild" /\ Top.i > Len(deps[Top.t])

VisitDep ==
  /\ InLoop /\ ~stop
  /\ Enter(deps[Top.t][Top.i])
  /\ UNCHANGED <<mk, flags, edges, deps, goals, running, exitstatus, status,
                 signalVars, child, disk, history>>

StopInLoop == InLoop /\ stop /\ cleanup(Top.t)

Mut_FirstErrorLost(f, t, r, built) ==
  [t |-> f.t, i |-> f.i + 1, err |-> r # 0,
   need |-> f.need \/ (r = 0 /\ (built \/ stamp[t] > stamp[f.t]))]

Mut_BuiltOnly(f, t, r, built) ==
  [t |-> f.t, i |-> f.i + 1, err |-> f.err \/ r # 0,
   need |-> f.need \/ (r = 0 /\ built)]

Mut_SameAge(f, t, r, built) ==
  [t |-> f.t, i |-> f.i + 1, err |-> f.err \/ r # 0,
   need |-> f.need \/ (r = 0 /\ (built \/ stamp[t] >= stamp[f.t]))]

(* The return of rebuild(): the caller's loop takes r, build and q->stamp    *)
Returned(f, t, r, built) ==
  [t |-> f.t, i |-> f.i + 1, err |-> f.err \/ r # 0,
   need |-> f.need \/ (r = 0 /\ (built \/ stamp[t] > stamp[f.t]))]

Return(r, built) ==
  LET n == Len(stack) IN
  /\ stack' = IF n = 1 THEN <<>>
              ELSE [k \in 1 .. n - 1 |->
                      IF k = n - 1 THEN Returned(stack[k], Top.t, r, built)
                                   ELSE stack[k]]
  /\ pc' = IF n = 1 THEN "main" ELSE "rebuild"
  /\ bad' = IF r = 0 THEN bad \ {Top.t} ELSE bad \cup {Top.t}
  /\ UNCHANGED <<edges, deps, goals, stamp>>

(* inference(): the first rule of .SUFFIXES whose source exists and, unless   *)
(* forced, is newer                                                          *)
Usable(t, force) ==
  {n \in DOMAIN mk.suffixes :
     LET r == mk.suffixes[n]  s == mk.source[r][t] IN
     /\ HasActions(r) /\ s # None
     /\ file[s] # -1
     /\ force \/ file[s] > stamp[t]}

(* The least of a set of positions (any set of them but {} has one)          *)
First(U) ==
  CHOOSE n \in U : (\E m \in U : \A k \in U : m <= k) => \A k \in U : n <= k

inference(t, force) ==
  IF Usable(t, force) = {} THEN None ELSE mk.suffixes[First(Usable(t, force))]

Bound(b, r, t) == IF r = None THEN b ELSE [b EXCEPT ![r] = t]

Mut_NoInference(t) == None

(* def: a target that lists itself and has actions looks no rule up          *)
Newer(t) ==
  IF stamp[t] = -1 \/ (depends(t, t) /\ HasActions(t)) THEN None
  ELSE inference(t, FALSE)

Need(f) == f.need \/ stamp[f.t] = -1 \/ Newer(f.t) # None

NotRemade ==
  /\ AfterLoop /\ Top.err
  /\ bind' = Bound(bind, Newer(Top.t), Top.t)
  /\ Return(1, FALSE)
  /\ UNCHANGED <<mk, flags, rule, line, ret, exitstatus, status, signalVars,
                 child, disk, made, failed, lost>>

NotNeeded ==
  /\ AfterLoop /\ ~Top.err /\ ~Need(Top)
  /\ Return(0, FALSE)
  /\ UNCHANGED <<mk, flags, rule, line, ret, bind, exitstatus, status,
                 signalVars, child, disk, made, failed, lost>>

(* update(): the Target whose actions are run                                *)
RuleFor(t) ==
  IF HasActions(t) THEN t
  ELSE IF inference(t, TRUE) # None THEN inference(t, TRUE)
  ELSE IF Default \in mk.defined THEN Default
  ELSE None

Updating == AfterLoop /\ ~Top.err /\ Need(Top)

BoundFor(t) ==
  LET b == Bound(bind, Newer(t), t) IN
  IF HasActions(t) THEN b ELSE Bound(b, inference(t, TRUE), t)

NoRule ==
  /\ Updating /\ RuleFor(Top.t) = None
  /\ bind' = BoundFor(Top.t)
  /\ IF Top.t \in mk.defined
       THEN Return(0, TRUE) /\ UNCHANGED <<exitstatus, status>>
       ELSE exit(1) /\ UNCHANGED <<walk, bad>>
  /\ UNCHANGED <<mk, flags, rule, line, ret, signalVars, child, disk, made,
                 failed, lost>>

StartRun ==
  /\ Updating /\ RuleFor(Top.t) # None
  /\ bind' = BoundFor(Top.t)
  /\ rule' = RuleFor(Top.t) /\ line' = 1
  /\ pc' = IF Flag("t") THEN "touchdeps" ELSE "run"
  /\ UNCHANGED <<mk, flags, walk, ret, exitstatus, status, signalVars, child,
                 disk, history>>

-----------------------------------------------------------------------------
(* run()                                                                     *)

(* touchdeps(): tp->req and tp->deps, up to one that cannot be touched       *)
Touched(r) ==
  LET t == bind[r]
      req == IF r \in SeqElems(mk.suffixes) THEN <<mk.source[r][t]>> ELSE <<>>
  IN  req \o deps[t]

TouchDeps ==
  /\ pc = "touchdeps"
  /\ \E n \in 0 .. Len(Touched(rule)), c \in Now :
       LET done == {Touched(rule)[k] : k \in 1 .. n} IN
       /\ file' = [t \in Target |-> IF t \in done THEN c ELSE file[t]]
       /\ clock' = c
       /\ IF n = Len(Touched(rule)) \/ Flag("i")
            THEN pc' = "run" /\ ret' = ret
            ELSE pc' = "ret" /\ ret' = 1
  /\ UNCHANGED <<mk, flags, walk, rule, line, bind, exitstatus, status,
                 signalVars, child, torn, history>>

(* execline() runs nothing under -t, -n and -q                               *)
Dry == flags \cap {"t", "n", "q"} # {}

StopInRun ==
  /\ pc = "run" /\ line <= mk.lines[rule] /\ stop
  /\ cleanup(rule)

DryLine ==
  /\ pc = "run" /\ line <= mk.lines[rule] /\ ~stop /\ Dry
  /\ line' = line + 1
  /\ exitstatus' = IF Flag("q") /\ ~Flag("t") THEN 1 ELSE exitstatus
  /\ UNCHANGED <<mk, flags, walk, pc, rule, ret, bind, status, signalVars,
                 child, disk, history>>

RunLine ==
  /\ pc = "run" /\ line <= mk.lines[rule] /\ ~stop /\ ~Dry
  /\ pc' = "launch"
  /\ UNCHANGED <<mk, flags, walk, rule, line, ret, bind, exitstatus, status,
                 signalVars, child, disk, history>>

(* touch(tp->target)                                                         *)
RunDone ==
  /\ pc = "run" /\ line > mk.lines[rule]
  /\ pc' = "ret"
  /\ IF Flag("t")
       THEN \E ok \in BOOLEAN, c \in Now :
              /\ file' = IF ok THEN [file EXCEPT ![bind[rule]] = c] ELSE file
              /\ clock' = c
              /\ ret' = IF ok \/ Flag("i") THEN 0 ELSE 1
       ELSE ret' = 0 /\ UNCHANGED <<file, clock>>
  /\ UNCHANGED <<mk, flags, walk, rule, line, bind, exitstatus, status,
                 signalVars, child, torn, history>>

(* What rebuild() does with update()'s result                                *)
Succeeded ==
  /\ pc = "ret" /\ ret = 0
  /\ Return(0, TRUE)
  /\ made' = IF Dry THEN made ELSE made \cup {Top.t}
  /\ UNCHANGED <<mk, flags, rule, line, ret, bind, exitstatus, status,
                 signalVars, child, disk, failed, lost>>

Mut_KeepTorn ==
  /\ pc = "ret" /\ ret # 0 /\ stop
  /\ pc' = "over" /\ status' = "killed"
  /\ UNCHANGED <<mk, flags, walk, rule, line, ret, bind, exitstatus, signalVars,
                 child, disk, history>>

StopAfterRun == pc = "ret" /\ ret # 0 /\ stop /\ cleanup(Top.t)

Failed ==
  /\ pc = "ret" /\ ret # 0 /\ ~stop
  /\ failed' = failed \cup {Top.t}
  /\ IF Flag("k")
       THEN exitstatus' = 1 /\ Return(ret, TRUE) /\ UNCHANGED status
       ELSE exit(1) /\ UNCHANGED <<walk, bad>>
  /\ UNCHANGED <<mk, flags, rule, line, ret, bind, signalVars, child, disk,
                 made, lost>>

-----------------------------------------------------------------------------
(* launch(): no signal is taken while pc is "masked"                         *)

Mut_SameLine(r) ==
  IF r = 0 THEN pc' = "run" /\ line' = line + 1 /\ ret' = ret
  ELSE IF Flag("i") THEN pc' = "run" /\ line' = line /\ ret' = ret
  ELSE pc' = "ret" /\ line' = line /\ ret' = r

LineReturns(r) ==
  IF r = 0 \/ Flag("i")
    THEN pc' = "run" /\ line' = line + 1 /\ ret' = ret
    ELSE pc' = "ret" /\ line' = line /\ ret' = r

launched == <<mk, flags, walk, rule, bind, exitstatus, status, disk,
              bad, made, failed>>

Block ==
  /\ pc = "launch"
  /\ pc' = "masked"
  /\ UNCHANGED <<launched, line, ret, signalVars, child, lost>>

Mut_Unchecked ==
  /\ pc = "masked"
  /\ pc' = "forked"
  /\ child' = [st |-> "run", target |-> bind[rule],
               last |-> line = mk.lines[rule], code |-> 0]
  /\ UNCHANGED <<launched, line, ret, signalVars, lost>>

Fork ==
  /\ pc = "masked" /\ ~stop
  /\ pc' = "forked"
  /\ child' = [st |-> "run", target |-> bind[rule],
               last |-> line = mk.lines[rule], code |-> 0]
  /\ UNCHANGED <<launched, line, ret, signalVars, lost>>

NotForked ==
  /\ pc = "masked"     \* stop, or fork() fails
  /\ LineReturns(-1)
  /\ UNCHANGED <<launched, signalVars, child, lost>>

Wait ==
  /\ pc = "forked"
  /\ pc' = "wait"
  /\ UNCHANGED <<launched, line, ret, signalVars, child, lost>>

Reap ==
  /\ pc = "wait" /\ child.st = "exited"
  /\ LineReturns(child.code)
  /\ child' = NoChild
  /\ UNCHANGED <<launched, signalVars, lost>>

-----------------------------------------------------------------------------
(* The environment.                                                          *)

(* A line of a recipe ends.  The last one leaves the target whole; any other,  *)
(* or one that fails, may leave it half written.  The actions of .DEFAULT do   *)
(* not learn the name of the target: $@ is .DEFAULT.                         *)
ChildEnd ==
  /\ child.st = "run"
  /\ \E ok \in BOOLEAN, wrote \in BOOLEAN, c \in Now :
       LET t == child.target
           whole == ok /\ child.last
           writes == t \notin mk.phony \cup {Default} /\ (whole \/ wrote)
       IN /\ child' = [child EXCEPT !.st = "exited", !.code = IF ok THEN 0 ELSE 1]
          /\ clock' = c
          /\ file' = IF writes THEN [file EXCEPT ![t] = c] ELSE file
          /\ torn' = IF ~writes THEN torn
                     ELSE IF whole THEN torn \ {t} ELSE torn \cup {t}
  /\ UNCHANGED <<mk, flags, walk, running, exitstatus, status, signalVars,
                 history>>

(* sighandler().  A signal that finds make inside wait() with the child still  *)
(* running ends it with EINTR: launch() then returns a status nothing has set, *)
(* and nobody waits for the child any more.  killchild() sends it SIGTERM,      *)
(* which a recipe may ignore or be too late for: it ends when and how it likes. *)
Interrupted ==
  IF pc = "wait" /\ child.st = "run"
    THEN (\E r \in {0, 1} : LineReturns(r)) /\ lost' = TRUE
    ELSE UNCHANGED <<pc, line, ret, lost>>

Signal ==
  /\ status = "run" /\ signals < MaxSignals
  /\ signals' = signals + 1
  /\ IF pc = "masked"
       THEN pend' = TRUE /\ UNCHANGED <<stop, pc, line, ret, lost>>
       ELSE stop' = TRUE /\ UNCHANGED pend /\ Interrupted
  /\ UNCHANGED <<launched, child>>

(* The mask is lifted: what it held back is delivered first                  *)
Deliver ==
  /\ pend /\ pc # "masked"
  /\ stop' = TRUE /\ pend' = FALSE
  /\ UNCHANGED <<launched, pc, line, ret, signals, child, lost>>

Step ==
  /\ pend => pc = "masked"
  /\ \/ AddDep \/ Parsed \/ Goal \/ AllDone
     \/ VisitDep \/ StopInLoop \/ NotRemade \/ NotNeeded \/ NoRule \/ StartRun
     \/ TouchDeps \/ StopInRun \/ DryLine \/ RunLine \/ RunDone
     \/ Succeeded \/ StopAfterRun \/ Failed
     \/ Block \/ Fork \/ NotForked \/ Wait \/ Reap

Next == Step \/ Deliver \/ ChildEnd \/ Signal

Spec == Init /\ [][Next]_makeVars

(* make runs whenever it can, and a recipe ends                              *)
FairSpec == Spec /\ WF_makeVars(Step) /\ WF_makeVars(Deliver) /\ WF_makeVars(ChildEnd)

-----------------------------------------------------------------------------
(* The inductive invariant.                                                  *)

Frames == [t : Target, i : Nat \ {0}, need : BOOLEAN, err : BOOLEAN]

Children == [st : {"run", "exited"}, target : Target, last : BOOLEAN,
             code : {0, 1}]

InRun == {"touchdeps", "run", "launch", "masked", "forked", "wait", "ret"}

MakeTypeOK ==
  /\ mk \in Makefiles
  /\ edges \in Seq(Target \X Target) /\ deps \in [Target -> Seq(Target)]
  /\ goals \in Seq(Target) /\ stack \in Seq(Frames)
  /\ pc \in {"parse", "main", "rebuild", "over"} \cup InRun
  /\ rule \in Target \cup {None} /\ line \in Nat /\ ret \in Int
  /\ stamp \in [Target -> Int] /\ bind \in [Target -> Target]
  /\ exitstatus \in {0, 1} /\ status \in {"run", "exit", "killed"}
  /\ stop \in BOOLEAN /\ pend \in BOOLEAN /\ signals \in Nat
  /\ child \in {NoChild} \cup Children
  /\ file \in [Target -> Int] /\ clock \in Int
  /\ torn \subseteq Target
  /\ bad \subseteq Target /\ made \subseteq Target /\ failed \subseteq Target
  /\ lost \in BOOLEAN

(* Where the activations of rebuild() and the control point agree            *)
Placed ==
  /\ pc \in {"parse", "main"} => stack = <<>>
  /\ pc \in {"rebuild"} \cup InRun => stack # <<>>
  /\ pc \in InRun => ~Top.err /\ Top.i > Len(deps[Top.t]) /\ rule \in Target
  /\ pc = "over" <=> status # "run"

(* Every activation was called from the loop of the one below                *)
Chain ==
  \A k \in 1 .. Len(stack) - 1 :
    /\ stack[k].i <= Len(deps[stack[k].t])
    /\ stack[k + 1].t = deps[stack[k].t][stack[k].i]

(* A prerequisite seen and failed since shows as err at its caller or above    *)
BadSeen ==
  \A k \in 1 .. Len(stack) :
    \A n \in 1 .. Len(deps[stack[k].t]) :
      n < stack[k].i /\ deps[stack[k].t][n] \in bad =>
        \E m \in k .. Len(stack) : stack[m].err

ErrTold ==
  bad # {} \/ (\E k \in 1 .. Len(stack) : stack[k].err) => exitstatus = 1

(* The types, and what the walk keeps true between its steps: where rebuild()   *)
(* stands in each activation and which errors it knows of.                    *)
MakeInv == MakeTypeOK /\ Placed /\ Chain /\ BadSeen /\ ErrTold

-----------------------------------------------------------------------------
(* What make promises.                                                       *)

Forks == child.st # "run" /\ child'.st = "run"

(* t and what it depends on, directly or not: the least such set              *)
Closed == {S \in SUBSET Target : \A x \in S : SeqElems(deps[x]) \subseteq S}

Reach(t) == {x \in Target : \A S \in Closed : t \in S => x \in S}

Asked == UNION {Reach(g) : g \in SeqElems(mk.goals)}

(* A target that a successful run of its recipe brings up to date: nothing it  *)
(* depends on is phony or without both a recipe and a file                    *)
Ruled(t) == HasActions(t) \/ inference(t, TRUE) # None

Settled(t) ==
  \A x \in Reach(t) :
    /\ x \notin mk.phony
    /\ Ruled(x) \/ (deps[x] = <<>> /\ file[x] # -1)

Fresh(t) ==
  /\ file[t] # -1
  /\ \A d \in SeqElems(deps[t]) : file[d] <= file[t]
  /\ \A n \in Usable(t, TRUE) : file[mk.source[mk.suffixes[n]][t]] <= file[t]

(* When make exits with 0 (and no option keeps it from building or has it      *)
(* ignore errors), every such target exists, is whole, and is not older than    *)
(* any prerequisite, although rebuild() visits a shared prerequisite once per   *)
(* dependent and remembers nothing.  Not so when a signal cut wait() short:     *)
(* the status it never stored may be 0.                                      *)
UpToDate ==
  status = "exit" /\ exitstatus = 0 /\ ~lost /\ ~Dry /\ ~Flag("i") =>
    \A t \in Asked : Settled(t) => Fresh(t) /\ t \notin torn

(* A target whose recipe has succeeded is not made again in the same           *)
(* invocation, however many targets depend on it.                            *)
RunsOnce ==
  [][Forks /\ ~Flag("i") /\ Top.t \in made => ~Settled(Top.t)]_makeVars

(* Out of date: a target, or something it depends on, is missing or phony, or is *)
(* older than a prerequisite or than a source it could be inferred from        *)
StampOf(t) == IF t \in mk.phony THEN -1 ELSE file[t]

Older(t) ==
  \/ StampOf(t) = -1
  \/ \E n \in DOMAIN mk.suffixes :
       LET s == mk.source[mk.suffixes[n]][t] IN
       HasActions(mk.suffixes[n]) /\ s # None /\ file[s] > StampOf(t)
  \/ \E d \in SeqElems(deps[t]) : StampOf(d) > StampOf(t)

OutOfDate(t) == \E x \in Reach(t) : Older(x)

Acts(t) ==
  IF RuleFor(t) = None THEN t \notin mk.defined ELSE mk.lines[RuleFor(t)] > 0

(* -q: what the recursive walk answers is what the definition of out of date    *)
(* says, and it answers 1 only where a command would run or make would stop.    *)
QuestionHonest ==
  status = "exit" /\ Flag("q") /\ ~Flag("t") =>
    (exitstatus = 1 <=> \E t \in Asked : OutOfDate(t) /\ Acts(t))

(* No recipe line is started after a signal has arrived, unless it came while    *)
(* launch() held it back: run() looks at stop before the line, and launch()    *)
(* again with the signals blocked, so that none slips in between.             *)
Noticed == signals > 0 => stop \/ pend

NoForkAfterSignal == [][Forks => signals = 0 \/ pend]_makeVars

(* Under -k no recipe starts while a prerequisite of its target has failed, not *)
(* even one that had succeeded when the target first looked at it.            *)
NotMadeAfterError ==
  [][Forks => SeqElems(deps[Top.t]) \cap bad = {}]_makeVars

(* A target that could not be remade makes the exit status 1, also when the     *)
(* error was met several levels below a goal.                                *)
ExitHonest == status = "exit" /\ bad # {} => exitstatus = 1

(* The step in which make dies of a signal, whatever it was doing when the      *)
(* signal came, leaves no half-written target of a rule of its own, but       *)
(*  - one that .PRECIOUS names, or whose recipe had failed before (under -k);  *)
(*  - one that rebuild() took for made: because -i has the failure ignored, or  *)
(*    because wait() was cut short (EINTR) in its last line and the status that *)
(*    launch() returns without wait() having stored one happens to be 0.       *)
(* A status other than 0, or a line left to run, and the target is removed, as   *)
(* far as it is written by then: a recipe that outlives make may write it       *)
(* again.  A target made by an inference rule is left, as cleanup() removes      *)
(* tp->name, the rule.  Nothing .PRECIOUS names is removed, and nothing under    *)
(* -n or -q.                                                                *)
InterruptedRemoved ==
  [][status = "run" /\ status' = "killed" =>
       /\ \A t \in torn' :
            \/ t \in mk.precious \cup failed
            \/ ~HasActions(t)
            \/ t \in made /\ (Flag("i") \/ t = child.target)
       /\ \A t \in Target : file'[t] # file[t] =>
            t \notin mk.precious /\ flags \cap {"n", "q"} = {}]_makeVars

(* -t: make changes the time of targets of the makefile only, as main.c says of it *)
(* ("touch targets instead of rebuilding them").                              *)
TouchesTargetsOnly ==
  [][Flag("t") => \A t \in Target : file'[t] # file[t] => t \in mk.defined]_makeVars

(* rebuild() is never called for a target it is at work on: adddep() has dropped *)
(* the edges that make circles ("circular dependency %s <- %s dropped").  It   *)
(* looks for a circle of two only, so a longer one is followed without end.    *)
WalkAcyclic ==
  \A j, k \in 1 .. Len(stack) : j # k => stack[j].t # stack[k].t

(* Every invocation ends, by exit or by the signal, in makefiles whose only      *)
(* circles are those adddep() drops.                                         *)
MakeEnds == <>(status # "run")

=============================================================================
