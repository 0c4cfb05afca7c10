------------------------------- MODULE ShJobs -------------------------------
(***************************************************************************)
(* The job table of sh (src/cmd/posix/sh/jobs.c) with the signal flags of  *)
(* trap.c: every way a job is made, waited for, remembered, stopped,       *)
(* restarted and freed, the callers of dowait(), and the traps that run    *)
(* between commands or, under "set -T", in the middle of a wait.           *)
(*                                                                         *)
(* The script is the environment: between two commands it may run any      *)
(* command that reaches the job table.  Children exit with an arbitrary    *)
(* status, and in an interactive shell they may stop.  A pid is the number *)
(* of the fork that made it (pids are not reused); a status is "ok" (0) or *)
(* "bad" (anything else), and "run" stands for the -1 of a process that    *)
(* has not been waited for.  There is one trapped signal, and SIGQUIT      *)
(* without a trap, which the shell catches as well.                        *)
(***************************************************************************)
EXTENDS Integers, Sequences, FiniteSets

CONSTANTS
    Modes,     \* the shells: options i, T and pipefail, and for each a bound on
               \* its forks, the signals sent to it and the stops of its children
    NSlots,    \* slots of jobtab (the code grows the table by 4 when full)
    MaxForks   \* the largest bound on forks

ASSUME ShJobsAssumption ==
    /\ NSlots \in Nat \ {0}
    /\ MaxForks \in Nat
    /\ Modes \subseteq [i : BOOLEAN, T : BOOLEAN, pipefail : BOOLEAN,
                        forks : 0..MaxForks, signals : Nat, stops : Nat]

VARIABLES
    mode,                \* the options of this shell
    jobtab, jobmru,      \* the jobs, and their slots, most recently used first
    bgjob,               \* the slot of the last background job, 0 for NULL
    cur,                 \* what the shell is doing: the command and how far it is
    saved,               \* the frames that running traps have interrupted, newest first
    procs,               \* the kernel's children, by pid
    stops,               \* stops used so far
    chld, held,          \* SIGCHLD and other signals pending while blocked
    nsig,                \* signals sent so far
    gotsig, pendingsig,  \* of the trapped signal, "T"
    pendingsig_waitcmd,  \* "none", "T" or "QUIT"
    ret,                 \* what the last wait returned, and for which processes
    owed,                \* pids the script has read from $! and not waited for
    latest               \* the pid of $!, 0 if there is none or it was waited for

tabVars == <<jobtab, jobmru, bgjob>>
scriptVars == <<owed, latest>>
shellVars == <<mode, tabVars, cur, saved, ret, scriptVars>>
kernelVars == <<procs, stops>>
flagVars == <<gotsig, pendingsig, pendingsig_waitcmd>>
sigVars == <<chld, held, nsig, flagVars>>
shVars == <<shellVars, kernelVars, sigVars>>

Slot == 1..NSlots
Pid == 1..MaxForks
Final == {"ok", "bad"}
Alive == {"run", "stop"}
Proc == [pid : Pid, st : Alive \cup Final]
Job == [used : BOOLEAN, ps : Seq(Proc), state : {"run", "stopped", "done"},
        changed : BOOLEAN, foreground : BOOLEAN, remembered : BOOLEAN]

Used == {s \in Slot : jobtab[s].used}
PidsOf(ps) == [k \in DOMAIN ps |-> ps[k].pid]
Pids(s) == PidsOf(jobtab[s].ps)
LastPid(s) == Pids(s)[Len(Pids(s))]

-----------------------------------------------------------------------------
(* The job table.                                                          *)

(* An entry as makejob leaves it, and one that is not in use.              *)
NewJob == [used |-> TRUE, ps |-> <<>>, state |-> "run", changed |-> FALSE,
           foreground |-> FALSE, remembered |-> FALSE]
NoJob == [NewJob EXCEPT !.used = FALSE]

(* The list of recent jobs without those of S, in the order it had.        *)
Without(mru, S) ==
    LET keep    == {n \in DOMAIN mru : mru[n] \notin S}
        rank(n) == Cardinality({m \in keep : m <= n})
    IN  [k \in 1..Cardinality(keep) |-> mru[CHOOSE n \in keep : rank(n) = k]]

(* setcurjob and deljob keep the list of recent jobs.                      *)
setcurjob(mru, s) == <<s>> \o Without(mru, {s})
deljob(s) == jobmru' = Without(jobmru, {s})

(* The table tab after freejob of each slot of S.  What freejob leaves in  *)
(* an entry is of interest only under "set -T", where waitforjob may still *)
(* look at it; otherwise makejob is the next to touch it.                  *)
Freed(tab, S) == [s \in Slot |-> IF s \notin S THEN tab[s]
                                 ELSE IF mode.T THEN [tab[s] EXCEPT !.used = FALSE] ELSE NoJob]

(* MUTANT of Forget: a freed job stays on the list of recent jobs.         *)
Mut_StaysRecent(S) == bgjob' = (IF bgjob \in S THEN 0 ELSE bgjob) /\ UNCHANGED jobmru

(* The other effects of freejob: jobs S lose their places as recent and    *)
(* last background jobs.                                                   *)
Forget(S) ==
    /\ jobmru' = Without(jobmru, S)
    /\ bgjob' = IF bgjob \in S THEN 0 ELSE bgjob

(* MUTANT of StateOf: the last process decides.                            *)
Mut_LastDecides(ps) ==
    IF ps[Len(ps)].st = "run" THEN "run" ELSE IF ps[Len(ps)].st = "stop" THEN "stopped" ELSE "done"

(* The state dowait gives a job with these processes.                      *)
StateOf(ps) ==
    IF \E k \in DOMAIN ps : ps[k].st = "run" THEN "run"
    ELSE IF \E k \in DOMAIN ps : ps[k].st = "stop" THEN "stopped" ELSE "done"

(* MUTANT of getjobstatus: the first process that failed, or the first.    *)
Mut_FirstProcess(ps) == IF mode.pipefail /\ ps[1].st = "ok" THEN ps[Len(ps)].st ELSE ps[1].st

(* getjobstatus: the last process, or under pipefail the last one that did *)
(* not exit with 0.                                                        *)
getjobstatus(ps) ==
    LET failed == {k \in DOMAIN ps : ps[k].st # "ok"}
    IN  IF mode.pipefail /\ failed # {}
        THEN ps[CHOOSE k \in failed : \A l \in failed : l <= k].st
        ELSE ps[Len(ps)].st

(* What dowait(mode, job) does with an answer of wait3: status st ("run"   *)
(* for a continued process) of pid, which slot s holds.  Only s can change *)
(* state, as the other jobs already have the state of their processes.     *)
(* "changed" is kept only for an interactive shell, the only one to read   *)
(* it.                                                                     *)
Settle(s, pid, st, job) ==
    LET old   == jobtab[s]
        ps    == [k \in DOMAIN old.ps |->
                     IF old.ps[k].pid = pid /\ old.ps[k].st \in Alive
                     THEN [pid |-> pid, st |-> st] ELSE old.ps[k]]
        was   == IF st = "run" THEN "run" ELSE old.state
        now   == IF StateOf(ps) = "run" THEN was ELSE StateOf(ps)
        quiet == now = "run" \/ (s = job /\ old.foreground /\ now # "stopped")
        tab   == [jobtab EXCEPT ![s] = [old EXCEPT !.ps = ps, !.state = now,
                                          !.changed = @ \/ (mode.i /\ ~quiet)]]
        ended == now = "done" /\ was # "done" /\ s # job
    IN  IF ended /\ ~old.remembered /\ ~mode.i /\ s # bgjob
        THEN jobtab' = Freed(tab, {s}) /\ Forget({s})
        ELSE /\ jobtab' = tab
             /\ IF ended THEN deljob(s) ELSE UNCHANGED jobmru
             /\ UNCHANGED bgjob

-----------------------------------------------------------------------------
(* The children, and wait3().                                              *)

(* What wait3 can report: an exit, and in an interactive shell (WUNTRACED, *)
(* WCONTINUED) the last stop or continuation not reported yet.             *)
Waitable == {p \in DOMAIN procs : \/ procs[p].st = "zombie"
                                  \/ mode.i /\ procs[p].news # "none"}

(* The job of slot s holds p as a process not waited for.                  *)
Holds(s, p) ==
    /\ jobtab[s].used
    /\ \E k \in DOMAIN jobtab[s].ps : jobtab[s].ps[k].pid = p /\ jobtab[s].ps[k].st \in Alive
Holders(p) == {s \in Slot : Holds(s, p)}

Report(c) == IF c.st = "zombie" THEN c.code ELSE IF c.news = "stopped" THEN "stop" ELSE "run"

(* One successful wait3 and the rest of dowait.                            *)
Reap(job) ==
    \E p \in Waitable :
        /\ procs' = [procs EXCEPT ![p] = [st |-> IF @.st = "zombie" THEN "gone" ELSE @.st,
                                          code |-> @.code, news |-> "none"]]
        /\ IF Holders(p) = {} THEN UNCHANGED tabVars
           ELSE \E s \in Holders(p) : Settle(s, p, Report(procs[p]), job)
        /\ UNCHANGED stops

Masked == cur.pc \in {"poll", "susp"}

(* SIGCHLD: it wakes sigsuspend because dowait installs dummy_handler; with*)
(* nothing blocked it is ignored or handled at once, to no effect.         *)
ChildSignal == chld' = (chld \/ Masked)

ChildExits(p) ==
    /\ p \in DOMAIN procs /\ procs[p].st \in Alive
    /\ \E c \in Final :
           procs' = [procs EXCEPT ![p] = [st |-> "zombie", code |-> c, news |-> "none"]]
    /\ ChildSignal
    /\ UNCHANGED <<shellVars, stops, held, nsig, flagVars>>

ChildStops ==
    /\ mode.i /\ stops < mode.stops /\ stops' = stops + 1
    /\ \E p \in DOMAIN procs :
           /\ procs[p].st = "run"
           /\ procs' = [procs EXCEPT ![p] = [st |-> "stop", code |-> "ok", news |-> "stopped"]]
    /\ ChildSignal
    /\ UNCHANGED <<shellVars, held, nsig, flagVars>>

-----------------------------------------------------------------------------
(* Signals to the shell.                                                   *)

(* onsig(): SIGQUIT without a trap only breaks the wait builtin.           *)
onsig(x) ==
    /\ pendingsig_waitcmd' = x
    /\ gotsig' = (gotsig \/ x = "T")
    /\ pendingsig' = (pendingsig \/ x = "T")

Signal ==
    /\ nsig < mode.signals /\ cur.pc # "over" /\ nsig' = nsig + 1
    /\ \E x \in {"T", "QUIT"} : IF Masked THEN held' = held \cup {x} /\ UNCHANGED flagVars
                                ELSE onsig(x) /\ UNCHANGED held
    /\ UNCHANGED <<shellVars, kernelVars, chld>>

(* Blocked signals are handled as soon as the mask is lifted.              *)
Deliver ==
    /\ ~Masked
    /\ \E x \in held : onsig(x) /\ held' = held \ {x}
    /\ UNCHANGED <<shellVars, kernelVars, chld, nsig>>

-----------------------------------------------------------------------------
(* Commands.                                                               *)

NoRet == [kind |-> "none", asked |-> <<>>, val |-> "ok"]
Frame(pc, cmd, s, left, asked) ==
    [pc |-> pc, cmd |-> cmd, job |-> s, left |-> left, asked |-> asked]
At(pc) == [cur EXCEPT !.pc = pc]
After == Frame("check", "none", 0, 0, <<>>)

(* Between two commands.                                                   *)
Ready == cur.pc = "cmd" /\ cur.cmd # "error" /\ ret' = NoRet

(* A command with n processes, in the foreground or with "&": makejob in   *)
(* the first free slot; for a background job forkshell first reaps.  There  *)
(* are slots enough: that jobtab grows, and moves, is left out.             *)
StartJob ==
    /\ Ready
    /\ \E n \in 1..2, cmd \in {"fg", "bg"}, s \in Slot \ Used :
           /\ \A t \in Slot \ Used : s <= t
           /\ Len(procs) + n <= mode.forks
           /\ jobtab' = [jobtab EXCEPT ![s] = NewJob]
           /\ cur' = Frame(IF cmd = "bg" THEN "zombies" ELSE "fork", cmd, s, n, <<>>)
    /\ UNCHANGED <<mode, jobmru, bgjob, saved, scriptVars, kernelVars, sigVars>>

(* The parent's side of forkshell; after the last process evalpipe waits   *)
(* for a foreground job.  A background job replaces the last one as $!,    *)
(* which a script forgets if it is done and not remembered.                *)
Fork ==
    /\ cur.pc = "fork"
    /\ LET s    == cur.job
           pid  == Len(procs) + 1
           bgnd == cur.cmd = "bg"
           ps   == Append(jobtab[s].ps, [pid |-> pid, st |-> "run"])
           old  == {t \in {bgjob} : /\ bgnd /\ t # 0 /\ ~mode.i
                                    /\ jobtab[t].state = "done" /\ ~jobtab[t].remembered}
           done == IF cur.left > 1 THEN [cur EXCEPT !.left = @ - 1]
                   ELSE IF bgnd THEN After ELSE Frame("waitfor", "fg", s, 0, PidsOf(ps))
       IN  /\ procs' = Append(procs, [st |-> "run", code |-> "ok", news |-> "none"])
           /\ jobtab' = [Freed(jobtab, old) EXCEPT
                            ![s] = [jobtab[s] EXCEPT !.ps = ps, !.foreground = ~bgnd]]
           /\ jobmru' = setcurjob(Without(jobmru, old), s)
           /\ bgjob' = IF bgnd THEN s ELSE bgjob
           /\ latest' = IF bgnd THEN pid ELSE latest
           /\ cur' = done
    /\ UNCHANGED <<mode, saved, ret, owed, stops, sigVars>>

(* fork or pipe fails: error() leaves the job as it is.  An interactive    *)
(* shell goes back to cmdloop, which runs traps and then showjobs for the  *)
(* next prompt; any other shell exits.                                     *)
ForkFails ==
    /\ cur.pc = "fork"
    /\ cur' = IF mode.i THEN Frame("check", "error", 0, 0, <<>>) ELSE Frame("over", "none", 0, 0, <<>>)
    /\ saved' = <<>>
    /\ UNCHANGED <<mode, tabVars, ret, scriptVars, kernelVars, sigVars>>

(* $!: backgndpidval() marks the job so that its status is kept.           *)
DollarBang ==
    /\ Ready /\ bgjob # 0
    /\ jobtab' = [jobtab EXCEPT ![bgjob].remembered = TRUE]
    /\ owed' = owed \cup ({latest} \ {0})
    /\ cur' = After
    /\ UNCHANGED <<mode, jobmru, bgjob, saved, latest, kernelVars, sigVars>>

(* The jobs an operand of wait, fg or bg can name.                         *)
Named == {s \in Used : jobtab[s].ps # <<>>}

(* wait without operand, and wait for a job.  With several operands the    *)
(* loop goes from one to the next without a look at traps: left out.       *)
Wait ==
    /\ Ready
    /\ \/ cur' = Frame("waitcmd", "wait", 0, 0, <<>>)
       \/ \E s \in Named : cur' = Frame("waitcmd", "wait", s, 0, Pids(s))
    /\ UNCHANGED <<mode, tabVars, saved, scriptVars, kernelVars, sigVars>>

(* restartjob: SIGCONT to the process group, and stopped processes run;    *)
(* fgcmd and bgcmd then set foreground.                                    *)
restartjob(s, fg) ==
    LET old == jobtab[s]
        ps  == [k \in DOMAIN old.ps |->
                   IF old.ps[k].st = "stop" THEN [pid |-> old.ps[k].pid, st |-> "run"] ELSE old.ps[k]]
    IN  IF old.state = "done" THEN UNCHANGED <<jobtab, jobmru, procs>>
        ELSE /\ jobtab' = [jobtab EXCEPT ![s] = [old EXCEPT
                   !.ps = ps, !.foreground = fg, !.state = IF ps = old.ps THEN @ ELSE "run"]]
             /\ jobmru' = setcurjob(jobmru, s)
             /\ procs' = [p \in DOMAIN procs |->
                   IF procs[p].st = "stop" /\ \E k \in DOMAIN ps : ps[k].pid = p
                   THEN [st |-> "run", code |-> procs[p].code, news |-> "continued"] ELSE procs[p]]

(* fg and bg, which need job control.                                      *)
FgBg ==
    /\ Ready /\ mode.i
    /\ \E s \in Named, fg \in BOOLEAN :
           /\ restartjob(s, fg)
           /\ cur' = IF fg THEN Frame("waitfor", "fg", s, 0, Pids(s)) ELSE After
    /\ UNCHANGED <<mode, bgjob, saved, scriptVars, stops, sigVars>>

(* jobs, and the prompt of an interactive shell: showjobs().               *)
ShowJobs ==
    /\ cur.pc = "cmd" /\ ret' = NoRet
    /\ \/ cur.cmd # "error" /\ cur' = Frame("zombies", "jobs", 0, 0, <<>>)
       \/ mode.i /\ saved = <<>> /\ cur' = Frame("zombies", "prompt", 0, 0, <<>>)
    /\ UNCHANGED <<mode, tabVars, saved, scriptVars, kernelVars, sigVars>>

(* checkzombies(): dowait(0, NULL) until nothing is left to report.        *)
CheckZombies ==
    /\ cur.pc = "zombies"
    /\ \/ Reap(0) /\ UNCHANGED cur
       \/ /\ Waitable = {}
          /\ cur' = At(IF cur.cmd = "bg" THEN "fork" ELSE "show")
          /\ UNCHANGED <<tabVars, kernelVars>>
    /\ UNCHANGED <<mode, saved, ret, scriptVars, sigVars>>

(* The rest of showjobs: a job without processes is freed, one that is     *)
(* shown is no longer changed and, done and not remembered, freed.         *)
Show ==
    /\ cur.pc = "show"
    /\ LET shown == {s \in Named : cur.cmd = "jobs" \/ jobtab[s].changed}
           drop  == {s \in shown : /\ jobtab[s].state = "done" /\ ~jobtab[s].remembered
                                   /\ mode.i \/ s # bgjob}
           seen  == [s \in Slot |-> [jobtab[s] EXCEPT !.changed = @ /\ s \notin shown]]
           gone  == drop \cup (Used \ Named)
       IN  jobtab' = Freed(seen, gone) /\ Forget(gone)
    /\ cur' = After
    /\ UNCHANGED <<mode, saved, ret, scriptVars, kernelVars, sigVars>>

-----------------------------------------------------------------------------
(* Waiting.                                                                *)

(* A wait has collected the jobs whose last processes are S.               *)
Collected(S) == owed' = owed \ S /\ latest' = IF latest \in S THEN 0 ELSE latest

(* What waitcmdloop does with the done jobs S: one that the next prompt    *)
(* has still to report (interactive, changed) only loses its claims.       *)
(* (dowait has taken other done jobs than its own off jobmru before.)      *)
Release(S) ==
    LET kept == {s \in S : mode.i /\ jobtab[s].changed}
    IN  /\ jobtab' = Freed([s \in Slot |-> [jobtab[s] EXCEPT !.remembered = @ /\ s \notin kept]],
                           S \ kept)
        /\ Forget(S)

(* The head of the loop of waitcmdloop(job): it returns the status of a    *)
(* done job, else it calls dowait.                                         *)
WaitCmdJob ==
    /\ cur.pc = "waitcmd" /\ cur.job # 0
    /\ IF jobtab[cur.job].state = "done"
       THEN /\ Release({cur.job})
            /\ Collected({LastPid(cur.job)})
            /\ ret' = [kind |-> "status", asked |-> cur.asked,
                       val |-> getjobstatus(jobtab[cur.job].ps)]
            /\ cur' = After
       ELSE cur' = At("block") /\ UNCHANGED <<tabVars, ret, scriptVars>>
    /\ UNCHANGED <<mode, saved, kernelVars, sigVars>>

(* The same without operand: every done job is collected, and 0 returned   *)
(* when no job is running.                                                 *)
WaitCmdAll ==
    /\ cur.pc = "waitcmd" /\ cur.job = 0
    /\ LET done == {s \in Used : jobtab[s].state = "done"}
       IN  Release(done) /\ Collected({LastPid(s) : s \in done})
    /\ IF \E s \in Used : jobtab[s].state = "run"
       THEN cur' = At("block") /\ UNCHANGED ret
       ELSE cur' = After /\ ret' = [NoRet EXCEPT !.kind = "all"]
    /\ UNCHANGED <<mode, saved, kernelVars, sigVars>>

(* The loop of waitforjob while the job runs: a blocking dowait, or one    *)
(* that traps interrupt.                                                   *)
WaitForJob ==
    /\ cur.pc = "waitfor" /\ jobtab[cur.job].state = "run"
    /\ \/ ~mode.T /\ Reap(cur.job) /\ UNCHANGED cur
       \/ mode.T /\ cur' = At("block") /\ UNCHANGED <<tabVars, kernelVars>>
    /\ UNCHANGED <<mode, saved, ret, scriptVars, sigVars>>

(* ... and its end.                                                        *)
WaitForJobEnds ==
    /\ cur.pc = "waitfor" /\ jobtab[cur.job].state # "run"
    /\ IF jobtab[cur.job].state = "stopped"
       THEN jobmru' = setcurjob(jobmru, cur.job) /\ UNCHANGED <<jobtab, bgjob, scriptVars>>
       ELSE /\ jobtab' = Freed(jobtab, {cur.job}) /\ Forget({cur.job})
            /\ Collected({cur.asked[Len(cur.asked)]})
    /\ ret' = [kind |-> "status", asked |-> cur.asked, val |-> getjobstatus(jobtab[cur.job].ps)]
    /\ cur' = After
    /\ UNCHANGED <<mode, saved, kernelVars, sigVars>>

(* dowait with DOWAIT_SIG: block every signal ...                          *)
Block ==
    /\ cur.pc = "block"
    /\ cur' = At("poll")
    /\ UNCHANGED <<mode, tabVars, saved, ret, scriptVars, kernelVars, sigVars>>

Interrupted == IF cur.cmd = "wait" THEN pendingsig_waitcmd # "none" ELSE pendingsig
NoChild == \A p \in DOMAIN procs : procs[p].st = "gone"

(* ... ask wait3 without blocking: a child, or none at all (ECHILD), or a  *)
(* signal that has been handled; else sleep.  ECHILD sets the job to done,  *)
(* as every job is that has no child left.                                 *)
Poll ==
    /\ cur.pc = "poll"
    /\ \/ Reap(cur.job) /\ cur' = At(IF cur.cmd = "wait" THEN "waitcmd" ELSE "waitfor")
       \/ /\ Waitable = {}
          /\ cur' = At(IF Interrupted \/ NoChild THEN "eintr" ELSE "susp")
          /\ UNCHANGED <<tabVars, kernelVars>>
    /\ chld' = (chld /\ cur'.pc = "susp")
    /\ UNCHANGED <<mode, saved, ret, scriptVars, held, nsig, flagVars>>

(* MUTANT of Suspend: without dummy_handler SIGCHLD does not end the sleep.*)
Mut_NoHandler ==
    /\ cur.pc = "susp" /\ held # {}
    /\ chld' = FALSE
    /\ cur' = At("block")
    /\ UNCHANGED <<mode, tabVars, saved, ret, scriptVars, kernelVars, held, nsig, flagVars>>

(* sigsuspend() ends with the first signal, SIGCHLD included.              *)
Suspend ==
    /\ cur.pc = "susp" /\ (chld \/ held # {})
    /\ chld' = FALSE
    /\ cur' = At("block")
    /\ UNCHANGED <<mode, tabVars, saved, ret, scriptVars, kernelVars, held, nsig, flagVars>>

TrapFrame == Frame("dotrap", "none", 0, 0, <<>>)

(* dowait returned -1: the wait builtin returns 128 and the signal,        *)
(* waitforjob calls dotrap.                                                *)
WaitBroken ==
    /\ cur.pc = "eintr"
    /\ IF cur.cmd = "wait"
       THEN /\ pendingsig_waitcmd' = "none"
            /\ ret' = [NoRet EXCEPT !.kind = "broken", !.val = pendingsig_waitcmd]
            /\ cur' = After /\ UNCHANGED saved
       ELSE /\ saved' = <<At("waitfor")>> \o saved
            /\ cur' = TrapFrame /\ UNCHANGED <<pendingsig_waitcmd, ret>>
    /\ UNCHANGED <<mode, tabVars, scriptVars, kernelVars, chld, held, nsig, gotsig, pendingsig>>

-----------------------------------------------------------------------------
(* Traps.                                                                  *)

(* The end of evaltree, and the head of cmdloop.                           *)
Check ==
    /\ cur.pc = "check"
    /\ IF pendingsig THEN saved' = <<At("cmd")>> \o saved /\ cur' = TrapFrame
       ELSE cur' = At("cmd") /\ UNCHANGED saved
    /\ UNCHANGED <<mode, tabVars, ret, scriptVars, kernelVars, sigVars>>

(* dotrap: clear the flags, then look for a signal; its trap is run as     *)
(* commands, and the search starts again.                                  *)
ClearPending ==
    /\ cur.pc = "dotrap"
    /\ pendingsig' = FALSE /\ pendingsig_waitcmd' = "none"
    /\ cur' = At("scan")
    /\ UNCHANGED <<mode, tabVars, saved, ret, scriptVars, kernelVars, chld, held, nsig, gotsig>>

Scan ==
    /\ cur.pc = "scan"
    /\ gotsig' = FALSE
    /\ IF gotsig THEN cur' = At("cmd") /\ UNCHANGED saved
       ELSE cur' = Head(saved) /\ saved' = Tail(saved)
    /\ UNCHANGED <<mode, tabVars, ret, scriptVars, kernelVars, chld, held, nsig,
                   pendingsig, pendingsig_waitcmd>>

(* MUTANT of TrapEnds: the flags are cleared after the trap and no other   *)
(* signal is looked for.                                                   *)
Mut_ClearLate ==
    /\ Ready /\ saved # <<>>
    /\ pendingsig' = FALSE /\ pendingsig_waitcmd' = "none"
    /\ cur' = Head(saved) /\ saved' = Tail(saved)
    /\ UNCHANGED <<mode, tabVars, scriptVars, kernelVars, chld, held, nsig, gotsig>>

TrapEnds ==
    /\ Ready /\ saved # <<>>
    /\ cur' = TrapFrame
    /\ UNCHANGED <<mode, tabVars, saved, scriptVars, kernelVars, sigVars>>

-----------------------------------------------------------------------------

Init ==
    /\ mode \in Modes
    /\ jobtab = [s \in Slot |-> NoJob] /\ jobmru = <<>> /\ bgjob = 0
    /\ cur = Frame("cmd", "none", 0, 0, <<>>) /\ saved = <<>>
    /\ procs = <<>> /\ stops = 0
    /\ chld = FALSE /\ held = {} /\ nsig = 0
    /\ gotsig = FALSE /\ pendingsig = FALSE /\ pendingsig_waitcmd = "none"
    /\ ret = NoRet /\ owed = {} /\ latest = 0

(* A step of the shell; handlers of signals let through run first.         *)
Shell ==
    /\ Masked \/ held = {}
    /\ \/ StartJob \/ Fork \/ ForkFails \/ DollarBang \/ Wait \/ FgBg
       \/ ShowJobs \/ CheckZombies \/ Show
       \/ WaitCmdJob \/ WaitCmdAll \/ WaitForJob \/ WaitForJobEnds
       \/ Block \/ Poll \/ Suspend \/ WaitBroken
       \/ Check \/ ClearPending \/ Scan \/ TrapEnds

Next == Shell \/ (\E p \in Pid : ChildExits(p)) \/ ChildStops \/ Signal \/ Deliver

(* The shell runs, handlers run, and a command that is not stopped ends.   *)
Fairness ==
    /\ WF_shVars(Shell)
    /\ WF_shVars(Deliver)
    /\ WF_shVars(\E p \in DOMAIN procs : procs[p].st = "run" /\ ChildExits(p))

Spec == Init /\ [][Next]_shVars
FairSpec == Spec /\ Fairness

-----------------------------------------------------------------------------

Child == [st : {"run", "stop", "zombie", "gone"}, code : Final,
          news : {"none", "stopped", "continued"}]

(* The job table and the kernel agree, whatever the order of forks, exits, *)
(* stops, frees and reuse of slots (dowait, freejob, makejob, forkshell):  *)
(* every child that wait3 has still to report is an unwaited process of    *)
(* exactly one job in use, every unwaited process of a job is such a child *)
(* (so that wait3 does not fail with ECHILD while a job runs), and a job   *)
(* has the state of its processes, so that no job is freed early.          *)
JobInv ==
    /\ jobtab \in [Slot -> Job]
    /\ procs \in Seq(Child) /\ Len(procs) <= MaxForks
    /\ \A p \in DOMAIN procs : procs[p].st # "gone" => \E s \in Slot : Holds(s, p)
    /\ \A p \in Pid, s \in Slot : Holds(s, p) => p \in DOMAIN procs /\ procs[p].st # "gone"
    /\ \A p \in Pid, s, t \in Slot : Holds(s, p) /\ Holds(t, p) => s = t
    /\ \A s \in Slot : jobtab[s].used /\ jobtab[s].ps # <<>>
                       => jobtab[s].state = StateOf(jobtab[s].ps)

(* The frames that wait for one job.                                       *)
Awaiting == {f \in {cur} \cup {saved[k] : k \in DOMAIN saved} :
                f.job # 0 /\ f.pc \in {"waitcmd", "waitfor", "block", "poll", "susp", "eintr"}}

(* waitforjob holds its job by the slot across every dowait: it is neither *)
(* freed nor given to another job.  Under "set -T", where traps run inside *)
(* the loop, this fails.                                                   *)
AwaitedKept == \A f \in Awaiting : jobtab[f.job].used /\ Pids(f.job) = f.asked

(* No name of a job dangles.  The list of recent jobs has no freed slot    *)
(* and no duplicate, and all unfinished jobs, so that %+ and %- name them  *)
(* (setcurjob, deljob); bgjob is in use; a waiting function keeps its      *)
(* slot; and until a wait collects it, the status of a background job is   *)
(* kept: a script's last one, and every one whose $! was read, however     *)
(* many jobs came and went (forkshell, dowait and showjobs free others).   *)
NamesHold ==
    /\ jobmru \in Seq(Used)
    /\ \A m, n \in DOMAIN jobmru : jobmru[m] = jobmru[n] => m = n
    /\ \A s \in Named : jobtab[s].state # "done" => \E n \in DOMAIN jobmru : jobmru[n] = s
    /\ bgjob # 0 => bgjob \in Used
    /\ ~mode.T =>
        /\ AwaitedKept
        /\ \A p \in owed : \E s \in Named : LastPid(s) = p
        /\ ~mode.i /\ latest # 0 => bgjob # 0 /\ LastPid(bgjob) = latest

(* The status of a pipeline whose processes are pids: of the last one, or  *)
(* under pipefail of the last that failed.                                 *)
Meant(pids, val) ==
    LET code(k) == IF procs[pids[k]].st = "gone" THEN procs[pids[k]].code ELSE "stop"
    IN  IF mode.pipefail
        THEN IF val = "ok" THEN \A k \in DOMAIN pids : code(k) = "ok"
             ELSE \E k \in DOMAIN pids : /\ code(k) = val
                                         /\ \A l \in k + 1 .. Len(pids) : code(l) = "ok"
        ELSE code(Len(pids)) = val

(* A wait that ends gives the status the awaited processes exited with,    *)
(* not that of a job that took the slot, nor one read too early, and a     *)
(* wait without operand that is not interrupted leaves no child running    *)
(* (waitforjob, waitcmdloop, getjobstatus).                                *)
StatusReal ==
    /\ ~mode.T /\ ret.kind = "status" /\ ret.val \in Final => Meant(ret.asked, ret.val)
    /\ ret.kind = "all" => \A p \in DOMAIN procs : procs[p].st # "run"

(* No wakeup is lost between wait3 and sigsuspend: a foreground wait ends  *)
(* once its processes have ended or stopped, and in a script so does the   *)
(* wait builtin.  Not under set -T, where a trap may take the job away.    *)
WaitReturns ==
    (/\ ~mode.T /\ cur.pc \in {"waitcmd", "waitfor", "block", "poll", "susp"}
     /\ cur.cmd = "fg" \/ ~mode.i) ~> cur.pc \in {"check", "over"}

(* A trapped signal is never forgotten: whenever it arrives, also inside   *)
(* dotrap, a wait or another trap, its trap is run.                        *)
TrapRuns == gotsig ~> (~gotsig \/ cur.pc = "over")

(* jobs.c:556, "loop until a process is terminated or stopped": the wait   *)
(* builtin ends when the job it waits for has stopped.                     *)
StopEndsWait ==
    \A s \in Slot : (/\ cur.pc = "susp" /\ cur.cmd = "wait" /\ cur.job = s
                     /\ jobtab[s].state = "stopped") ~> cur.pc = "check"

(* trap.c:371, "if we are currently in a wait builtin, prepare to break    *)
(* it": SIGQUIT breaks a wait it arrives in, not one that begins later.    *)
WaitStartsFresh == [][Wait => pendingsig_waitcmd # "QUIT"]_shVars
=============================================================================
