-------------------------------- MODULE Cron --------------------------------
(***************************************************************************)
(* The daemon of cmd/pseudo/cron.c: main()'s loop, runjob(), waitjob() and    *)
(* reloadentries() against the signals that set chldreap, reload and quit.    *)
(*                                                                          *)
(* A signal may arrive between any two steps.  It ends sleep() early only if  *)
(* it finds the daemon inside it.  What an entry matches is CronMatch; here   *)
(* an entry has the set of minutes it matches.  The clock is a cycle of       *)
(* Minutes and stands still while the daemon works: a pass of the loop is     *)
(* over before its minute is.                                                *)
(***************************************************************************)
EXTENDS Integers, Sequences, FiniteSets

CONSTANTS
  Cmd, Pid,
  Minutes,     \* the clock is 0 .. Minutes - 1
  Crontabs,    \* what the user may write to the file: sequences of entries
  Unusable     \* a file that does not open or does not parse

Entries == [cmd : Cmd, at : SUBSET (0 .. Minutes - 1)]

ASSUME CronAssumption ==
  /\ Minutes \in Nat \ {0, 1}
  /\ \A tab \in Crontabs : tab \in Seq(Entries)

VARIABLES
  pc,
  minute, due,             \* the clock; whether the time to sleep has passed
  chldreap, reload, quit,  \* set by sighandler()
  ctab,                    \* ctabhead
  todo,                    \* the entries the pass has still to look at
  jobs,                    \* jobhead: records of cmd and pid
  proc,                    \* the children: what they run and their state
  file,                    \* what the crontab file holds
  started,                 \* commands started in this minute
  dropped                  \* children waitpid() has reported as stopped

daemon == <<pc, ctab, todo, jobs>>
flags == <<chldreap, reload, quit>>
history == <<started, dropped>>
cronVars == <<daemon, flags, minute, due, proc, file, history>>

NoProc == [st |-> "none"]

Children == {p \in Pid : proc[p].st # "none"}

Alive(p) == proc[p].st \in {"running", "stopped", "reported"}

(* loadentries(): all of the file or, after any error, nothing               *)
loadentries(f) == IF f = Unusable THEN <<>> ELSE f

Init ==
  /\ pc = "top" /\ minute = 0 /\ due = FALSE
  /\ chldreap = FALSE /\ reload = FALSE /\ quit = FALSE
  /\ file \in Crontabs \cup {Unusable}
  /\ ctab = loadentries(file) /\ todo = <<>> /\ jobs = {}
  /\ proc = [p \in Pid |-> NoProc]
  /\ started = {} /\ dropped = {}

-----------------------------------------------------------------------------
(* The daemon.                                                               *)

Goto(from, dest) == pc = from /\ pc' = dest

(* sleep(60 - t % 60): up to the next minute                                 *)
Sleep ==
  /\ Goto("top", "asleep")
  /\ due' = FALSE
  /\ UNCHANGED <<ctab, todo, jobs, flags, minute, proc, file, history>>

WakeUp ==
  /\ due
  /\ Goto("asleep", "check")
  /\ UNCHANGED <<ctab, todo, jobs, flags, minute, due, proc, file, history>>

Mut_JobsAfterReap == "check"

(* continue                                                                  *)
AfterSignal == "top"

(* the same, with the two tests swapped                                      *)
Mut_QuitLast ==
  /\ \/ /\ reload \/ chldreap
        /\ Goto("check", "reload")
        /\ UNCHANGED <<ctab, todo>>
     \/ /\ ~reload /\ ~chldreap /\ quit
        /\ Goto("check", "exit")
        /\ ctab' = <<>>
        /\ UNCHANGED todo
     \/ /\ ~quit /\ ~reload /\ ~chldreap
        /\ Goto("check", "jobs")
        /\ todo' = ctab
        /\ UNCHANGED ctab
  /\ UNCHANGED <<jobs, flags, minute, due, proc, file, started, dropped>>

(* if (quit == 1) ... if (reload == 1 || chldreap == 1) ... TAILQ_FOREACH    *)
Check ==
  /\ \/ /\ quit
        /\ Goto("check", "exit")
        /\ ctab' = <<>>
        /\ UNCHANGED todo
     \/ /\ ~quit /\ (reload \/ chldreap)
        /\ Goto("check", "reload")
        /\ UNCHANGED <<ctab, todo>>
     \/ /\ ~quit /\ ~reload /\ ~chldreap
        /\ Goto("check", "jobs")
        /\ todo' = ctab
        /\ UNCHANGED ctab
  /\ UNCHANGED <<jobs, flags, minute, due, proc, file, started, dropped>>

(* if (reload == 1) reloadentries()                                          *)
Reload ==
  /\ \/ reload /\ Goto("reload", "reloaded") /\ ctab' = loadentries(file)
     \/ ~reload /\ Goto("reload", "child") /\ UNCHANGED ctab
  /\ UNCHANGED <<todo, jobs, flags, minute, due, proc, file, history>>

ClearReload ==
  /\ Goto("reloaded", "child")
  /\ reload' = FALSE
  /\ UNCHANGED <<ctab, todo, jobs, chldreap, quit, minute, due, proc, file, history>>

(* if (chldreap == 1) waitjob()                                              *)
Child ==
  /\ \/ chldreap /\ Goto("child", "reap")
     \/ ~chldreap /\ Goto("child", AfterSignal)
  /\ UNCHANGED <<ctab, todo, jobs, flags, minute, due, proc, file, history>>

(* what waitpid(-1, &status, WNOHANG | WUNTRACED) has to report              *)
Reportable == {p \in Pid : proc[p].st \in {"zombie", "stopped"}}

Mut_Forget(p) == jobs

(* TAILQ_REMOVE of the job with that pid, if there is one                    *)
Forget(p) == {j \in jobs : j.pid # p}

WaitJob(p) ==
  /\ pc = "reap" /\ p \in Reportable
  /\ jobs' = Forget(p)
  /\ proc' = [proc EXCEPT ![p] = IF @.st = "zombie" THEN NoProc
                                 ELSE [@ EXCEPT !.st = "reported"]]
  /\ dropped' = IF proc[p].st = "zombie" THEN dropped \ {p} ELSE dropped \cup {p}
  /\ UNCHANGED <<pc, ctab, todo, flags, minute, due, file, started>>

WaitDone ==
  /\ Reportable = {}
  /\ Goto("reap", "reaped")
  /\ UNCHANGED <<ctab, todo, jobs, flags, minute, due, proc, file, history>>

Mut_ClearAll ==
  /\ Goto("reaped", AfterSignal)
  /\ chldreap' = FALSE /\ reload' = FALSE
  /\ UNCHANGED <<ctab, todo, jobs, quit, minute, due, proc, file, history>>

ClearChild ==
  /\ Goto("reaped", AfterSignal)
  /\ chldreap' = FALSE
  /\ UNCHANGED <<ctab, todo, jobs, reload, quit, minute, due, proc, file, history>>

Mut_NeverRunning(c) == FALSE

(* if command is already running, skip it                                    *)
AlreadyRunning(c) == \E j \in jobs : j.cmd = c

Fork(c, p) ==
  /\ p \notin Children
  /\ proc' = [proc EXCEPT ![p] = [st |-> "running", cmd |-> c]]
  /\ jobs' = jobs \cup {[cmd |-> c, pid |-> p]}
  /\ started' = started \cup {c}

(* runjob(); fork() may fail                                                 *)
RunJob(c) ==
  \/ AlreadyRunning(c) /\ UNCHANGED <<proc, jobs, started>>
  \/ ~AlreadyRunning(c) /\ \E p \in Pid : Fork(c, p)
  \/ ~AlreadyRunning(c) /\ UNCHANGED <<proc, jobs, started>>

(* One round of TAILQ_FOREACH                                                *)
Entry ==
  /\ pc = "jobs" /\ todo # <<>>
  /\ todo' = Tail(todo)
  /\ \/ minute \in Head(todo).at /\ RunJob(Head(todo).cmd)
     \/ minute \notin Head(todo).at /\ UNCHANGED <<proc, jobs, started>>
  /\ UNCHANGED <<pc, ctab, flags, minute, due, file, dropped>>

PassDone ==
  /\ todo = <<>>
  /\ Goto("jobs", "top")
  /\ UNCHANGED <<ctab, todo, jobs, flags, minute, due, proc, file, history>>

-----------------------------------------------------------------------------
(* Signals, jobs, the user and the clock, as long as the daemon runs.         *)

Interrupt == pc' = IF pc = "asleep" THEN "check" ELSE pc

(* sighandler(SIGCHLD)                                                       *)
Chld == chldreap' = TRUE /\ Interrupt

JobExit(p) ==
  /\ pc # "exit" /\ Alive(p)
  /\ proc' = [proc EXCEPT ![p].st = "zombie"]
  /\ Chld
  /\ UNCHANGED <<ctab, todo, jobs, reload, quit, minute, due, file, history>>

(* Bound: a job is not stopped again after waitpid() has reported it.  It is   *)
(* no longer in jobhead, and a second report would find nothing to take off.   *)
JobStop(p) ==
  /\ pc # "exit" /\ proc[p].st = "running" /\ p \notin dropped
  /\ proc' = [proc EXCEPT ![p].st = "stopped"]
  /\ Chld
  /\ UNCHANGED <<ctab, todo, jobs, reload, quit, minute, due, file, history>>

JobContinue(p) ==
  /\ pc # "exit" /\ proc[p].st \in {"stopped", "reported"}
  /\ proc' = [proc EXCEPT ![p].st = "running"]
  /\ Chld
  /\ UNCHANGED <<ctab, todo, jobs, reload, quit, minute, due, file, history>>

(* sighandler(SIGHUP)                                                        *)
Hup ==
  /\ pc # "exit"
  /\ reload' = TRUE /\ Interrupt
  /\ UNCHANGED <<ctab, todo, jobs, chldreap, quit, minute, due, proc, file, history>>

(* sighandler(SIGTERM)                                                       *)
Term ==
  /\ pc # "exit"
  /\ quit' = TRUE /\ Interrupt
  /\ UNCHANGED <<ctab, todo, jobs, chldreap, reload, minute, due, proc, file, history>>

Edit(f) ==
  /\ pc # "exit"
  /\ file' = f
  /\ UNCHANGED <<daemon, flags, minute, due, proc, history>>

Tick ==
  /\ pc = "asleep" /\ ~due
  /\ minute' = (minute + 1) % Minutes
  /\ due' = TRUE
  /\ started' = {}
  /\ UNCHANGED <<daemon, flags, proc, file, dropped>>

Daemon ==
  \/ Sleep \/ WakeUp \/ Check \/ Reload \/ ClearReload \/ Child
  \/ \E p \in Pid : WaitJob(p)
  \/ WaitDone \/ ClearChild \/ Entry \/ PassDone

Environment ==
  \/ \E p \in Pid : JobExit(p) \/ JobStop(p) \/ JobContinue(p)
  \/ Hup \/ Term
  \/ \E f \in Crontabs \cup {Unusable} : Edit(f)
  \/ Tick

Next == Daemon \/ Environment

Spec == Init /\ [][Next]_cronVars

(* The daemon is scheduled and time passes.                                  *)
FairSpec == Spec /\ WF_cronVars(Daemon) /\ WF_cronVars(Tick)

-----------------------------------------------------------------------------

(* ctabhead, jobhead and the flags keep their types: a fork() that fails leaves *)
(* no pid of -1 behind.                                                      *)
CronTypeOK ==
  /\ pc \in {"top", "asleep", "check", "reload", "reloaded", "child", "reap", "reaped",
             "jobs", "exit"}
  /\ minute \in 0 .. Minutes - 1
  /\ due \in BOOLEAN
  /\ chldreap \in BOOLEAN /\ reload \in BOOLEAN /\ quit \in BOOLEAN
  /\ ctab \in Seq(Entries) /\ todo \in Seq(Entries)
  /\ jobs \subseteq [cmd : Cmd, pid : Pid]
  /\ started \subseteq Cmd /\ dropped \subseteq Pid
  /\ proc \in [Pid -> {NoProc} \cup
                      [st : {"running", "stopped", "reported", "zombie"}, cmd : Cmd]]

(* jobhead is exactly the children not waited for yet, whatever the order in   *)
(* which they end and pids are used again: no entry outlives its process and   *)
(* then blocks its command.  waitjob() also takes off a job that is stopped.   *)
JobsExact == jobs = {[cmd |-> proc[p].cmd, pid |-> p] : p \in Children \ dropped}

(* "if command is already running, skip it": two processes of one command are *)
(* never alive together, unless one of them has been stopped.                *)
NoOverlap ==
  \A p, q \in Pid \ dropped :
    Alive(p) /\ Alive(q) /\ proc[p].cmd = proc[q].cmd => p = q

(* The same with no exception.                                               *)
NeverTwice ==
  \A p, q \in Pid : Alive(p) /\ Alive(q) /\ proc[p].cmd = proc[q].cmd => p = q

StartsIn(c) == \E p \in Pid : proc[p].st = "none" /\ proc'[p] = [st |-> "running", cmd |-> c]

(* However often signals interrupt the sleep, no command is started twice in  *)
(* a minute.                                                                 *)
OncePerMinute == [][\A c \in Cmd : StartsIn(c) => c \notin started]_cronVars

(* Why: entries are looked at only after a sleep that lasted into a new minute, *)
(* and what the pass has started is still in jobhead when the pass goes on.    *)
PassInv ==
  /\ pc = "asleep" /\ due => started = {}
  /\ pc = "check" /\ ~quit /\ ~reload /\ ~chldreap => started = {}
  /\ pc = "jobs" => \A c \in started : AlreadyRunning(c)

(* "daemon to run scheduled background commands": when a sleep has lasted into *)
(* a new minute, the entries of that minute are looked at.                    *)
NoMinuteSkipped == [][pc = "check" /\ due => pc' # "reload"]_cronVars

(* SIGTERM ends the daemon, also when it comes just before sleep().          *)
TermEnds == quit ~> (pc = "exit")

(* A reload asked for is made, with what the file holds or with something     *)
(* newer.  Not so for a SIGHUP between reloadentries() and "reload = 0".      *)
ReloadApplied ==
  \A f \in Crontabs :
    (reload /\ pc # "reloaded" /\ file = f) ~> (ctab = f \/ file # f \/ pc = "exit")

(* A job that has ended leaves jobhead, so that its command can run again.    *)
(* The window between waitjob() and "chldreap = 0" is left out here ...       *)
ReapedUnlessLate ==
  \A p \in Pid : (proc[p].st = "zombie" /\ chldreap /\ pc # "reaped")
                   ~> (proc[p].st = "none" \/ pc = "exit")

(* ... and is not left out here: "if command is already running, skip it"     *)
(* skips for ever the command of a job that ended in that window.            *)
Reaped ==
  \A p \in Pid : (proc[p].st = "zombie") ~> (proc[p].st = "none" \/ pc = "exit")
=============================================================================
