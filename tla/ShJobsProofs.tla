---------------------------- MODULE ShJobsProofs ----------------------------
(***************************************************************************)
(* For every number of slots and forks, every mix of options and every     *)
(* interleaving: the job table and the kernel's children agree (JobInv),   *)
(* and waits return what their processes exited with (StatusReal).         *)
(*                                                                         *)
(* IInv says where the slot of a half-forked job is known, and that no     *)
(* trap interrupts the shell between two forks of a job.  StatusInv adds   *)
(* that every process waited for has the status that was recorded, and     *)
(* that without "set -T" the awaited job keeps its slot.                   *)
(***************************************************************************)
EXTENDS ShJobs, TLAPS

Cmd == {"none", "fg", "bg", "wait", "jobs", "prompt", "error"}
Pc == {"cmd", "check", "zombies", "fork", "show", "waitcmd", "waitfor", "block",
       "poll", "susp", "eintr", "dotrap", "scan", "over"}
Frames == [pc : Pc, cmd : Cmd, job : 0..NSlots, left : Nat, asked : Seq(Pid)]
SavedFrames == [pc : {"cmd", "waitfor"}, cmd : Cmd, job : 0..NSlots, left : Nat, asked : Seq(Pid)]

(* The job that is being forked is in use and has only running processes.  *)
Forking == cur.pc = "fork" \/ (cur.pc = "zombies" /\ cur.cmd = "bg")
ForkInv ==
    /\ Forking => /\ cur.job \in Slot /\ jobtab[cur.job].used /\ jobtab[cur.job].state = "run"
                  /\ \A k \in DOMAIN jobtab[cur.job].ps : jobtab[cur.job].ps[k].st = "run"
                  /\ cur.left # 0 /\ Len(procs) + cur.left <= MaxForks
    /\ cur.pc = "zombies" /\ cur.cmd = "bg" => jobtab[cur.job].ps = <<>>

FrameInv ==
    /\ mode \in Modes
    /\ cur \in Frames
    /\ saved \in Seq(SavedFrames)
    /\ cur.pc \in {"dotrap", "scan"} => saved # <<>>

IInv == FrameInv /\ ForkInv /\ JobInv

(* Slots count from 1; 0 is no slot.                                       *)
LEMMA SlotsPositive == 0 \notin Slot /\ \A s \in 0..NSlots : s # 0 => s \in Slot
  BY ShJobsAssumption DEF Slot

(* The positions and elements of a sequence.                               *)
LEMMA SeqFacts ==
    ASSUME NEW S, NEW q \in Seq(S)
    PROVE  /\ Len(q) \in Nat /\ DOMAIN q = 1..Len(q) /\ \A k \in DOMAIN q : q[k] \in S
           /\ Len(q) + 1 \notin DOMAIN q
           /\ q # <<>> => Len(q) \in DOMAIN q
  OBVIOUS

(* A function on 1..n is a sequence of length n.                           *)
LEMMA SeqOf ==
    ASSUME NEW S, NEW n \in Nat, NEW f \in [1..n -> S]
    PROVE  f \in Seq(S) /\ Len(f) = n
  OBVIOUS

(* A sequence over a set is one over every larger set.                     *)
LEMMA SeqWiden ==
    ASSUME NEW S, NEW T, NEW q \in Seq(S), S \subseteq T
    PROVE  q \in Seq(T)
  OBVIOUS

(* The empty sequence, as Init leaves jobmru and saved.                    *)
LEMMA EmptySeq == DOMAIN <<>> = {} /\ \A S : <<>> \in Seq(S)
  OBVIOUS

(* Sequences with the same positions have the same length.                 *)
LEMMA SameLen ==
    ASSUME NEW S, NEW T, NEW q \in Seq(S), NEW r \in Seq(T), DOMAIN q = DOMAIN r
    PROVE  Len(q) = Len(r) /\ (q = <<>> <=> r = <<>>)
  OBVIOUS

(* An element at the end, and one at the front.                            *)
LEMMA AppendFacts ==
    ASSUME NEW S, NEW q \in Seq(S), NEW x
    PROVE  /\ DOMAIN Append(q, x) = DOMAIN q \cup {Len(q) + 1}
           /\ \A k \in DOMAIN q : Append(q, x)[k] = q[k]
           /\ Append(q, x)[Len(q) + 1] = x /\ Len(Append(q, x)) = Len(q) + 1
           /\ Append(q, x) # <<>>
  OBVIOUS

(* An element at the front, as setcurjob puts a job first in jobmru.       *)
LEMMA ConsFacts ==
    ASSUME NEW S, NEW q \in Seq(S), NEW x \in S
    PROVE  /\ <<x>> \o q \in Seq(S) /\ 1 \in DOMAIN (<<x>> \o q) /\ (<<x>> \o q)[1] = x
           /\ \A n \in DOMAIN (<<x>> \o q) :
                  n # 1 => n - 1 \in DOMAIN q /\ (<<x>> \o q)[n] = q[n - 1]
           /\ \A m, n \in DOMAIN (<<x>> \o q) : m - 1 = n - 1 => m = n
           /\ \A n \in DOMAIN q : n + 1 \in DOMAIN (<<x>> \o q) /\ (<<x>> \o q)[n + 1] = q[n]
<1>1. /\ DOMAIN (<<x>> \o q) = 1..Len(q) + 1 /\ DOMAIN q = 1..Len(q) /\ Len(q) \in Nat
      /\ <<x>> \o q \in Seq(S) /\ (<<x>> \o q)[1] = x
      /\ \A n \in 2..Len(q) + 1 : (<<x>> \o q)[n] = q[n - 1]
  OBVIOUS
<1> QED
  BY <1>1

(* The elements then are the new one and the old ones.                     *)
Among(r, x, q) == \A n \in DOMAIN r : r[n] = x \/ \E l \in DOMAIN q : r[n] = q[l]

(* That holds of the sequence with the element at the front.               *)
LEMMA ConsElements ==
    ASSUME NEW S, NEW q \in Seq(S), NEW x \in S
    PROVE  Among(<<x>> \o q, x, q)
<1> SUFFICES ASSUME NEW n \in DOMAIN (<<x>> \o q)
             PROVE  (<<x>> \o q)[n] = x \/ \E l \in DOMAIN q : (<<x>> \o q)[n] = q[l]
  BY Zenon DEF Among
<1>1. n # 1 => n - 1 \in DOMAIN q /\ (<<x>> \o q)[n] = q[n - 1]
  OBVIOUS
<1>2. (<<x>> \o q)[1] = x
  OBVIOUS
<1> QED
  BY Zenon, <1>1, <1>2

(* The first element and the others, as a trap returns to a saved frame.   *)
LEMMA TailFacts ==
    ASSUME NEW S, NEW q \in Seq(S), q # <<>>
    PROVE  /\ 1 \in DOMAIN q /\ Head(q) = q[1] /\ Head(q) \in S
           /\ \A k \in DOMAIN Tail(q) : k + 1 \in DOMAIN q /\ Tail(q)[k] = q[k + 1]
<1>1. /\ Len(q) \in Nat \ {0} /\ DOMAIN q = 1..Len(q) /\ DOMAIN Tail(q) = 1..Len(q) - 1
      /\ \A k \in 1..Len(q) - 1 : Tail(q)[k] = q[k + 1]
  OBVIOUS
<1> QED
  BY <1>1

(* The pids of the processes of a job (evalpipe, fgcmd, waitcmd).          *)
LEMMA PidsType ==
    ASSUME NEW ps \in Seq(Proc)
    PROVE  PidsOf(ps) \in Seq(Pid)
<1>0. \A x \in Proc : x.pid \in Pid
  BY Zenon DEF Proc
<1>1. /\ Len(ps) \in Nat /\ DOMAIN ps = 1..Len(ps)
      /\ \A k \in 1..Len(ps) : ps[k].pid \in Pid
  BY <1>0
<1>2. PidsOf(ps) \in [1..Len(ps) -> Pid]
  BY Zenon, <1>1 DEF PidsOf
<1> QED
  BY <1>1, <1>2

(* A job has as many pids as processes.                                    *)
LEMMA PidsLen ==
    ASSUME NEW ps \in Seq(Proc)
    PROVE  Len(PidsOf(ps)) = Len(ps)
<1>1. PidsOf(ps) \in Seq(Pid) /\ DOMAIN PidsOf(ps) = DOMAIN ps
  BY Zenon, PidsType DEF PidsOf
<1> QED
  BY <1>1

(* The positions of a sequence one longer.                                 *)
LEMMA OneMore ==
    ASSUME NEW S, NEW q \in Seq(S)
    PROVE  \A k : k \in 1..(Len(q) + 1) <=> k \in DOMAIN q \/ k = Len(q) + 1
  OBVIOUS

(* A function on the positions of a sequence is empty when the sequence is.*)
LEMMA EmptyTogether ==
    ASSUME NEW S, NEW q \in Seq(S), NEW f, f = [k \in DOMAIN q |-> f[k]]
    PROVE  f = <<>> <=> q = <<>>
<1>1. DOMAIN f = 1..Len(q)
  OBVIOUS
<1> QED
  BY <1>1

(* A job with processes has pids.                                          *)
LEMMA PidsNonempty ==
    ASSUME NEW ps \in Seq(Proc), ps # <<>>
    PROVE  PidsOf(ps) # <<>>
<1>1. Len(ps) \in 1..Len(ps) /\ DOMAIN ps = 1..Len(ps)
  BY SMTT(30)
<1>2. Len(ps) \in DOMAIN PidsOf(ps)
  BY Zenon, <1>1 DEF PidsOf
<1> QED
  BY <1>2

(* Processes have the pids of the model.                                   *)
LEMMA ProcsArePids ==
    ASSUME JobInv
    PROVE  DOMAIN procs \subseteq Pid
<1>1. procs \in Seq(Child) /\ Len(procs) <= MaxForks
  BY Zenon DEF JobInv
<1> QED
  BY <1>1, ShJobsAssumption DEF Pid

(* What StateOf, the loop of dowait over the processes, tells.             *)
LEMMA StateOfMeaning ==
    ASSUME NEW ps
    PROVE  /\ StateOf(ps) \in {"run", "stopped", "done"}
           /\ StateOf(ps) = "run" <=> \E k \in DOMAIN ps : ps[k].st = "run"
           /\ StateOf(ps) = "done" <=> \A k \in DOMAIN ps : ps[k].st \notin Alive
BY Zenon DEF StateOf, Alive

(* A step that leaves every unwaited process in its slot, and gone         *)
(* children gone, keeps the agreement of table and kernel.                 *)
LEMMA SameHolders ==
    ASSUME JobInv,
           jobtab' \in [Slot -> Job],
           procs' \in Seq(Child), DOMAIN procs' = DOMAIN procs, Len(procs') <= MaxForks,
           \A p \in DOMAIN procs : procs'[p].st = "gone" <=> procs[p].st = "gone",
           \A s \in Slot, p \in Pid : Holds(s, p)' <=> Holds(s, p),
           \A s \in Slot : jobtab'[s].used /\ jobtab'[s].ps # <<>>
                           => jobtab'[s].state = StateOf(jobtab'[s].ps)
    PROVE  JobInv'
<1>1. DOMAIN procs \subseteq Pid
  BY Zenon, ProcsArePids
<1>2. \A p \in DOMAIN procs' : procs'[p].st # "gone" => \E s \in Slot : Holds(s, p)'
  BY Zenon, <1>1 DEF JobInv
<1>3. \A p \in Pid, s \in Slot : Holds(s, p)' => p \in DOMAIN procs' /\ procs'[p].st # "gone"
  BY Zenon DEF JobInv
<1>4. \A p \in Pid, s, t \in Slot : Holds(s, p)' /\ Holds(t, p)' => s = t
  BY Zenon DEF JobInv
<1> QED
  BY <1>2, <1>3, <1>4, Zenon DEF JobInv

(* A step of the shell on the table alone: an entry keeps its processes    *)
(* and state, or is freed without unwaited processes, or is made.          *)
Harmless(s) ==
    \/ /\ jobtab'[s].used = jobtab[s].used
       /\ jobtab'[s].ps = jobtab[s].ps
       /\ jobtab'[s].state = jobtab[s].state
    \/ ~jobtab'[s].used /\ (jobtab[s].used => \A k \in DOMAIN jobtab[s].ps : jobtab[s].ps[k].st \notin Alive)
    \/ ~jobtab[s].used /\ jobtab'[s].ps = <<>>

(* Such a step keeps the agreement of table and kernel.                    *)
LEMMA HarmlessStep ==
    ASSUME JobInv, jobtab' \in [Slot -> Job], procs' = procs,
           \A s \in Slot : Harmless(s)
    PROVE  JobInv'
<1>1. \A s \in Slot, p \in Pid : Holds(s, p)' <=> Holds(s, p)
  BY DEF Harmless, Holds
<1>2. \A s \in Slot : jobtab'[s].used /\ jobtab'[s].ps # <<>>
                      => jobtab'[s].state = StateOf(jobtab'[s].ps)
  BY Zenon DEF Harmless, JobInv
<1> QED
  BY Zenon, <1>1, <1>2, SameHolders DEF JobInv

(* freejob leaves an entry unused and the other entries as they are.       *)
LEMMA FreedMeaning ==
    ASSUME NEW tab \in [Slot -> Job], NEW S
    PROVE  /\ Freed(tab, S) \in [Slot -> Job]
           /\ \A s \in Slot : s \in S => Freed(tab, S)[s].used = FALSE
           /\ \A s \in Slot : s \notin S => Freed(tab, S)[s] = tab[s]
<1>1. \A j \in Job : [j EXCEPT !.used = FALSE] \in Job /\ [j EXCEPT !.used = FALSE].used = FALSE
  BY Zenon DEF Job
<1>2. NewJob \in Job
  BY DEF NewJob, Job
<1>3. NoJob \in Job /\ NoJob.used = FALSE
  BY <1>1, <1>2, Zenon DEF NoJob
<1> QED
  BY Zenon, <1>1, <1>3 DEF Freed

(* A job without running and stopped processes has nothing to wait for.    *)
LEMMA DoneHoldsNothing ==
    ASSUME JobInv, NEW s \in Slot, jobtab[s].used,
           jobtab[s].state = "done" \/ jobtab[s].ps = <<>>
    PROVE  \A k \in DOMAIN jobtab[s].ps : jobtab[s].ps[k].st \notin Alive
<1>1. CASE jobtab[s].ps = <<>>
  BY <1>1
<1>2. CASE jobtab[s].ps # <<>>
  BY Zenon, <1>2, StateOfMeaning  DEF JobInv
<1> QED
  BY Zenon, <1>1, <1>2

(* No entry is taken into use, and those in use keep their processes.      *)
EntriesKept ==
    \A s \in Slot : jobtab'[s].used => jobtab[s].used /\ jobtab'[s].ps = jobtab[s].ps

(* Freeing finished jobs, in a table where other fields may have changed.  *)
LEMMA FreeFinished ==
    ASSUME JobInv, NEW tab \in [Slot -> Job], NEW S,
           \A s \in Slot : /\ tab[s].used = jobtab[s].used
                           /\ tab[s].ps = jobtab[s].ps
                           /\ tab[s].state = jobtab[s].state,
           \A s \in S : s \in Slot /\ jobtab[s].used => jobtab[s].state = "done" \/ jobtab[s].ps = <<>>,
           jobtab' = Freed(tab, S), procs' = procs
    PROVE  JobInv' /\ EntriesKept
<1>1. jobtab' \in [Slot -> Job]
  BY FreedMeaning, Zenon
<1>2. ASSUME NEW s \in Slot PROVE Harmless(s)
  <2>1. CASE s \in S
    <3>1. jobtab'[s].used = FALSE
      BY <2>1, FreedMeaning, Zenon
    <3>2. jobtab[s].used => \A k \in DOMAIN jobtab[s].ps : jobtab[s].ps[k].st \notin Alive
      BY Zenon, <2>1, DoneHoldsNothing
    <3> QED
      BY <3>1, <3>2, Zenon DEF Harmless
  <2>2. CASE s \notin S
    <3>1. jobtab'[s] = tab[s]
      BY <2>2, FreedMeaning, Zenon
    <3> QED
      BY <3>1, Zenon DEF Harmless
  <2> QED
    BY Zenon, <2>1, <2>2
<1>3. EntriesKept
  <2>1. ASSUME NEW s \in Slot, jobtab'[s].used
        PROVE  jobtab[s].used /\ jobtab'[s].ps = jobtab[s].ps
    <3>1. s \notin S
      BY <2>1, FreedMeaning, Zenon
    <3>2. jobtab'[s] = tab[s]
      BY <3>1, FreedMeaning, Zenon
    <3> QED
      BY Zenon, <2>1, <3>2
  <2> QED
    BY Zenon, <2>1 DEF EntriesKept
<1> QED
  BY Zenon, <1>1, <1>2, <1>3, HarmlessStep

(* A child that exits or stops is still to be reported.                    *)
LEMMA ChildStep ==
    ASSUME JobInv, jobtab' = jobtab, NEW p \in DOMAIN procs, procs[p].st # "gone",
           NEW c \in Child, c.st # "gone", procs' = [procs EXCEPT ![p] = c]
    PROVE  JobInv'
<1>1. /\ procs' \in Seq(Child) /\ DOMAIN procs' = DOMAIN procs /\ Len(procs') <= MaxForks
      /\ \A q \in DOMAIN procs : procs'[q].st = "gone" <=> procs[q].st = "gone"
  BY DEF JobInv
<1>2. \A s \in Slot, q \in Pid : Holds(s, q)' <=> Holds(s, q)
  BY Zenon DEF Holds
<1>3. /\ jobtab' \in [Slot -> Job]
      /\ \A s \in Slot : jobtab'[s].used /\ jobtab'[s].ps # <<>>
                         => jobtab'[s].state = StateOf(jobtab'[s].ps)
  BY Zenon DEF JobInv
<1> QED
  BY Zenon, <1>1, <1>2, <1>3, SameHolders

(* restartjob: stopped processes of the job run again.                     *)
LEMMA RestartStep ==
    ASSUME JobInv, NEW s \in Slot, jobtab[s].used, jobtab[s].ps # <<>>,
           NEW fg \in BOOLEAN, restartjob(s, fg)
    PROVE  JobInv'
<1> DEFINE old == jobtab[s]
           ps == [k \in DOMAIN old.ps |->
                     IF old.ps[k].st = "stop" THEN [pid |-> old.ps[k].pid, st |-> "run"] ELSE old.ps[k]]
<1>1. CASE old.state = "done"
  <2>1. jobtab' = jobtab /\ procs' = procs
    BY Zenon, <1>1 DEF restartjob
  <2>2. \A t \in Slot : Harmless(t)
    BY Zenon, <2>1 DEF Harmless
  <2> QED
    BY Zenon, <2>1, <2>2, HarmlessStep DEF JobInv
<1>2. CASE old.state # "done"
  <2>1. old \in Job /\ old.ps \in Seq(Proc) /\ old.state \in {"run", "stopped", "done"}
    BY Zenon DEF JobInv, Job
  <2>2. ps \in Seq(Proc) /\ DOMAIN ps = DOMAIN old.ps
    <3>1. /\ Len(old.ps) \in Nat /\ DOMAIN old.ps = 1..Len(old.ps)
          /\ \A k \in 1..Len(old.ps) : old.ps[k] \in Proc
      BY <2>1
    <3>2. \A k \in 1..Len(old.ps) : ps[k] \in Proc
      BY Zenon, <3>1 DEF Proc, Alive
    <3>3. ps \in [1..Len(old.ps) -> Proc]
      BY <3>1, <3>2, Zenon
    <3> HIDE DEF ps
    <3> QED
      BY <3>1, <3>3
  <2> DEFINE st == IF ps = old.ps THEN old.state ELSE "run"
             new == [old EXCEPT !.ps = ps, !.foreground = fg, !.state = st]
  <2>3. /\ jobtab' = [jobtab EXCEPT ![s] = new]
        /\ procs' = [p \in DOMAIN procs |->
               IF procs[p].st = "stop" /\ \E k \in DOMAIN ps : ps[k].pid = p
               THEN [st |-> "run", code |-> procs[p].code, news |-> "continued"] ELSE procs[p]]
    BY <1>2, Zenon DEF restartjob
  <2>4. st \in {"run", "stopped", "done"}
    BY Zenon, <2>1
  <2> HIDE DEF ps, st
  <2>5. new \in Job /\ new.used = old.used /\ new.ps = ps /\ new.state = st
    BY <2>1, <2>2, <2>4, Zenon DEF Job
  <2> HIDE DEF new, old
  <2>6. jobtab' \in [Slot -> Job] /\ jobtab'[s] = new /\ \A t \in Slot : t # s => jobtab'[t] = jobtab[t]
    BY Zenon, <2>3, <2>5 DEF JobInv
  <2>7. \A t \in Slot, p \in Pid : Holds(t, p)' <=> Holds(t, p)
    <3> SUFFICES ASSUME NEW t \in Slot, NEW p \in Pid PROVE Holds(t, p)' <=> Holds(t, p)
      BY Zenon
    <3>1. CASE t # s
      BY Zenon, <3>1, <2>6 DEF Holds
    <3>2. \A k \in DOMAIN ps : /\ ps[k].pid = old.ps[k].pid
                               /\ ps[k].st \in Alive <=> old.ps[k].st \in Alive
      BY Zenon, <2>1, <2>2 DEF Alive, ps
    <3>3. CASE t = s
      <4>1. (\E k \in DOMAIN ps : ps[k].pid = p /\ ps[k].st \in Alive)
            <=> (\E k \in DOMAIN old.ps : old.ps[k].pid = p /\ old.ps[k].st \in Alive)
        BY <3>2, <2>2, Zenon
      <4> QED
        BY <4>1, <3>3, <2>5, <2>6, Zenon DEF Holds, old
    <3> QED
      BY Zenon, <3>1, <3>3
  <2>8. ASSUME NEW t \in Slot, jobtab'[t].used, jobtab'[t].ps # <<>>
        PROVE  jobtab'[t].state = StateOf(jobtab'[t].ps)
    <3>1. CASE t # s
      BY Zenon, <3>1, <2>6, <2>8 DEF JobInv
    <3>2. CASE t = s /\ ps = old.ps
      BY Zenon, <3>2, <2>5, <2>6 DEF JobInv, old, st
    <3>3. CASE t = s /\ ps # old.ps
      <4>1. \E k \in DOMAIN ps : ps[k].st = "run"
        BY <3>3, <2>1, <2>2 DEF ps
      <4> QED
        BY Zenon, <4>1, <3>3, <2>5, <2>6, StateOfMeaning DEF st
    <3> QED
      BY Zenon, <3>1, <3>2, <3>3
  <2>9. /\ procs' \in Seq(Child) /\ DOMAIN procs' = DOMAIN procs /\ Len(procs') <= MaxForks
        /\ \A p \in DOMAIN procs : procs'[p].st = "gone" <=> procs[p].st = "gone"
    <3>1. /\ Len(procs) \in Nat /\ DOMAIN procs = 1..Len(procs) /\ Len(procs) <= MaxForks
          /\ \A p \in 1..Len(procs) : procs[p] \in Child
      BY DEF JobInv
    <3>2. \A p \in 1..Len(procs) : procs'[p] \in Child
      BY Zenon, <3>1, <2>3 DEF Child
    <3>3. procs' \in Seq(Child) /\ Len(procs') = Len(procs)
      BY <3>1, <3>2, <2>3
    <3> QED
      BY Zenon, <3>1, <3>3, <2>3
  <2> QED
    BY Zenon, <2>6, <2>7, <2>8, <2>9, SameHolders
<1> QED
  BY Zenon, <1>1, <1>2 

(* dowait with the answer of wait3 for one of its processes: the entry of  *)
(* the job gets the state of its processes, and the process is dropped     *)
(* from those to wait for exactly if it has ended.                         *)
LEMMA SettleStep ==
    ASSUME JobInv, NEW s \in Slot, NEW p \in Pid, Holds(s, p),
           NEW st \in Alive \cup Final, NEW job, Settle(s, p, st, job)
    PROVE  /\ jobtab' \in [Slot -> Job]
           /\ \A t \in Slot : t # s => jobtab'[t] = jobtab[t]
           /\ \A t \in Slot, q \in Pid : Holds(t, q)' <=> Holds(t, q) /\ (q # p \/ st \in Alive)
           /\ \A t \in Slot : jobtab'[t].used /\ jobtab'[t].ps # <<>>
                              => jobtab'[t].state = StateOf(jobtab'[t].ps)
<1> DEFINE old == jobtab[s]
           ps == [k \in DOMAIN old.ps |->
                     IF old.ps[k].pid = p /\ old.ps[k].st \in Alive
                     THEN [pid |-> p, st |-> st] ELSE old.ps[k]]
           was == IF st = "run" THEN "run" ELSE old.state
           now == IF StateOf(ps) = "run" THEN was ELSE StateOf(ps)
           quiet == now = "run" \/ (s = job /\ old.foreground /\ now # "stopped")
           new == [old EXCEPT !.ps = ps, !.state = now, !.changed = @ \/ (mode.i /\ ~quiet)]
           tab == [jobtab EXCEPT ![s] = new]
<1>1. /\ old \in Job /\ old.ps \in Seq(Proc) /\ old.state \in {"run", "stopped", "done"}
      /\ old.used /\ old.ps # <<>> /\ old.state = StateOf(old.ps)
  BY DEF JobInv, Job, Holds
<1>2. ps \in Seq(Proc) /\ DOMAIN ps = DOMAIN old.ps
  <2>1. /\ Len(old.ps) \in Nat /\ DOMAIN old.ps = 1..Len(old.ps)
        /\ \A k \in 1..Len(old.ps) : old.ps[k] \in Proc
    BY <1>1
  <2>2. \A k \in 1..Len(old.ps) : ps[k] \in Proc
    BY Zenon, <2>1 DEF Proc
  <2>3. ps \in [1..Len(old.ps) -> Proc]
    BY <2>1, <2>2, Zenon
  <2> HIDE DEF ps
  <2> QED
    BY <2>1, <2>3
<1>3. now = StateOf(ps)
  <2> SUFFICES ASSUME StateOf(ps) = "run", st # "run" PROVE old.state = "run"
    BY Zenon
  <2>1. PICK k \in DOMAIN ps : ps[k].st = "run"
    BY Zenon, StateOfMeaning
  <2>2. old.ps[k].st = "run"
    BY Zenon, <2>1, <1>2
  <2> QED
    BY Zenon, <2>2, <1>1, <1>2, StateOfMeaning
<1>4. \/ jobtab' = tab
      \/ now = "done" /\ jobtab' = Freed(tab, {s})
  <2> HIDE DEF now, tab
  <2> QED
    BY Zenon DEF Settle, now, tab
<1>5. new \in Job /\ new.used = old.used /\ new.ps = ps /\ new.state = now
  <2>1. now \in {"run", "stopped", "done"}
    BY Zenon, <1>3, StateOfMeaning
  <2> HIDE DEF ps, now
  <2>2. (old.changed \/ (mode.i /\ ~quiet)) \in BOOLEAN
    BY Zenon
  <2> HIDE DEF quiet
  <2> QED
    BY <1>1, <1>2, <2>1, <2>2, Zenon DEF Job
<1> HIDE DEF new, now, ps, old
<1>6. tab \in [Slot -> Job] /\ tab[s] = new /\ \A t \in Slot : t # s => tab[t] = jobtab[t]
  BY Zenon, <1>5 DEF JobInv
<1> HIDE DEF tab
<1>7. /\ jobtab' \in [Slot -> Job]
      /\ \A t \in Slot : t # s => jobtab'[t] = jobtab[t]
      /\ jobtab'[s] = new \/ (now = "done" /\ jobtab'[s].used = FALSE)
  <2>1. CASE jobtab' = tab
    BY Zenon, <2>1, <1>6
  <2>2. CASE now = "done" /\ jobtab' = Freed(tab, {s})
    <3>1. /\ Freed(tab, {s}) \in [Slot -> Job]
          /\ \A t \in Slot : t \in {s} => Freed(tab, {s})[t].used = FALSE
          /\ \A t \in Slot : t \notin {s} => Freed(tab, {s})[t] = tab[t]
      BY <1>6, FreedMeaning, Zenon
    <3> QED
      BY Zenon, <3>1, <2>2, <1>6
  <2> QED
    BY <2>1, <2>2, <1>4, ZenonT(30)
<1>8. \A k \in DOMAIN ps : now = "done" => ps[k].st \notin Alive
  BY <1>3, StateOfMeaning, ZenonT(30)
<1>9. \A q \in Pid : (\E k \in DOMAIN ps : ps[k].pid = q /\ ps[k].st \in Alive)
                     <=> Holds(s, q) /\ (q # p \/ st \in Alive)
  BY <1>1, <1>2, Zenon DEF ps, old, Holds
<1>10. ASSUME NEW t \in Slot, NEW q \in Pid
       PROVE  Holds(t, q)' <=> Holds(t, q) /\ (q # p \/ st \in Alive)
  <2>1. CASE t # s
    <3>1. Holds(t, q)' <=> Holds(t, q)
      BY Zenon, <2>1, <1>7 DEF Holds
    <3>2. q = p => ~Holds(t, q)
      BY <2>1 DEF JobInv
    <3> QED
      BY Zenon, <3>1, <3>2 
  <2>2. CASE t = s /\ jobtab'[s] = new
    BY <2>2, <1>1, <1>5, <1>9 DEF Holds
  <2>3. CASE t = s /\ now = "done" /\ jobtab'[s].used = FALSE
    <3>1. ~Holds(t, q)'
      BY Zenon, <2>3 DEF Holds
    <3> QED
      BY Zenon, <3>1, <2>3, <1>8, <1>9
  <2> QED
    BY <2>1, <2>2, <2>3, <1>7, Zenon
<1>11. ASSUME NEW t \in Slot, jobtab'[t].used, jobtab'[t].ps # <<>>
       PROVE  jobtab'[t].state = StateOf(jobtab'[t].ps)
  <2>1. CASE t # s
    BY Zenon, <2>1, <1>7, <1>11 DEF JobInv
  <2>2. CASE t = s
    BY Zenon, <2>2, <1>3, <1>5, <1>7, <1>11
  <2> QED
    BY Zenon, <2>1, <2>2
<1> QED
  BY Zenon, <1>7, <1>10, <1>11

(* wait3 and the rest of dowait.  A job without processes is not touched.  *)
LEMMA ReapStep ==
    ASSUME JobInv, NEW job, Reap(job)
    PROVE  /\ JobInv' /\ Len(procs') = Len(procs)
           /\ \A s \in Slot : jobtab[s].ps = <<>> => jobtab'[s] = jobtab[s]
<1>1. PICK p \in Waitable :
        /\ procs' = [procs EXCEPT ![p] = [st |-> IF @.st = "zombie" THEN "gone" ELSE @.st,
                                          code |-> @.code, news |-> "none"]]
        /\ IF Holders(p) = {} THEN UNCHANGED tabVars
           ELSE \E s \in Holders(p) : Settle(s, p, Report(procs[p]), job)
  BY Zenon DEF Reap
<1>2. p \in DOMAIN procs /\ p \in Pid /\ procs[p] \in Child /\ procs \in Seq(Child)
  BY ShJobsAssumption DEF Waitable, JobInv, Pid
<1> DEFINE c == [st |-> IF procs[p].st = "zombie" THEN "gone" ELSE procs[p].st,
                 code |-> procs[p].code, news |-> "none"]
<1>3. c \in Child /\ (procs[p].st # "zombie" => c.st = procs[p].st) /\ (procs[p].st = "zombie" => c.st = "gone")
  BY Zenon, <1>2 DEF Child
<1>4. procs' = [procs EXCEPT ![p] = c]
  BY Zenon, <1>1
<1> HIDE DEF c
<1>5. /\ procs' \in Seq(Child) /\ DOMAIN procs' = DOMAIN procs /\ Len(procs') = Len(procs)
      /\ procs'[p] = c /\ \A q \in DOMAIN procs : q # p => procs'[q] = procs[q]
  BY <1>2, <1>3, <1>4
<1>6. CASE Holders(p) = {}
  <2>1. jobtab' = jobtab
    BY Zenon, <1>1, <1>6 DEF tabVars
  <2>2. procs[p].st = "gone"
    BY Zenon, <1>2, <1>6 DEF JobInv, Holders
  <2>3. \A s \in Slot, q \in Pid : Holds(s, q)' <=> Holds(s, q)
    BY Zenon, <2>1 DEF Holds
  <2>4. \A q \in DOMAIN procs : procs'[q].st = "gone" <=> procs[q].st = "gone"
    BY Zenon, <2>2, <1>3, <1>5
  <2>5. JobInv'
    BY Zenon, <2>1, <2>3, <2>4, <1>5, SameHolders DEF JobInv
  <2> QED
    BY Zenon, <2>1, <2>5, <1>5
<1>7. CASE Holders(p) # {}
  <2> DEFINE st == Report(procs[p])
  <2>1. PICK s \in Slot : Holds(s, p) /\ Settle(s, p, st, job)
    BY Zenon, <1>1, <1>7 DEF Holders
  <2>2. /\ st \in Alive \cup Final
        /\ st \in Alive <=> procs[p].st # "zombie"
    BY Zenon, <1>2 DEF Report, Child, Alive, Final
  <2> HIDE DEF st
  <2>3. /\ jobtab' \in [Slot -> Job]
        /\ \A t \in Slot : t # s => jobtab'[t] = jobtab[t]
        /\ \A t \in Slot, q \in Pid : Holds(t, q)' <=> Holds(t, q) /\ (q # p \/ st \in Alive)
        /\ \A t \in Slot : jobtab'[t].used /\ jobtab'[t].ps # <<>>
                           => jobtab'[t].state = StateOf(jobtab'[t].ps)
    BY Zenon, <2>1, <2>2, <1>2, SettleStep
  <2>4. jobtab[s].ps # <<>>
    BY <2>1 DEF Holds
  <2>5. JobInv'
    <3>1. CASE procs[p].st # "zombie"
      <4>1. \A q \in DOMAIN procs : procs'[q].st = "gone" <=> procs[q].st = "gone"
        BY Zenon, <3>1, <1>3, <1>5
      <4>2. \A t \in Slot, q \in Pid : Holds(t, q)' <=> Holds(t, q)
        BY Zenon, <3>1, <2>2, <2>3
      <4> QED
        BY Zenon, <4>1, <4>2, <2>3, <1>5, SameHolders DEF JobInv
    <3>2. CASE procs[p].st = "zombie"
      <4>1. \A t \in Slot, q \in Pid : Holds(t, q)' <=> Holds(t, q) /\ q # p
        BY Zenon, <3>2, <2>2, <2>3
      <4>2. procs'[p].st = "gone"
        BY Zenon, <3>2, <1>3, <1>5
      <4>3. DOMAIN procs \subseteq Pid
        BY ShJobsAssumption DEF JobInv, Pid
      <4>4. \A q \in DOMAIN procs' : procs'[q].st # "gone" => \E t \in Slot : Holds(t, q)'
        BY Zenon, <4>1, <4>2, <4>3, <1>5 DEF JobInv
      <4>5. \A q \in Pid, t \in Slot : Holds(t, q)' => q \in DOMAIN procs' /\ procs'[q].st # "gone"
        BY Zenon, <4>1, <1>5 DEF JobInv
      <4>6. \A q \in Pid, t, u \in Slot : Holds(t, q)' /\ Holds(u, q)' => t = u
        BY Zenon, <4>1 DEF JobInv
      <4>7. procs' \in Seq(Child) /\ Len(procs') <= MaxForks
        BY Zenon, <1>5 DEF JobInv
      <4> QED
        BY <4>4, <4>5, <4>6, <4>7, <2>3, Zenon DEF JobInv
    <3> QED
      BY Zenon, <3>1, <3>2
  <2> QED
    BY Zenon, <2>3, <2>4, <2>5, <1>5
<1> QED
  BY Zenon, <1>6, <1>7

(* forkshell: the new child is a process of the job being made, and of no  *)
(* other.                                                                  *)
LEMMA ForkStep ==
    ASSUME IInv, Fork
    PROVE  /\ JobInv' /\ Len(procs') = Len(procs) + 1
           /\ jobtab'[cur.job].used /\ jobtab'[cur.job].state = "run"
           /\ jobtab'[cur.job].ps = Append(jobtab[cur.job].ps, [pid |-> Len(procs) + 1, st |-> "run"])
           /\ \A t \in Slot : t # cur.job /\ jobtab'[t].used => jobtab'[t] = jobtab[t]
<1> DEFINE s == cur.job
           pid == Len(procs) + 1
           ps == Append(jobtab[s].ps, [pid |-> pid, st |-> "run"])
           fg == ~(cur.cmd = "bg")
           new == [jobtab[s] EXCEPT !.ps = ps, !.foreground = fg]
           old == {t \in {bgjob} : /\ cur.cmd = "bg" /\ t # 0 /\ ~mode.i
                                   /\ jobtab[t].state = "done" /\ ~jobtab[t].remembered}
<1>1. /\ JobInv
      /\ s \in Slot /\ jobtab[s].used /\ jobtab[s].state = "run"
      /\ Len(procs) + cur.left <= MaxForks /\ cur.left \in Nat \ {0}
  BY Zenon DEF IInv, ForkInv, Forking, Fork, FrameInv, Frames
<1>2. /\ procs \in Seq(Child) /\ Len(procs) \in Nat /\ DOMAIN procs = 1..Len(procs)
      /\ jobtab[s] \in Job /\ jobtab[s].ps \in Seq(Proc) /\ jobtab \in [Slot -> Job]
  BY <1>1 DEF JobInv, Job
<1>3. pid \in Pid /\ pid \notin DOMAIN procs
  BY <1>1, <1>2, ShJobsAssumption DEF Pid
<1>4. /\ procs' = Append(procs, [st |-> "run", code |-> "ok", news |-> "none"])
      /\ jobtab' = [Freed(jobtab, old) EXCEPT ![s] = new]
  <2> HIDE DEF old, new
  <2> QED
    BY Zenon DEF Fork, old, new
<1>5. /\ procs' \in Seq(Child) /\ Len(procs') = pid /\ DOMAIN procs' = 1..pid
      /\ procs'[pid].st = "run" /\ \A q \in DOMAIN procs : procs'[q] = procs[q]
  <2>1. [st |-> "run", code |-> "ok", news |-> "none"] \in Child
    BY Zenon DEF Child, Final
  <2> QED
    BY <2>1, <1>2, <1>4
<1>6. /\ ps \in Seq(Proc) /\ DOMAIN ps = 1..(Len(jobtab[s].ps) + 1) /\ ps # <<>>
      /\ ps[Len(jobtab[s].ps) + 1] = [pid |-> pid, st |-> "run"]
      /\ \A k \in DOMAIN jobtab[s].ps : ps[k] = jobtab[s].ps[k]
  <2>1. [pid |-> pid, st |-> "run"] \in Proc
    BY Zenon, <1>3 DEF Proc, Alive
  <2> DEFINE x == [pid |-> pid, st |-> "run"]
             was == jobtab[s].ps
  <2>2. x \in Proc /\ was \in Seq(Proc)
    BY Zenon, <2>1, <1>2
  <2> HIDE DEF x, was
  <2>3. /\ Append(was, x) \in Seq(Proc) /\ DOMAIN Append(was, x) = 1..(Len(was) + 1)
        /\ Append(was, x) # <<>> /\ Append(was, x)[Len(was) + 1] = x
        /\ \A k \in DOMAIN was : Append(was, x)[k] = was[k]
    BY <2>2
  <2> QED
    BY <2>3, Zenon DEF x, was
<1> HIDE DEF pid
<1>7. new \in Job /\ new.used = jobtab[s].used /\ new.ps = ps /\ new.state = "run"
  <2> HIDE DEF ps
  <2>1. fg \in BOOLEAN
    BY Zenon
  <2> HIDE DEF fg
  <2> QED
    BY <2>1, <1>1, <1>2, <1>6, Zenon DEF Job
<1>8. \A t \in old : t \in Slot => jobtab[t].state = "done"
  BY Zenon
<1> HIDE DEF new, old
<1>9. /\ Freed(jobtab, old) \in [Slot -> Job]
      /\ \A t \in Slot : t \in old => Freed(jobtab, old)[t].used = FALSE
      /\ \A t \in Slot : t \notin old => Freed(jobtab, old)[t] = jobtab[t]
  BY <1>2, FreedMeaning, Zenon
<1>10. /\ jobtab' \in [Slot -> Job] /\ jobtab'[s] = new
       /\ \A t \in Slot : t # s /\ t \in old => jobtab'[t].used = FALSE
       /\ \A t \in Slot : t # s /\ t \notin old => jobtab'[t] = jobtab[t]
  BY Zenon, <1>1, <1>4, <1>7, <1>9
<1>11. ASSUME NEW t \in Slot, NEW q \in Pid
       PROVE  Holds(t, q)' <=> Holds(t, q) \/ (t = s /\ q = pid)
  <2>1. CASE t # s /\ t \in old
    <3>1. ~Holds(t, q)'
      BY Zenon, <2>1, <1>10 DEF Holds
    <3>2. ~Holds(t, q)
      BY Zenon, <2>1, <1>1, <1>8, DoneHoldsNothing DEF Holds
    <3> QED
      BY Zenon, <3>1, <3>2, <2>1
  <2>2. CASE t # s /\ t \notin old
    BY Zenon, <2>2, <1>10 DEF Holds
  <2>3. CASE t = s
    <3>1. (\E k \in DOMAIN ps : ps[k].pid = q /\ ps[k].st \in Alive)
          <=> (q = pid \/ \E k \in DOMAIN jobtab[s].ps : jobtab[s].ps[k].pid = q /\ jobtab[s].ps[k].st \in Alive)
      <4> HIDE DEF ps
      <4>1. \A k : k \in DOMAIN ps <=> k \in DOMAIN jobtab[s].ps \/ k = Len(jobtab[s].ps) + 1
        BY Zenon, <1>2, <1>6, OneMore
      <4>2. LET added == ps[Len(jobtab[s].ps) + 1] IN added.pid = pid /\ added.st \in Alive
        BY <1>6 DEF Alive
      <4> QED
        BY <4>1, <4>2, <1>6, Zenon
    <3> QED
      BY <3>1, <2>3, <1>1, <1>7, <1>10, Zenon DEF Holds
  <2> QED
    BY Zenon, <2>1, <2>2, <2>3
<1>12. \A t \in Slot : ~Holds(t, pid)
  BY Zenon, <1>1, <1>3 DEF JobInv
<1>13. \A t \in Slot : jobtab'[t].used /\ jobtab'[t].ps # <<>>
                       => jobtab'[t].state = StateOf(jobtab'[t].ps)
  <2>1. StateOf(ps) = "run"
    <3> HIDE DEF ps
    <3>1. Len(jobtab[s].ps) + 1 \in DOMAIN ps
      BY <1>2, <1>6
    <3> QED
      BY <3>1, <1>6, StateOfMeaning
  <2> QED
    BY <2>1, <1>1, <1>7, <1>10, Zenon DEF JobInv
<1>14. /\ \A q \in DOMAIN procs' : procs'[q].st # "gone" => \E t \in Slot : Holds(t, q)'
       /\ \A q \in Pid, t \in Slot : Holds(t, q)' => q \in DOMAIN procs' /\ procs'[q].st # "gone"
       /\ \A q \in Pid, t, u \in Slot : Holds(t, q)' /\ Holds(u, q)' => t = u
  <2>1. /\ DOMAIN procs \subseteq Pid
        /\ \A q \in DOMAIN procs' : q \in DOMAIN procs \/ q = pid
        /\ DOMAIN procs \subseteq DOMAIN procs' /\ pid \in DOMAIN procs'
    BY SMTT(30), <1>1, <1>2, <1>5, ShJobsAssumption DEF JobInv, Pid, pid
  <2>2. \A q \in DOMAIN procs' : procs'[q].st # "gone" => \E t \in Slot : Holds(t, q)'
    BY <2>1, <1>1, <1>3, <1>5, <1>11 DEF JobInv
  <2>3. \A q \in Pid, t \in Slot : Holds(t, q)' => q \in DOMAIN procs' /\ procs'[q].st # "gone"
    BY Zenon, <2>1, <1>1, <1>5, <1>11 DEF JobInv
  <2>4. \A q \in Pid, t, u \in Slot : Holds(t, q)' /\ Holds(u, q)' => t = u
    BY <1>1, <1>11, <1>12 DEF JobInv
  <2> QED
    BY Zenon, <2>2, <2>3, <2>4
<1>15. Len(procs') <= MaxForks
  BY <1>3, <1>5 DEF Pid
<1>16. JobInv'
  BY <1>5, <1>10, <1>13, <1>14, <1>15, Zenon DEF JobInv
<1>17. \A t \in Slot : t # s /\ jobtab'[t].used => jobtab'[t] = jobtab[t]
  BY Zenon, <1>10
<1> QED
  BY <1>1, <1>5, <1>7, <1>10, <1>16, <1>17, Zenon DEF pid, ps

(* A frame with another program counter, and the frames that are the same. *)
LEMMA AtType ==
    ASSUME cur \in Frames, NEW pc \in Pc
    PROVE  /\ At(pc) \in Frames /\ At(pc).pc = pc /\ At(pc).cmd = cur.cmd
           /\ At(pc).job = cur.job /\ At(pc).left = cur.left
           /\ pc \in {"cmd", "waitfor"} => At(pc) \in SavedFrames
BY Zenon DEF At, Frames, SavedFrames

(* The frames that no step changes: after a command, and of dotrap.        *)
LEMMA FixedFrames ==
    /\ After \in Frames /\ After.pc = "check"
    /\ TrapFrame \in Frames /\ TrapFrame.pc = "dotrap"
<1>1. 0 \in 0..NSlots /\ 0 \in Nat /\ <<>> \in Seq(Pid) /\ "none" \in Cmd
      /\ "check" \in Pc /\ "dotrap" \in Pc
  BY ShJobsAssumption DEF Cmd, Pc
<1> QED
  BY Zenon, <1>1 DEF After, TrapFrame, Frame, Frames

(* A step to a place where no job is being forked.                         *)
LEMMA NotForking ==
    ASSUME mode' = mode, mode \in Modes,
           cur' \in Frames, ~Forking', cur'.pc \notin {"dotrap", "scan"},
           saved' = saved, saved \in Seq(SavedFrames), JobInv'
    PROVE  IInv'
<1>1. ForkInv'
  BY Zenon DEF ForkInv, Forking
<1> QED
  BY Zenon, <1>1 DEF IInv, FrameInv

(* A step that changes neither the table nor the children.                 *)
LEMMA SameTable ==
    ASSUME JobInv, jobtab' = jobtab, procs' = procs
    PROVE  JobInv'
<1>1. \A s \in Slot : Harmless(s)
  BY Zenon DEF Harmless
<1> QED
  BY Zenon, <1>1, HarmlessStep DEF JobInv

(* makejob.                                                                *)
LEMMA StartJobStep ==
    ASSUME IInv, StartJob
    PROVE  IInv'
<1>1. PICK n \in 1..2, cmd \in {"fg", "bg"}, s \in Slot \ Used :
        /\ Len(procs) + n <= mode.forks
        /\ jobtab' = [jobtab EXCEPT ![s] = NewJob]
        /\ cur' = Frame(IF cmd = "bg" THEN "zombies" ELSE "fork", cmd, s, n, <<>>)
  BY Zenon DEF StartJob
<1>2. mode' = mode /\ saved' = saved /\ procs' = procs
  BY Zenon DEF StartJob, kernelVars
<1>3. NewJob \in Job /\ NewJob.ps = <<>> /\ NewJob.used /\ NewJob.state = "run"
  BY DEF NewJob, Job
<1>4. jobtab' \in [Slot -> Job] /\ jobtab'[s] = NewJob /\ \A t \in Slot : t # s => jobtab'[t] = jobtab[t]
  BY Zenon, <1>1, <1>3 DEF IInv, JobInv
<1>5. \A t \in Slot : Harmless(t)
  BY Zenon, <1>3, <1>4 DEF Harmless, Used
<1>6. JobInv'
  BY Zenon, <1>2, <1>4, <1>5, HarmlessStep DEF IInv
<1>7. /\ cur' \in Frames /\ cur'.pc \in {"zombies", "fork"} /\ cur'.cmd = cmd
      /\ cur'.job = s /\ cur'.left = n
  <2> DEFINE pc == IF cmd = "bg" THEN "zombies" ELSE "fork"
  <2>1. pc \in {"zombies", "fork"} /\ pc \in Pc
    BY Zenon DEF Pc
  <2>2. s \in 0..NSlots /\ n \in Nat /\ cmd \in Cmd /\ <<>> \in Seq(Pid)
    BY ShJobsAssumption DEF Slot, Cmd
  <2>3. cur' = Frame(pc, cmd, s, n, <<>>)
    BY Zenon, <1>1
  <2> HIDE DEF pc
  <2> QED
    BY Zenon, <2>1, <2>2, <2>3 DEF Frame, Frames
<1>8. Len(procs') + n <= MaxForks
  <2>1. mode.forks \in 0..MaxForks /\ Len(procs) \in Nat
    BY ShJobsAssumption DEF IInv, FrameInv, JobInv
  <2> QED
    BY <2>1, <1>1, <1>2, ShJobsAssumption
<1>9. ForkInv'
  BY <1>3, <1>4, <1>7, <1>8 DEF ForkInv, Forking
<1> QED
  BY Zenon, <1>2, <1>6, <1>7, <1>9 DEF IInv, FrameInv

(* What IInv says of the frame, for citation in the steps below.           *)
LEMMA FrameFacts ==
    ASSUME IInv
    PROVE  /\ mode \in Modes /\ cur \in Frames /\ saved \in Seq(SavedFrames) /\ JobInv
           /\ cur.pc \in Pc /\ cur.cmd \in Cmd
BY Zenon DEF IInv, FrameInv, Frames

(* The other commands of the script.                                       *)
LEMMA CommandSteps ==
    ASSUME IInv, Fork \/ ForkFails \/ DollarBang \/ Wait \/ FgBg \/ ShowJobs
    PROVE  IInv'
<1> USE FrameFacts
<1>0. 0 \in 0..NSlots /\ 0 \in Nat /\ <<>> \in Seq(Pid) /\ Slot \subseteq 0..NSlots
  BY ShJobsAssumption DEF Slot
<1>1. CASE Fork
  <2>1. /\ JobInv' /\ Len(procs') = Len(procs) + 1
        /\ jobtab'[cur.job].used /\ jobtab'[cur.job].state = "run"
        /\ jobtab'[cur.job].ps = Append(jobtab[cur.job].ps, [pid |-> Len(procs) + 1, st |-> "run"])
    BY Zenon, <1>1, ForkStep
  <2>2. mode' = mode /\ saved' = saved /\ cur.pc = "fork"
    BY Zenon, <1>1 DEF Fork
  <2>3. CASE cur.left > 1
    <3>1. cur' = [cur EXCEPT !.left = cur.left - 1]
      BY Zenon, <1>1, <2>3 DEF Fork
    <3>2. /\ cur' \in Frames /\ cur'.pc = "fork" /\ cur'.job = cur.job
          /\ cur'.left = cur.left - 1 /\ cur'.left # 0
      BY <3>1, <2>2, <2>3 DEF Frames
    <3>3. /\ cur.job \in Slot /\ jobtab[cur.job].ps \in Seq(Proc)
          /\ \A k \in DOMAIN jobtab[cur.job].ps : jobtab[cur.job].ps[k].st = "run"
          /\ Len(procs) + cur.left <= MaxForks
          /\ Len(procs) \in Nat /\ cur.left \in Nat
      <4>1. /\ cur.job \in Slot
            /\ \A k \in DOMAIN jobtab[cur.job].ps : jobtab[cur.job].ps[k].st = "run"
            /\ Len(procs) + cur.left <= MaxForks
        BY <2>2, Zenon DEF IInv, ForkInv, Forking
      <4>2. jobtab \in [Slot -> Job] /\ procs \in Seq(Child)
        BY Zenon DEF IInv, JobInv
      <4>3. jobtab[cur.job].ps \in Seq(Proc)
        BY Zenon, <4>1, <4>2 DEF Job
      <4>4. Len(procs) \in Nat
        BY <4>2
      <4>5. cur.left \in Nat
        BY Zenon, <2>2 DEF Frames
      <4> QED
        BY Zenon, <4>1, <4>3, <4>4, <4>5
    <3>4. \A k \in DOMAIN jobtab'[cur.job].ps : jobtab'[cur.job].ps[k].st = "run"
      <4> DEFINE ps == jobtab[cur.job].ps
                 x == [pid |-> Len(procs) + 1, st |-> "run"]
      <4>1. x.st = "run"
        BY Zenon
      <4> HIDE DEF x
      <4>2. ps \in Seq(Proc \cup {x})
        BY <3>3
      <4>3. \A k \in DOMAIN Append(ps, x) : Append(ps, x)[k].st = "run"
        BY <4>1, <4>2, <3>3
      <4> QED
        BY Zenon, <4>3, <2>1 DEF x
    <3>5. Len(procs') + cur'.left <= MaxForks
      <4>1. Len(procs') = Len(procs) + 1 /\ cur'.left = cur.left - 1
        BY Zenon, <2>1, <3>2
      <4> QED
        BY SMTT(30), <4>1, <3>3, ShJobsAssumption
    <3>6. ForkInv'
      BY <3>2, <3>3, <3>4, <3>5, <2>1, Zenon DEF ForkInv, Forking
    <3> QED
      BY Zenon, <3>2, <3>6, <2>1, <2>2 DEF IInv, FrameInv
  <2>4. CASE ~(cur.left > 1)
    <3> DEFINE ps == jobtab'[cur.job].ps
    <3>1. cur' = After \/ cur' = Frame("waitfor", "fg", cur.job, 0, PidsOf(ps))
      BY <1>1, <2>1, <2>4, Zenon DEF Fork
    <3>2. cur.job \in Slot /\ ps \in Seq(Proc)
      BY <2>1, <2>2, Zenon DEF IInv, ForkInv, Forking, JobInv, Job
    <3>3. PidsOf(ps) \in Seq(Pid)
      BY Zenon, <3>2, PidsType
    <3>4. cur' \in Frames /\ cur'.pc \in {"check", "waitfor"}
      BY <1>0, <3>1, <3>2, <3>3, FixedFrames, SMTT(30) DEF Frame, Frames, Pc, Cmd
    <3> QED
      BY Zenon, <3>4, <2>1, <2>2, NotForking DEF Forking
  <2> QED
    BY Zenon, <2>3, <2>4
<1>2. CASE ForkFails
  <2>1. mode' = mode /\ saved' = <<>> /\ jobtab' = jobtab /\ procs' = procs
    BY Zenon, <1>2 DEF ForkFails, tabVars, kernelVars
  <2>2. cur' \in Frames /\ cur'.pc \in {"check", "over"}
    BY Zenon, <1>0, <1>2 DEF ForkFails, Frame, Frames, Pc, Cmd
  <2>3. ForkInv'
    BY Zenon, <2>2 DEF ForkInv, Forking
  <2>4. saved' \in Seq(SavedFrames)
    BY <2>1
  <2> QED
    BY Zenon, <2>1, <2>2, <2>3, <2>4, SameTable DEF IInv, FrameInv
<1>3. CASE DollarBang
  <2>1. mode' = mode /\ saved' = saved /\ procs' = procs /\ cur' = After
        /\ jobtab' = [jobtab EXCEPT ![bgjob].remembered = TRUE]
    BY Zenon, <1>3 DEF DollarBang, kernelVars
  <2>2. \A j \in Job : LET r == [j EXCEPT !.remembered = TRUE]
                       IN  r \in Job /\ r.used = j.used /\ r.ps = j.ps /\ r.state = j.state
    BY Zenon DEF Job
  <2>3. jobtab' \in [Slot -> Job] /\ \A t \in Slot : Harmless(t)
    <3>1. \A t \in Slot : \/ jobtab'[t] = jobtab[t]
                          \/ jobtab'[t] = [jobtab[t] EXCEPT !.remembered = TRUE]
      BY <2>1, Zenon DEF JobInv
    <3>2. jobtab' \in [Slot -> Job]
      BY <2>1, <2>2, Zenon DEF JobInv
    <3>3. ASSUME NEW t \in Slot PROVE Harmless(t)
      <4>1. jobtab[t] \in Job
        BY Zenon DEF JobInv
      <4> QED
        BY <4>1, <3>1, <2>2, Zenon DEF Harmless
    <3> QED
      BY Zenon, <3>2, <3>3
  <2>4. JobInv'
    BY Zenon, <2>1, <2>3, HarmlessStep
  <2> QED
    BY Zenon, <2>1, <2>4, FixedFrames, NotForking DEF Forking
<1>4. CASE Wait
  <2>1. mode' = mode /\ saved' = saved /\ jobtab' = jobtab /\ procs' = procs
    BY Zenon, <1>4 DEF Wait, tabVars, kernelVars
  <2>2. \A s \in Named : s \in Slot /\ Pids(s) \in Seq(Pid)
    BY Zenon, PidsType DEF Named, Used, Pids, JobInv, Job
  <2>3. cur' \in Frames /\ cur'.pc = "waitcmd"
    <3>1. PICK s \in 0..NSlots, asked \in Seq(Pid) : cur' = Frame("waitcmd", "wait", s, 0, asked)
      BY <1>0, <1>4, <2>2, Zenon DEF Wait
    <3> QED
      BY Zenon, <3>1 DEF Frame, Frames, Pc, Cmd
  <2> QED
    BY Zenon, <2>1, <2>3, SameTable, NotForking DEF Forking
<1>5. CASE FgBg
  <2>1. PICK s \in Named, fg \in BOOLEAN :
          restartjob(s, fg) /\ cur' = IF fg THEN Frame("waitfor", "fg", s, 0, Pids(s)) ELSE After
    BY Zenon, <1>5 DEF FgBg
  <2>2. mode' = mode /\ saved' = saved
    BY Zenon, <1>5 DEF FgBg
  <2>3. s \in Slot /\ jobtab[s].used /\ jobtab[s].ps # <<>> /\ Pids(s) \in Seq(Pid)
    BY Zenon, PidsType DEF Named, Used, Pids, JobInv, Job
  <2>4. JobInv'
    BY Zenon, <2>1, <2>3, RestartStep
  <2>5. cur' \in Frames /\ cur'.pc \in {"check", "waitfor"}
    BY <1>0, <2>1, <2>3, FixedFrames, Zenon DEF Frame, Frames, Pc, Cmd
  <2> QED
    BY Zenon, <2>2, <2>4, <2>5, NotForking DEF Forking
<1>6. CASE ShowJobs
  <2>1. mode' = mode /\ saved' = saved /\ jobtab' = jobtab /\ procs' = procs
    BY Zenon, <1>6 DEF ShowJobs, tabVars, kernelVars
  <2>2. cur' \in Frames /\ cur'.pc = "zombies" /\ cur'.cmd \in {"jobs", "prompt"}
    <3>1. PICK cmd \in {"jobs", "prompt"} : cur' = Frame("zombies", cmd, 0, 0, <<>>)
      BY Zenon, <1>6 DEF ShowJobs
    <3> QED
      BY Zenon, <1>0, <3>1 DEF Frame, Frames, Pc, Cmd
  <2> QED
    BY Zenon, <2>1, <2>2, SameTable, NotForking DEF Forking
<1> QED
  BY Zenon, <1>1, <1>2, <1>3, <1>4, <1>5, <1>6

(* The rest of showjobs.                                                   *)
LEMMA ShowStep ==
    ASSUME JobInv, Show
    PROVE  JobInv' /\ EntriesKept
<1> DEFINE shown == {s \in Named : cur.cmd = "jobs" \/ jobtab[s].changed}
           drop == {s \in shown : /\ jobtab[s].state = "done" /\ ~jobtab[s].remembered
                                  /\ mode.i \/ s # bgjob}
           seen == [s \in Slot |-> [jobtab[s] EXCEPT !.changed = @ /\ s \notin shown]]
           gone == drop \cup (Used \ Named)
<1>1. jobtab' = Freed(seen, gone)
  BY Zenon DEF Show
<1>2. \A s \in gone : s \in Slot /\ jobtab[s].used => jobtab[s].state = "done" \/ jobtab[s].ps = <<>>
  BY Zenon DEF Named
<1> HIDE DEF gone, drop
<1>3. \A j \in Job, b \in BOOLEAN :
          LET r == [j EXCEPT !.changed = j.changed /\ b]
          IN  r \in Job /\ r.used = j.used /\ r.ps = j.ps /\ r.state = j.state
  BY Zenon DEF Job
<1>4. \A s \in Slot : (s \notin shown) \in BOOLEAN /\ jobtab[s] \in Job
  BY Zenon DEF JobInv
<1> HIDE DEF shown
<1>5. /\ seen \in [Slot -> Job]
      /\ \A s \in Slot : /\ seen[s].used = jobtab[s].used
                         /\ seen[s].ps = jobtab[s].ps
                         /\ seen[s].state = jobtab[s].state
  BY <1>3, <1>4, ZenonT(30)
<1> HIDE DEF seen
<1>6. procs' = procs
  BY Zenon DEF Show, kernelVars
<1> QED
  BY Zenon, <1>1, <1>2, <1>5, <1>6, FreeFinished

(* The callers of dowait(0, NULL), and showjobs.                           *)
LEMMA ZombieSteps ==
    ASSUME IInv, CheckZombies \/ Show
    PROVE  IInv'
<1> USE FrameFacts
<1>1. ASSUME CheckZombies, Reap(0), UNCHANGED cur PROVE IInv'
  <2>1. /\ JobInv' /\ Len(procs') = Len(procs)
        /\ \A s \in Slot : jobtab[s].ps = <<>> => jobtab'[s] = jobtab[s]
    BY Zenon, <1>1, ReapStep
  <2>2. mode' = mode /\ saved' = saved /\ cur' = cur /\ cur.pc = "zombies"
    BY Zenon, <1>1 DEF CheckZombies
  <2>3. ForkInv'
    BY Zenon, <2>1, <2>2 DEF IInv, ForkInv, Forking
  <2> QED
    BY Zenon, <2>1, <2>2, <2>3 DEF IInv, FrameInv
<1>2. ASSUME CheckZombies, cur' = At(IF cur.cmd = "bg" THEN "fork" ELSE "show"),
             UNCHANGED <<tabVars, kernelVars>>
      PROVE  IInv'
  <2>1. /\ mode' = mode /\ saved' = saved /\ cur.pc = "zombies"
        /\ jobtab' = jobtab /\ procs' = procs
    BY Zenon, <1>2 DEF CheckZombies, tabVars, kernelVars
  <2>2. JobInv'
    BY Zenon, <2>1, SameTable
  <2>3. CASE cur.cmd = "bg"
    <3>1. cur' \in Frames /\ cur'.pc = "fork" /\ cur'.job = cur.job /\ cur'.left = cur.left
      BY Zenon, <1>2, <2>3, AtType DEF Pc
    <3>2. ForkInv'
      BY Zenon, <3>1, <2>1, <2>3 DEF IInv, ForkInv, Forking
    <3> QED
      BY Zenon, <3>1, <3>2, <2>1, <2>2 DEF IInv, FrameInv
  <2>4. CASE cur.cmd # "bg"
    <3>1. cur' \in Frames /\ cur'.pc = "show"
      BY Zenon, <1>2, <2>4, AtType DEF Pc
    <3> QED
      BY Zenon, <3>1, <2>1, <2>2, NotForking DEF Forking
  <2> QED
    BY Zenon, <2>3, <2>4
<1>3. CASE Show
  <2>1. mode' = mode /\ saved' = saved /\ cur' = After
    BY Zenon, <1>3 DEF Show
  <2>2. JobInv'
    BY Zenon, <1>3, ShowStep
  <2> QED
    BY Zenon, <2>1, <2>2, FixedFrames, NotForking DEF Forking
<1> QED
  BY Zenon, <1>1, <1>2, <1>3 DEF CheckZombies

(* waitcmdloop frees done jobs only.                                       *)
LEMMA ReleaseStep ==
    ASSUME JobInv, NEW S, \A s \in S : s \in Slot /\ jobtab[s].used => jobtab[s].state = "done",
           Release(S), procs' = procs
    PROVE  JobInv' /\ EntriesKept
<1> DEFINE kept == {s \in S : mode.i /\ jobtab[s].changed}
           tab == [s \in Slot |-> [jobtab[s] EXCEPT !.remembered = @ /\ s \notin kept]]
<1>1. jobtab' = Freed(tab, S \ kept)
  BY Zenon DEF Release
<1>2. \A j \in Job, b \in BOOLEAN :
          LET r == [j EXCEPT !.remembered = j.remembered /\ b]
          IN  r \in Job /\ r.used = j.used /\ r.ps = j.ps /\ r.state = j.state
  BY Zenon DEF Job
<1>3. \A s \in Slot : (s \notin kept) \in BOOLEAN /\ jobtab[s] \in Job
  BY Zenon DEF JobInv
<1> HIDE DEF kept
<1>4. /\ tab \in [Slot -> Job]
      /\ \A s \in Slot : /\ tab[s].used = jobtab[s].used
                         /\ tab[s].ps = jobtab[s].ps
                         /\ tab[s].state = jobtab[s].state
  BY <1>2, <1>3, ZenonT(30)
<1> HIDE DEF tab
<1>5. \A s \in S \ kept : s \in Slot /\ jobtab[s].used => jobtab[s].state = "done" \/ jobtab[s].ps = <<>>
  BY Zenon
<1> QED
  BY Zenon, <1>1, <1>4, <1>5, FreeFinished

(* The loops of waitcmdloop and waitforjob around dowait.                  *)
LEMMA WaitSteps ==
    ASSUME IInv, WaitCmdJob \/ WaitCmdAll \/ WaitForJob \/ WaitForJobEnds
    PROVE  IInv'
<1> USE FrameFacts
<1>0. \A pc \in {"block", "waitcmd", "waitfor"} : At(pc) \in Frames /\ At(pc).pc = pc
  BY Zenon, AtType DEF Pc
<1>1. CASE WaitCmdJob
  <2>1. mode' = mode /\ saved' = saved /\ procs' = procs
    BY Zenon, <1>1 DEF WaitCmdJob, kernelVars
  <2>2. CASE jobtab[cur.job].state = "done"
    <3>1. Release({cur.job}) /\ cur' = After
      BY Zenon, <1>1, <2>2 DEF WaitCmdJob
    <3>2. \A s \in {cur.job} : s \in Slot /\ jobtab[s].used => jobtab[s].state = "done"
      BY Zenon, <2>2
    <3>3. JobInv'
      BY Zenon, <3>1, <3>2, <2>1, ReleaseStep
    <3> QED
      BY Zenon, <3>1, <3>3, <2>1, FixedFrames, NotForking DEF Forking
  <2>3. CASE jobtab[cur.job].state # "done"
    <3>1. cur' = At("block") /\ jobtab' = jobtab
      BY <1>1, <2>3, Zenon DEF WaitCmdJob, tabVars
    <3> QED
      BY Zenon, <1>0, <3>1, <2>1, SameTable, NotForking DEF Forking
  <2> QED
    BY Zenon, <2>2, <2>3
<1>2. CASE WaitCmdAll
  <2>1. /\ mode' = mode /\ saved' = saved /\ procs' = procs
        /\ cur' = At("block") \/ cur' = After
    BY Zenon, <1>2 DEF WaitCmdAll, kernelVars
  <2> DEFINE done == {s \in Used : jobtab[s].state = "done"}
  <2>2. Release(done)
    BY Zenon, <1>2 DEF WaitCmdAll
  <2>3. \A s \in done : s \in Slot /\ jobtab[s].used => jobtab[s].state = "done"
    BY Zenon
  <2> HIDE DEF done
  <2>4. JobInv'
    BY Zenon, <2>1, <2>2, <2>3, ReleaseStep
  <2> QED
    BY Zenon, <1>0, <2>1, <2>4, FixedFrames, NotForking DEF Forking
<1>3. CASE WaitForJob
  <2>1. mode' = mode /\ saved' = saved /\ cur.pc = "waitfor"
    BY Zenon, <1>3 DEF WaitForJob
  <2>2. CASE Reap(cur.job) /\ UNCHANGED cur
    BY Zenon, <2>1, <2>2, ReapStep, NotForking DEF Forking
  <2>3. CASE cur' = At("block") /\ UNCHANGED <<tabVars, kernelVars>>
    <3>1. jobtab' = jobtab /\ procs' = procs
      BY Zenon, <2>3 DEF tabVars, kernelVars
    <3> QED
      BY Zenon, <1>0, <3>1, <2>1, <2>3, SameTable, NotForking DEF Forking
  <2> QED
    BY Zenon, <1>3, <2>2, <2>3 DEF WaitForJob
<1>4. CASE WaitForJobEnds
  <2>1. mode' = mode /\ saved' = saved /\ procs' = procs /\ cur' = After
    BY <1>4, Zenon DEF WaitForJobEnds, kernelVars
  <2>2. JobInv'
    <3>1. CASE jobtab[cur.job].state = "stopped"
      <4>1. jobtab' = jobtab
        BY <1>4, <3>1, Zenon DEF WaitForJobEnds
      <4> QED
        BY Zenon, <4>1, <2>1, SameTable
    <3>2. CASE jobtab[cur.job].state # "stopped"
      <4>1. jobtab' = Freed(jobtab, {cur.job}) /\ jobtab[cur.job].state # "run"
        BY <1>4, <3>2, Zenon DEF WaitForJobEnds
      <4>2. \A s \in {cur.job} : s \in Slot /\ jobtab[s].used => jobtab[s].state = "done" \/ jobtab[s].ps = <<>>
        BY Zenon, <4>1, <3>2 DEF JobInv, Job
      <4>3. jobtab \in [Slot -> Job]
        BY Zenon DEF JobInv
      <4> QED
        BY <4>1, <4>2, <4>3, <2>1, FreeFinished
    <3> QED
      BY Zenon, <3>1, <3>2
  <2> QED
    BY Zenon, <2>1, <2>2, FixedFrames, NotForking DEF Forking
<1> QED
  BY Zenon, <1>1, <1>2, <1>3, <1>4

(* dowait between its system calls, and dotrap.                            *)
LEMMA SignalSteps ==
    ASSUME IInv, Block \/ Poll \/ Suspend \/ WaitBroken \/ Check \/ ClearPending \/ Scan \/ TrapEnds
    PROVE  IInv'
<1> USE FrameFacts
<1>0. /\ \A pc \in {"block", "poll", "susp", "eintr", "waitcmd", "waitfor", "cmd", "scan"} :
             At(pc) \in Frames /\ At(pc).pc = pc
      /\ At("cmd") \in SavedFrames /\ At("waitfor") \in SavedFrames
  BY AtType DEF Pc
<1>1. CASE Block \/ Suspend
  <2>1. /\ mode' = mode /\ saved' = saved /\ jobtab' = jobtab /\ procs' = procs
        /\ cur' \in {At("poll"), At("block")}
    BY Zenon, <1>1 DEF Block, Suspend, tabVars, kernelVars
  <2> QED
    BY Zenon, <1>0, <2>1, SameTable, NotForking DEF Forking
<1>2. CASE Poll
  <2>1. mode' = mode /\ saved' = saved
    BY Zenon, <1>2 DEF Poll
  <2>2. \/ Reap(cur.job) /\ cur' \in {At("waitcmd"), At("waitfor")}
        \/ UNCHANGED <<tabVars, kernelVars>> /\ cur' \in {At("eintr"), At("susp")}
    BY Zenon, <1>2 DEF Poll
  <2>3. JobInv'
    BY Zenon, <2>2, ReapStep, SameTable DEF tabVars, kernelVars
  <2> QED
    BY Zenon, <1>0, <2>1, <2>2, <2>3, NotForking DEF Forking
<1>3. CASE WaitBroken \/ Check \/ TrapEnds
  <2>1. mode' = mode /\ jobtab' = jobtab /\ procs' = procs
    BY Zenon, <1>3 DEF WaitBroken, Check, TrapEnds, tabVars, kernelVars
  <2>2. \/ cur' \in {After, At("cmd")} /\ saved' = saved
        \/ cur' = TrapFrame /\ \E f \in {At("cmd"), At("waitfor")} : saved' = <<f>> \o saved
        \/ cur' = TrapFrame /\ saved' = saved /\ saved # <<>>
    BY Zenon, <1>3 DEF WaitBroken, Check, TrapEnds
  <2>3. CASE cur' \in {After, At("cmd")} /\ saved' = saved
    BY Zenon, <1>0, <2>1, <2>3, FixedFrames, SameTable, NotForking DEF Forking
  <2>4. CASE cur' = TrapFrame /\ saved' \in Seq(SavedFrames) /\ saved' # <<>>
    <3>1. ForkInv'
      BY Zenon, <2>4, FixedFrames DEF ForkInv, Forking
    <3> QED
      BY Zenon, <3>1, <2>1, <2>4, FixedFrames, SameTable DEF IInv, FrameInv
  <2>5. \A f \in SavedFrames : <<f>> \o saved \in Seq(SavedFrames) /\ <<f>> \o saved # <<>>
    OBVIOUS
  <2> QED
    BY Zenon, <1>0, <2>2, <2>3, <2>4, <2>5
<1>4. CASE ClearPending \/ (Scan /\ gotsig)
  <2>1. /\ mode' = mode /\ jobtab' = jobtab /\ procs' = procs /\ saved' = saved
        /\ cur' \in {At("scan"), At("cmd")} /\ saved # <<>>
    BY Zenon, <1>4 DEF ClearPending, Scan, tabVars, kernelVars, IInv, FrameInv
  <2>2. ForkInv' /\ cur' \in Frames
    BY Zenon, <1>0, <2>1 DEF ForkInv, Forking
  <2> QED
    BY Zenon, <2>1, <2>2, SameTable DEF IInv, FrameInv
<1>5. CASE Scan /\ ~gotsig
  <2>1. /\ mode' = mode /\ jobtab' = jobtab /\ procs' = procs
        /\ cur' = Head(saved) /\ saved' = Tail(saved) /\ saved # <<>>
    BY Zenon, <1>5 DEF Scan, tabVars, kernelVars, IInv, FrameInv
  <2>2. Head(saved) \in SavedFrames /\ Tail(saved) \in Seq(SavedFrames)
    BY <2>1
  <2>3. cur' \in Frames /\ cur'.pc \in {"cmd", "waitfor"}
    BY Zenon, <2>1, <2>2 DEF SavedFrames, Frames, Pc
  <2>4. ForkInv'
    BY Zenon, <2>3 DEF ForkInv, Forking
  <2> QED
    BY Zenon, <2>1, <2>2, <2>3, <2>4, SameTable DEF IInv, FrameInv
<1> QED
  BY Zenon, <1>1, <1>2, <1>3, <1>4, <1>5

(* Children and signals leave the shell alone.                             *)
LEMMA OutsideSteps ==
    ASSUME IInv, (\E p \in Pid : ChildExits(p)) \/ ChildStops \/ Signal \/ Deliver \/ UNCHANGED shVars
    PROVE  IInv'
<1> USE FrameFacts
<1>1. mode' = mode /\ jobtab' = jobtab /\ cur' = cur /\ saved' = saved
  BY Zenon DEF ChildExits, ChildStops, Signal, Deliver, shVars, shellVars, tabVars
<1>2. JobInv' /\ Len(procs') = Len(procs)
  <2>1. CASE procs' = procs
    BY Zenon, <2>1, <1>1, SameTable
  <2>2. ASSUME NEW p \in DOMAIN procs, NEW c \in Child, procs[p].st # "gone", c.st # "gone",
               procs' = [procs EXCEPT ![p] = c]
        PROVE  JobInv' /\ Len(procs') = Len(procs)
    <3>1. JobInv'
      BY <2>2, <1>1, ChildStep, Zenon
    <3>2. procs \in Seq(Child)
      BY Zenon DEF JobInv
    <3> QED
      BY <3>1, <3>2, <2>2
  <2>3. CASE \E p \in Pid : ChildExits(p)
    <3>1. PICK p \in DOMAIN procs, c \in Final :
            /\ procs[p].st \in Alive
            /\ procs' = [procs EXCEPT ![p] = [st |-> "zombie", code |-> c, news |-> "none"]]
      BY <2>3, Zenon DEF ChildExits
    <3>2. [st |-> "zombie", code |-> c, news |-> "none"] \in Child
      BY Zenon DEF Child
    <3> QED
      BY <3>1, <3>2, <2>2, Zenon DEF Alive
  <2>4. CASE ChildStops
    <3>1. PICK p \in DOMAIN procs :
            /\ procs[p].st = "run"
            /\ procs' = [procs EXCEPT ![p] = [st |-> "stop", code |-> "ok", news |-> "stopped"]]
      BY <2>4, Zenon DEF ChildStops
    <3>2. [st |-> "stop", code |-> "ok", news |-> "stopped"] \in Child
      BY Zenon DEF Child, Final
    <3> QED
      BY <3>1, <3>2, <2>2, Zenon
  <2>5. CASE Signal \/ Deliver \/ UNCHANGED shVars
    BY Zenon, <2>1, <2>5 DEF Signal, Deliver, shVars, kernelVars
  <2> QED
    BY Zenon, <2>3, <2>4, <2>5
<1>3. ForkInv'
  BY Zenon, <1>1, <1>2 DEF IInv, ForkInv, Forking
<1> QED
  BY Zenon, <1>1, <1>2, <1>3 DEF IInv, FrameInv

(* The inductive invariant.                                                *)
THEOREM ShJobsInvariance == Spec => []IInv
<1>1. Init => IInv
  <2> SUFFICES ASSUME Init PROVE IInv
    BY Zenon
  <2>1. /\ mode \in Modes /\ saved = <<>> /\ procs = <<>> /\ jobtab = [s \in Slot |-> NoJob]
        /\ cur = Frame("cmd", "none", 0, 0, <<>>)
    BY Zenon DEF Init
  <2>2. cur \in Frames /\ cur.pc = "cmd"
    <3>1. "cmd" \in Pc /\ "none" \in Cmd
      BY Zenon DEF Pc, Cmd
    <3>2. 0 \in 0..NSlots /\ 0 \in Nat
      BY ShJobsAssumption
    <3>3. <<>> \in Seq(Pid)
      OBVIOUS
    <3> QED
      BY <2>1, <3>1, <3>2, <3>3, Zenon DEF Frame, Frames
  <2>3. NewJob \in Job
    <3>1. <<>> \in Seq(Proc)
      OBVIOUS
    <3>2. "run" \in {"run", "stopped", "done"} /\ TRUE \in BOOLEAN /\ FALSE \in BOOLEAN
      BY Zenon
    <3> QED
      BY <3>1, <3>2, Zenon DEF NewJob, Job
  <2>4. NoJob \in Job /\ ~NoJob.used
    BY <2>3, Zenon DEF NoJob, Job
  <2>5. jobtab \in [Slot -> Job] /\ \A s \in Slot : ~jobtab[s].used
    BY Zenon, <2>1, <2>4
  <2>6. \A s \in Slot, p \in Pid : ~Holds(s, p)
    BY Zenon, <2>5 DEF Holds
  <2>7. procs \in Seq(Child) /\ Len(procs) <= MaxForks /\ DOMAIN procs = {}
    BY <2>1, ShJobsAssumption
  <2>8. JobInv
    BY <2>5, <2>6, <2>7, Zenon DEF JobInv
  <2>9. ForkInv /\ FrameInv
    BY <2>1, <2>2 DEF ForkInv, Forking, FrameInv
  <2> QED
    BY Zenon, <2>8, <2>9 DEF IInv
<1>2. IInv /\ [Next]_shVars => IInv'
  BY Zenon, StartJobStep, CommandSteps, ZombieSteps, WaitSteps, SignalSteps, OutsideSteps DEF Next, Shell
<1> QED
  BY <1>1, <1>2, PTL DEF Spec

(* The job table and the kernel's children agree at every step of every    *)
(* shell, script or interactive, with or without "set -T" (dowait,         *)
(* freejob, makejob, forkshell, restartjob).                               *)
THEOREM TableMatchesChildren == Spec => []JobInv
<1>1. IInv => JobInv
  BY Zenon DEF IInv
<1> QED
  BY <1>1, ShJobsInvariance, PTL

-----------------------------------------------------------------------------
(* What the waits return.                                                  *)

(* The table and the kernel agree on each process of a job in use: one     *)
(* waited for is gone, with the status that was recorded, and one recorded *)
(* as stopped does not run.                                                *)
Agrees(x) ==
    /\ x.pid \in DOMAIN procs
    /\ x.st \in Final => procs[x.pid].st = "gone" /\ procs[x.pid].code = x.st
    /\ x.st = "stop" => procs[x.pid].st # "run"
Recorded ==
    /\ \A s \in Slot : jobtab[s].used => \A k \in DOMAIN jobtab[s].ps : Agrees(jobtab[s].ps[k])
    /\ \A p \in DOMAIN procs : procs[p].news = "stopped" => procs[p].st = "stop"

(* Without "set -T" no frame but the current one waits, a wait that can be *)
(* broken is that of the wait builtin, and the awaited job keeps its slot. *)
InDowait == {"block", "poll", "susp", "eintr"}
KeptInv ==
    ~mode.T =>
        /\ \A k \in DOMAIN saved : saved[k].pc = "cmd"
        /\ cur.pc \in InDowait \cup {"waitcmd"} => cur.cmd = "wait"
        /\ cur.pc = "waitfor" => cur.job # 0
        /\ cur.job # 0 /\ cur.pc \in InDowait \cup {"waitcmd", "waitfor"}
           => jobtab[cur.job].used /\ Pids(cur.job) = cur.asked /\ cur.asked # <<>>

(* What a wait has returned stays true until the next command.             *)
RetInv ==
    /\ ~mode.T /\ ret.kind = "status" =>
        /\ ret.asked \in Seq(Pid) /\ ret.asked # <<>>
        /\ \A k \in DOMAIN ret.asked : ret.asked[k] \in DOMAIN procs
    /\ Forking => ret = NoRet
    /\ StatusReal

StatusInv == Recorded /\ KeptInv /\ RetInv

(* What Settle does to the entries: only that of s changes, there only the *)
(* process p, and the awaited job is not freed.                            *)
LEMMA SettleEntry ==
    ASSUME JobInv, NEW s \in Slot, NEW p \in Pid, Holds(s, p),
           NEW st \in Alive \cup Final, NEW job, Settle(s, p, st, job)
    PROVE  /\ jobtab'[s].used =>
                  /\ DOMAIN jobtab'[s].ps = DOMAIN jobtab[s].ps
                  /\ \A k \in DOMAIN jobtab[s].ps :
                         jobtab'[s].ps[k] = IF jobtab[s].ps[k].pid = p /\ jobtab[s].ps[k].st \in Alive
                                            THEN [pid |-> p, st |-> st] ELSE jobtab[s].ps[k]
           /\ s = job => jobtab'[s].used
<1> DEFINE old == jobtab[s]
           ps == [k \in DOMAIN old.ps |->
                     IF old.ps[k].pid = p /\ old.ps[k].st \in Alive
                     THEN [pid |-> p, st |-> st] ELSE old.ps[k]]
           was == IF st = "run" THEN "run" ELSE old.state
           now == IF StateOf(ps) = "run" THEN was ELSE StateOf(ps)
           quiet == now = "run" \/ (s = job /\ old.foreground /\ now # "stopped")
           new == [old EXCEPT !.ps = ps, !.state = now, !.changed = @ \/ (mode.i /\ ~quiet)]
           tab == [jobtab EXCEPT ![s] = new]
<1>1. old \in Job /\ old.used
  BY Zenon DEF JobInv, Holds
<1>2. \/ jobtab' = tab
      \/ s # job /\ jobtab' = Freed(tab, {s})
  <2> HIDE DEF now, tab
  <2> QED
    BY Zenon DEF Settle, now, tab
<1>3. new.used = old.used /\ new.ps = ps
  <2> HIDE DEF ps, now, quiet
  <2> QED
    BY <1>1, Zenon DEF Job
<1> HIDE DEF new, quiet, now
<1>4. tab[s] = new
  BY Zenon DEF JobInv
<1> HIDE DEF tab
<1>5. CASE jobtab' = tab
  <2>1. jobtab'[s].used /\ jobtab'[s].ps = ps
    BY Zenon, <1>1, <1>3, <1>4, <1>5
  <2> QED
    BY Zenon, <2>1
<1>6. CASE s # job /\ jobtab' = Freed(tab, {s})
  <2>1. jobtab'[s] = IF mode.T THEN [tab[s] EXCEPT !.used = FALSE] ELSE NoJob
    BY Zenon, <1>6 DEF Freed
  <2>2. NoJob.used = FALSE
    BY Zenon DEF NoJob, NewJob
  <2>3. [tab[s] EXCEPT !.used = FALSE].used = FALSE
    BY <1>1, <1>4, Zenon DEF new, Job
  <2>4. jobtab'[s].used = FALSE
    BY Zenon, <2>1, <2>2, <2>3
  <2> QED
    BY Zenon, <1>6, <2>4
<1> QED
  BY Zenon, <1>2, <1>5, <1>6

(* Children that are gone stay so, with their status; no child starts to   *)
(* run.                                                                    *)
GoneStays ==
    /\ DOMAIN procs \subseteq DOMAIN procs'
    /\ \A p \in DOMAIN procs : procs[p].st = "gone" =>
           procs'[p].st = "gone" /\ procs'[p].code = procs[p].code
NoneStarts ==
    /\ DOMAIN procs' = DOMAIN procs
    /\ \A p \in DOMAIN procs : procs'[p].st = "run" => procs[p].st = "run"

(* The meaning of a status does not change.                                *)
LEMMA MeantKept ==
    ASSUME GoneStays, mode' = mode, NEW pids \in Seq(Pid), pids # <<>>,
           \A k \in DOMAIN pids : pids[k] \in DOMAIN procs,
           NEW val \in Final, Meant(pids, val)
    PROVE  Meant(pids, val)'
<1> DEFINE code(k) == IF procs[pids[k]].st = "gone" THEN procs[pids[k]].code ELSE "stop"
           codeN(k) == IF procs'[pids[k]].st = "gone" THEN procs'[pids[k]].code ELSE "stop"
<1>1. \A k \in DOMAIN pids : code(k) # "stop" => codeN(k) = code(k)
  BY Zenon DEF GoneStays
<1>2. val # "stop" /\ "ok" # "stop"
  BY Zenon DEF Final
<1>3. Len(pids) \in DOMAIN pids /\ DOMAIN pids = 1..Len(pids) /\ Len(pids) \in Nat
  BY SMTT(30)
<1> HIDE DEF code, codeN
<1>4. IF mode.pipefail
      THEN IF val = "ok" THEN \A k \in DOMAIN pids : code(k) = "ok"
           ELSE \E k \in DOMAIN pids : /\ code(k) = val
                                       /\ \A l \in k + 1 .. Len(pids) : code(l) = "ok"
      ELSE code(Len(pids)) = val
  BY Zenon DEF Meant, code
<1>5. \A k \in DOMAIN pids : \A l \in k + 1 .. Len(pids) : l \in DOMAIN pids
  BY <1>3
<1>6. IF mode'.pipefail
      THEN IF val = "ok" THEN \A k \in DOMAIN pids : codeN(k) = "ok"
           ELSE \E k \in DOMAIN pids : /\ codeN(k) = val
                                       /\ \A l \in k + 1 .. Len(pids) : codeN(l) = "ok"
      ELSE codeN(Len(pids)) = val
  BY Zenon, <1>1, <1>2, <1>3, <1>4, <1>5
<1> QED
  BY <1>6, Zenon DEF Meant, codeN

(* A nonempty set of positions of a sequence has a last one (LastPosition  *)
(* below proves it).                                                       *)
LastExists ==
    \A n \in Nat : \A S \in SUBSET (1..n) : S # {} => \E k \in S : \A l \in S : l <= k

(* getjobstatus of a job that does not run is what its processes exited    *)
(* with.                                                                   *)
LEMMA StatusMeant ==
    ASSUME LastExists, JobInv, Recorded, NEW s \in Slot, jobtab[s].used,
           jobtab[s].ps # <<>>, jobtab[s].state # "run"
    PROVE  /\ Pids(s) \in Seq(Pid) /\ Pids(s) # <<>>
           /\ \A k \in DOMAIN Pids(s) : Pids(s)[k] \in DOMAIN procs
           /\ getjobstatus(jobtab[s].ps) \in Final => Meant(Pids(s), getjobstatus(jobtab[s].ps))
<1> DEFINE ps == jobtab[s].ps
           pids == Pids(s)
           code(k) == IF procs[pids[k]].st = "gone" THEN procs[pids[k]].code ELSE "stop"
<1>1. ps \in Seq(Proc) /\ jobtab[s].state = StateOf(ps)
  BY Zenon DEF JobInv, Job
<1>2. /\ Len(ps) \in Nat /\ DOMAIN ps = 1..Len(ps) /\ Len(ps) \in DOMAIN ps
      /\ \A k \in DOMAIN ps : ps[k] \in Proc
  BY <1>1, SMTT(30)
<1>3. pids \in Seq(Pid) /\ pids = [k \in DOMAIN ps |-> ps[k].pid]
  BY Zenon, <1>1, PidsType DEF Pids, PidsOf
<1>4. /\ DOMAIN pids = DOMAIN ps /\ Len(pids) = Len(ps) /\ pids # <<>>
      /\ \A k \in DOMAIN ps : pids[k] = ps[k].pid
  BY <1>2, <1>3, SMTT(30)
<1>5. \A k \in DOMAIN ps : Agrees(ps[k]) /\ ps[k].st # "run"
  BY Zenon, <1>1, StateOfMeaning DEF Recorded
<1>6. ASSUME NEW k \in DOMAIN ps PROVE code(k) = ps[k].st
  <2>1. ps[k].pid \in Pid /\ ps[k].st \in Alive \cup Final
    BY Zenon, <1>2 DEF Proc
  <2>2. CASE ps[k].st \in Final
    BY Zenon, <1>4, <1>5, <2>2 DEF Agrees
  <2>3. CASE ps[k].st \in Alive
    <3>1. Holds(s, ps[k].pid)
      BY Zenon, <2>3 DEF Holds
    <3>2. procs[ps[k].pid].st # "gone"
      BY Zenon, <2>1, <3>1 DEF JobInv
    <3>3. ps[k].st = "stop"
      BY Zenon, <1>5, <2>3 DEF Alive
    <3> QED
      BY Zenon, <1>4, <3>2, <3>3
  <2> QED
    BY Zenon, <2>1, <2>2, <2>3
<1>7. \A k \in DOMAIN pids : pids[k] \in DOMAIN procs
  BY Zenon, <1>4, <1>5 DEF Agrees
<1>8. ASSUME getjobstatus(ps) \in Final PROVE Meant(pids, getjobstatus(ps))
  <2> DEFINE val == getjobstatus(ps)
             failed == {k \in DOMAIN ps : ps[k].st # "ok"}
             last == CHOOSE k \in failed : \A l \in failed : l <= k
  <2>1. val = IF mode.pipefail /\ failed # {} THEN ps[last].st ELSE ps[Len(ps)].st
    BY Zenon DEF getjobstatus
  <2>2. ASSUME failed # {}
        PROVE  /\ last \in failed
               /\ \A l \in last + 1 .. Len(ps) : ps[l].st = "ok"
    <3>1. failed \in SUBSET (1..Len(ps))
      BY Zenon, <1>2
    <3>2. \E k \in failed : \A l \in failed : l <= k
      BY Zenon, <1>2, <2>2, <3>1 DEF LastExists
    <3>3. last \in failed /\ \A l \in failed : l <= last
      BY <3>2, Zenon
    <3>4. last \in 1..Len(ps)
      BY Zenon, <3>1, <3>3
    <3> HIDE DEF last
    <3>5. ASSUME NEW l \in last + 1 .. Len(ps) PROVE ps[l].st = "ok"
      <4>1. l \in DOMAIN ps /\ ~(l <= last)
        BY SMTT(30), <1>2, <3>4
      <4> QED
        BY Zenon, <3>3, <4>1
    <3> QED
      BY Zenon, <3>3, <3>5
  <2> HIDE DEF val, last, code
  <2>3. IF mode.pipefail
        THEN IF val = "ok" THEN \A k \in DOMAIN pids : code(k) = "ok"
             ELSE \E k \in DOMAIN pids : /\ code(k) = val
                                         /\ \A l \in k + 1 .. Len(pids) : code(l) = "ok"
        ELSE code(Len(pids)) = val
    <3>1. CASE mode.pipefail /\ failed # {}
      <4>1. /\ last \in DOMAIN ps /\ ps[last].st # "ok" /\ val = ps[last].st
            /\ \A l \in last + 1 .. Len(ps) : ps[l].st = "ok"
        BY Zenon, <2>1, <2>2, <3>1
      <4>2. \A l \in last + 1 .. Len(ps) : l \in DOMAIN ps
        BY <1>2, <4>1
      <4>3. code(last) = val /\ \A l \in last + 1 .. Len(pids) : code(l) = "ok"
        BY Zenon, <1>4, <1>6, <4>1, <4>2
      <4> QED
        BY Zenon, <1>4, <3>1, <4>1, <4>3
    <3>2. CASE mode.pipefail /\ failed = {}
      <4>1. \A k \in DOMAIN ps : ps[k].st = "ok"
        BY Zenon, <3>2
      <4>2. val = "ok"
        BY Zenon, <1>2, <2>1, <3>2, <4>1
      <4> QED
        BY Zenon, <1>4, <1>6, <3>2, <4>1, <4>2
    <3>3. CASE ~mode.pipefail
      BY Zenon, <1>2, <1>4, <1>6, <2>1, <3>3
    <3> QED
      BY Zenon, <3>1, <3>2, <3>3
  <2> QED
    BY <2>3, Zenon DEF Meant, code, val
<1> QED
  BY Zenon, <1>3, <1>4, <1>7, <1>8

(* A step of the shell that leaves the children alone.                     *)
LEMMA RecordedSame ==
    ASSUME Recorded, procs' = procs,
           \A s \in Slot : jobtab'[s].used =>
               jobtab'[s].ps = <<>> \/ (jobtab[s].used /\ jobtab'[s].ps = jobtab[s].ps)
    PROVE  Recorded' /\ GoneStays /\ NoneStarts
<1>1. ASSUME NEW s \in Slot, jobtab'[s].used, NEW k \in DOMAIN jobtab'[s].ps
      PROVE  Agrees(jobtab[s].ps[k])'
  BY <1>1, SMTT(30) DEF Recorded, Agrees
<1> QED
  BY Zenon, <1>1 DEF Recorded, GoneStays, NoneStarts

(* A child exits or stops.                                                 *)
LEMMA ChildRecorded ==
    ASSUME JobInv, Recorded, jobtab' = jobtab, NEW p \in DOMAIN procs, procs[p].st \in Alive,
           NEW c \in Child, c.st \in {"zombie", "stop"}, c.news = "stopped" => c.st = "stop",
           procs' = [procs EXCEPT ![p] = c]
    PROVE  Recorded' /\ GoneStays /\ NoneStarts
<1>1. /\ DOMAIN procs' = DOMAIN procs /\ procs'[p] = c
      /\ \A q \in DOMAIN procs : q # p => procs'[q] = procs[q]
  BY Zenon DEF JobInv
<1>2. procs[p].st # "gone" /\ c.st # "run"
  BY Zenon DEF Alive
<1>3. \A x : Agrees(x) => Agrees(x)'
  BY Zenon, <1>1, <1>2 DEF Agrees
<1>4. GoneStays /\ NoneStarts
  BY Zenon, <1>1, <1>2 DEF GoneStays, NoneStarts
<1> QED
  BY Zenon, <1>1, <1>3, <1>4 DEF Recorded

(* wait3 and the rest of dowait; the job awaited keeps its slot.           *)
LEMMA ReapRecorded ==
    ASSUME JobInv, Recorded, NEW job, Reap(job)
    PROVE  /\ Recorded' /\ GoneStays /\ NoneStarts
           /\ job \in Slot /\ jobtab[job].used => jobtab'[job].used /\ Pids(job)' = Pids(job)
<1>1. PICK p \in Waitable :
        /\ procs' = [procs EXCEPT ![p] = [st |-> IF @.st = "zombie" THEN "gone" ELSE @.st,
                                          code |-> @.code, news |-> "none"]]
        /\ IF Holders(p) = {} THEN UNCHANGED tabVars
           ELSE \E s \in Holders(p) : Settle(s, p, Report(procs[p]), job)
  BY Zenon DEF Reap
<1>2. p \in DOMAIN procs /\ p \in Pid /\ procs[p] \in Child /\ procs \in Seq(Child)
  BY ShJobsAssumption, SMTT(30) DEF Waitable, JobInv, Pid
<1> DEFINE c == [st |-> IF procs[p].st = "zombie" THEN "gone" ELSE procs[p].st,
                 code |-> procs[p].code, news |-> "none"]
<1>3. /\ c.code = procs[p].code /\ c.news = "none"
      /\ c.st = IF procs[p].st = "zombie" THEN "gone" ELSE procs[p].st
  BY Zenon
<1>4. procs' = [procs EXCEPT ![p] = c]
  BY Zenon, <1>1
<1> HIDE DEF c
<1>5. /\ DOMAIN procs' = DOMAIN procs /\ procs'[p] = c
      /\ \A q \in DOMAIN procs : q # p => procs'[q] = procs[q]
  BY Zenon, <1>2, <1>4
<1>6. GoneStays /\ NoneStarts
  BY Zenon, <1>3, <1>5 DEF GoneStays, NoneStarts
<1>7. \A x : x.st \notin Alive \/ x.pid # p => (Agrees(x) => Agrees(x)')
  BY Zenon, <1>3, <1>5 DEF Agrees, Alive
<1>8. \A q \in DOMAIN procs' : procs'[q].news = "stopped" => procs'[q].st = "stop"
  BY Zenon, <1>3, <1>5 DEF Recorded
<1>9. CASE Holders(p) = {}
  <2>1. jobtab' = jobtab
    BY Zenon, <1>1, <1>9 DEF tabVars
  <2>2. ASSUME NEW s \in Slot, jobtab[s].used, NEW k \in DOMAIN jobtab[s].ps
        PROVE  Agrees(jobtab[s].ps[k])'
    <3>1. jobtab[s].ps[k].st \notin Alive \/ jobtab[s].ps[k].pid # p
      BY Zenon, <1>9, <2>2 DEF Holders, Holds
    <3> QED
      BY ZenonT(30), <1>7, <2>1, <2>2, <3>1 DEF Recorded, Agrees
  <2> QED
    BY Zenon, <1>6, <1>8, <2>1, <2>2 DEF Recorded, Pids
<1>10. CASE Holders(p) # {}
  <2> DEFINE st == Report(procs[p])
  <2>1. PICK s \in Slot : Holds(s, p) /\ Settle(s, p, st, job)
    BY Zenon, <1>1, <1>10 DEF Holders
  <2>2. /\ st \in Alive \cup Final
        /\ procs[p].st = "zombie" => st = procs[p].code
        /\ st \in Final => procs[p].st = "zombie"
        /\ st = "stop" => procs[p].news = "stopped"
    BY Zenon, <1>2 DEF Report, Child, Alive, Final
  <2> HIDE DEF st
  <2>3. \A t \in Slot : t # s => jobtab'[t] = jobtab[t]
    BY Zenon, <1>2, <2>1, <2>2, SettleStep
  <2>4. /\ jobtab'[s].used =>
               /\ DOMAIN jobtab'[s].ps = DOMAIN jobtab[s].ps
               /\ \A k \in DOMAIN jobtab[s].ps :
                      jobtab'[s].ps[k] = IF jobtab[s].ps[k].pid = p /\ jobtab[s].ps[k].st \in Alive
                                         THEN [pid |-> p, st |-> st] ELSE jobtab[s].ps[k]
        /\ s = job => jobtab'[s].used
    BY ZenonT(30), <1>2, <2>1, <2>2, SettleEntry
  <2>5. ASSUME NEW x, x = [pid |-> p, st |-> st] PROVE Agrees(x)'
    <3>1. x.pid = p /\ x.st = st
      BY Zenon, <2>5
    <3>2. st \in Final => procs'[p].st = "gone" /\ procs'[p].code = st
      BY Zenon, <1>3, <1>5, <2>2
    <3>3. st = "stop" => procs'[p].st # "run"
      BY Zenon, <1>2, <1>3, <1>5, <2>2 DEF Recorded
    <3> QED
      BY Zenon, <1>2, <1>5, <3>1, <3>2, <3>3 DEF Agrees
  <2>6. ASSUME NEW t \in Slot, jobtab'[t].used, NEW k \in DOMAIN jobtab'[t].ps
        PROVE  Agrees(jobtab[t].ps[k])'
    <3>1. CASE t # s
      <4>1. jobtab'[t] = jobtab[t]
        BY Zenon, <2>3, <3>1
      <4>2. jobtab[t].ps[k].st \notin Alive \/ jobtab[t].ps[k].pid # p
        BY Zenon, <1>2, <2>1, <2>6, <3>1, <4>1 DEF JobInv, Holds
      <4>3. Agrees(jobtab[t].ps[k])
        BY Zenon, <2>6, <4>1 DEF Recorded
      <4> QED
        BY Zenon, <1>7, <4>1, <4>2, <4>3 DEF Agrees
    <3>2. CASE t = s
      <4>1. CASE jobtab[s].ps[k].pid = p /\ jobtab[s].ps[k].st \in Alive
        BY ZenonT(30), <2>4, <2>5, <2>6, <3>2, <4>1 DEF Agrees
      <4>2. CASE ~(jobtab[s].ps[k].pid = p /\ jobtab[s].ps[k].st \in Alive)
        <5>1. k \in DOMAIN jobtab[s].ps /\ jobtab'[s].ps[k] = jobtab[s].ps[k]
          BY Zenon, <2>4, <2>6, <3>2, <4>2
        <5>2. Agrees(jobtab[s].ps[k])
          BY Zenon, <2>1, <5>1 DEF Recorded, Holds
        <5> QED
          BY Zenon, <1>7, <3>2, <4>2, <5>1, <5>2 DEF Agrees
      <4> QED
        BY Zenon, <4>1, <4>2
    <3> QED
      BY Zenon, <3>1, <3>2
  <2>7. ASSUME job \in Slot, jobtab[job].used
        PROVE  jobtab'[job].used /\ Pids(job)' = Pids(job)
    <3>1. CASE job # s
      BY Zenon, <2>3, <2>7, <3>1 DEF Pids
    <3>2. CASE job = s
      <4>1. jobtab'[s].used
        BY ZenonT(30), <2>4, <3>2
      <4>2. /\ DOMAIN jobtab'[s].ps = DOMAIN jobtab[s].ps
            /\ \A k \in DOMAIN jobtab[s].ps : jobtab'[s].ps[k].pid = jobtab[s].ps[k].pid
        <5>1. [pid |-> p, st |-> st].pid = p
          BY Zenon
        <5> QED
          BY Zenon, <2>4, <4>1, <5>1
      <4> QED
        BY Zenon, <3>2, <4>1, <4>2 DEF Pids, PidsOf
    <3> QED
      BY Zenon, <3>1, <3>2
  <2>8. Recorded'
    BY Zenon, <1>8, <2>6 DEF Recorded
  <2> QED
    BY Zenon, <1>6, <2>7, <2>8
<1> QED
  BY Zenon, <1>9, <1>10

(* forkshell.                                                              *)
LEMMA ForkRecorded ==
    ASSUME IInv, Recorded, Fork
    PROVE  Recorded' /\ GoneStays
<1> DEFINE s == cur.job
           pid == Len(procs) + 1
<1>1. /\ JobInv /\ s \in Slot /\ jobtab[s].used /\ procs \in Seq(Child)
      /\ jobtab[s].ps \in Seq(Proc)
  BY Zenon DEF IInv, ForkInv, Forking, Fork, JobInv, Job
<1>2. /\ jobtab'[s].ps = Append(jobtab[s].ps, [pid |-> pid, st |-> "run"])
      /\ \A t \in Slot : t # s /\ jobtab'[t].used => jobtab'[t] = jobtab[t]
  BY Zenon, ForkStep
<1>3. procs' = Append(procs, [st |-> "run", code |-> "ok", news |-> "none"])
  BY Zenon DEF Fork
<1>4. /\ DOMAIN procs \subseteq DOMAIN procs' /\ pid \in DOMAIN procs'
      /\ \A q \in DOMAIN procs : procs'[q] = procs[q]
      /\ \A q \in DOMAIN procs' : q \in DOMAIN procs \/ q = pid
  BY <1>1, <1>3
<1>5. procs'[pid] = [st |-> "run", code |-> "ok", news |-> "none"]
  BY <1>1, <1>3
<1>6. GoneStays
  BY Zenon, <1>4 DEF GoneStays
<1>7. \A x : Agrees(x) => Agrees(x)'
  BY Zenon, <1>4 DEF Agrees
<1> HIDE DEF pid
<1>8. ASSUME NEW t \in Slot, jobtab'[t].used, NEW k \in DOMAIN jobtab'[t].ps
      PROVE  Agrees(jobtab[t].ps[k])'
  <2>1. CASE t # s
    <3>1. jobtab'[t] = jobtab[t]
      BY Zenon, <1>2, <1>8, <2>1
    <3>2. Agrees(jobtab[t].ps[k])
      BY Zenon, <1>8, <3>1 DEF Recorded
    <3> QED
      BY Zenon, <1>7, <3>1, <3>2 DEF Agrees
  <2>2. CASE t = s
    <3> DEFINE x == [pid |-> pid, st |-> "run"]
               was == jobtab[s].ps
    <3>1. x.pid = pid /\ x.st = "run"
      BY Zenon 
    <3> HIDE DEF x
    <3>2. was \in Seq(Proc) /\ jobtab'[s].ps = Append(was, x)
      BY Zenon, <1>1, <1>2 DEF x
    <3> HIDE DEF was
    <3>3. \/ k \in DOMAIN was /\ jobtab'[s].ps[k] = was[k]
          \/ jobtab'[s].ps[k] = x
      BY SMTT(30), <1>8, <2>2, <3>2
    <3>4. CASE k \in DOMAIN was /\ jobtab'[s].ps[k] = was[k]
      <4>1. Agrees(was[k])
        BY Zenon, <1>1, <3>4 DEF Recorded, was
      <4> QED
        BY Zenon, <1>4, <2>2, <3>4, <4>1 DEF Agrees
    <3>5. CASE jobtab'[s].ps[k] = x
      BY Zenon, <1>4, <2>2, <3>1, <3>5 DEF Agrees, Final
    <3> QED
      BY Zenon, <3>3, <3>4, <3>5
  <2> QED
    BY ZenonT(30), <2>1, <2>2
<1>9. \A q \in DOMAIN procs' : procs'[q].news = "stopped" => procs'[q].st = "stop"
  BY SMTT(30), <1>4, <1>5 DEF Recorded
<1> QED
  BY Zenon, <1>6, <1>8, <1>9 DEF Recorded

(* restartjob: the pids of a job are those of no other.                    *)
LEMMA RestartRecorded ==
    ASSUME JobInv, Recorded, NEW s \in Slot, jobtab[s].used, NEW fg \in BOOLEAN, restartjob(s, fg)
    PROVE  /\ Recorded' /\ GoneStays
           /\ jobtab'[s].used /\ Pids(s)' = Pids(s) /\ (jobtab'[s].ps = <<>> <=> jobtab[s].ps = <<>>)
<1> DEFINE old == jobtab[s]
           ps == [k \in DOMAIN old.ps |->
                     IF old.ps[k].st = "stop" THEN [pid |-> old.ps[k].pid, st |-> "run"] ELSE old.ps[k]]
<1>1. CASE old.state = "done"
  <2>1. jobtab' = jobtab /\ procs' = procs
    BY Zenon, <1>1 DEF restartjob
  <2> QED
    BY Zenon, <2>1, RecordedSame DEF Pids
<1>2. CASE old.state # "done"
  <2>1. old \in Job /\ old.ps \in Seq(Proc)
    BY Zenon DEF JobInv, Job
  <2> DEFINE st == IF ps = old.ps THEN old.state ELSE "run"
             new == [old EXCEPT !.ps = ps, !.foreground = fg, !.state = st]
  <2>2. /\ jobtab' = [jobtab EXCEPT ![s] = new]
        /\ procs' = [p \in DOMAIN procs |->
               IF procs[p].st = "stop" /\ \E k \in DOMAIN ps : ps[k].pid = p
               THEN [st |-> "run", code |-> procs[p].code, news |-> "continued"] ELSE procs[p]]
    BY <1>2, Zenon DEF restartjob
  <2>3. /\ DOMAIN ps = DOMAIN old.ps
        /\ \A k \in DOMAIN old.ps : /\ ps[k].pid = old.ps[k].pid /\ ps[k].st # "stop"
                                    /\ ps[k].st \in Final => ps[k] = old.ps[k]
    BY Zenon DEF Final
  <2> HIDE DEF ps, st
  <2>4. new.used = old.used /\ new.ps = ps
    BY <2>1, Zenon DEF Job
  <2> HIDE DEF new
  <2>5. jobtab'[s] = new /\ \A t \in Slot : t # s => jobtab'[t] = jobtab[t]
    BY Zenon, <2>2 DEF JobInv
  <2>6. /\ DOMAIN procs' = DOMAIN procs
        /\ \A p \in DOMAIN procs :
               \/ procs'[p] = procs[p]
               \/ /\ procs[p].st = "stop" /\ \E k \in DOMAIN old.ps : old.ps[k].pid = p
                  /\ procs'[p].st = "run" /\ procs'[p].news = "continued"
    BY Zenon, <2>2, <2>3
  <2>7. GoneStays
    BY Zenon, <2>6 DEF GoneStays
  <2>8. \A p \in DOMAIN procs' : procs'[p].news = "stopped" => procs'[p].st = "stop"
    BY SMTT(30), <2>6 DEF Recorded
  <2>9. ASSUME NEW t \in Slot, jobtab'[t].used, NEW k \in DOMAIN jobtab'[t].ps
        PROVE  Agrees(jobtab[t].ps[k])'
    <3>1. CASE t = s
      <4>1. jobtab'[t].ps[k] = ps[k] /\ k \in DOMAIN old.ps /\ Agrees(old.ps[k])
        BY Zenon, <2>3, <2>4, <2>5, <2>9, <3>1 DEF Recorded
      <4>2. ps[k].pid \in DOMAIN procs'
        BY Zenon, <2>3, <2>6, <4>1 DEF Agrees
      <4>3. ps[k].st \in Final => procs'[ps[k].pid].st = "gone" /\ procs'[ps[k].pid].code = ps[k].st
        BY Zenon, <2>3, <2>7, <4>1 DEF Agrees, GoneStays
      <4> QED
        BY Zenon, <2>3, <4>1, <4>2, <4>3 DEF Agrees
    <3>2. CASE t # s
      <4> DEFINE x == jobtab[t].ps[k]
      <4>1. jobtab'[t] = jobtab[t] /\ Agrees(x) /\ k \in DOMAIN jobtab[t].ps
            /\ jobtab[t].used
        BY Zenon, <2>5, <2>9, <3>2 DEF Recorded
      <4>2. x.pid \in Pid
        <5>1. jobtab[t].ps \in Seq(Proc)
          BY Zenon DEF JobInv, Job
        <5>2. x \in Proc
          BY SMTT(30), <4>1, <5>1
        <5> QED
          BY Zenon, <5>2 DEF Proc
      <4>3. ASSUME x.st = "stop" PROVE procs'[x.pid].st # "run"
        <5>1. Holds(t, x.pid) /\ procs[x.pid].st # "gone"
          BY Zenon, <4>1, <4>2, <4>3 DEF Holds, Alive, JobInv
        <5>2. ASSUME NEW l \in DOMAIN old.ps, old.ps[l].pid = x.pid PROVE FALSE
          <6>0. old.ps[l] \in Proc
            BY SMTT(30), <2>1, <5>2
          <6>1. old.ps[l].st \in Alive \cup Final
            BY Zenon, <6>0 DEF Proc
          <6>2. CASE old.ps[l].st \in Alive
            BY ZenonT(30), <3>2, <4>2, <5>1, <5>2, <6>2 DEF JobInv, Holds
          <6>3. CASE old.ps[l].st \in Final
            <7>1. Agrees(old.ps[l])
              BY Zenon, <5>2 DEF Recorded
            <7> QED
              BY Zenon, <5>1, <5>2, <6>3, <7>1 DEF Agrees
          <6> QED
            BY Zenon, <6>1, <6>2, <6>3
        <5>3. procs'[x.pid] = procs[x.pid]
          BY Zenon, <2>6, <4>1, <5>2 DEF Agrees
        <5> QED
          BY Zenon, <4>1, <4>3, <5>3 DEF Agrees
      <4>4. x.st \in Final => procs'[x.pid].st = "gone" /\ procs'[x.pid].code = x.st
        BY Zenon, <2>7, <4>1 DEF Agrees, GoneStays
      <4> QED
        BY Zenon, <2>6, <4>1, <4>3, <4>4 DEF Agrees
    <3> QED
      BY Zenon, <3>1, <3>2
  <2>10. Pids(s)' = Pids(s)
    BY ZenonT(30), <2>3, <2>4, <2>5 DEF Pids, PidsOf
  <2>11. ps = <<>> <=> old.ps = <<>>
    <3>1. ps = [k \in DOMAIN old.ps |-> ps[k]]
      BY Zenon DEF ps
    <3> QED
      BY Zenon, <2>1, <3>1, EmptyTogether
  <2> QED
    BY Zenon, <2>4, <2>5, <2>7, <2>8, <2>9, <2>10, <2>11 DEF Recorded
<1> QED
  BY Zenon, <1>1, <1>2

(* What was returned stays true while no command starts a child.           *)
LEMMA RetKept ==
    ASSUME RetInv, mode' = mode, ret' = ret, GoneStays, NoneStarts \/ ret.kind # "all",
           Forking' => ret = NoRet
    PROVE  RetInv'
<1>1. ASSUME ~mode.T, ret.kind = "status"
      PROVE  /\ ret'.asked \in Seq(Pid) /\ ret'.asked # <<>>
             /\ \A k \in DOMAIN ret'.asked : ret'.asked[k] \in DOMAIN procs'
  BY Zenon, <1>1 DEF RetInv, GoneStays
<1>2. ASSUME ~mode.T, ret.kind = "status", ret.val \in Final
      PROVE  Meant(ret.asked, ret.val)'
  <2>1. /\ ret.asked \in Seq(Pid) /\ ret.asked # <<>>
        /\ \A k \in DOMAIN ret.asked : ret.asked[k] \in DOMAIN procs
        /\ Meant(ret.asked, ret.val)
    BY Zenon, <1>2 DEF RetInv, StatusReal
  <2>2. \A pids \in Seq(Pid), val \in Final :
            /\ pids # <<>> /\ \A k \in DOMAIN pids : pids[k] \in DOMAIN procs
            /\ Meant(pids, val)
            => Meant(pids, val)'
    BY Zenon, MeantKept
  <2>3. PICK pids \in Seq(Pid), val \in Final : pids = ret.asked /\ val = ret.val
    BY Zenon, <1>2, <2>1
  <2>4. Meant(pids, val)'
    BY Zenon, <2>1, <2>2, <2>3
  <2> QED
    BY <2>3, <2>4, Zenon DEF Meant
<1>3. ret.kind = "all" => \A p \in DOMAIN procs' : procs'[p].st # "run"
  BY Zenon DEF RetInv, StatusReal, NoneStarts
<1>4. StatusReal'
  BY Zenon, <1>2, <1>3 DEF StatusReal
<1> QED
  BY Zenon, <1>1, <1>4 DEF RetInv

(* The start of a command.                                                 *)
LEMMA RetReset ==
    ASSUME ret' = NoRet
    PROVE  RetInv'
<1>1. NoRet.kind = "none"
  BY Zenon DEF NoRet
<1> QED
  BY Zenon, <1>1 DEF RetInv, StatusReal

(* Steps to a place where nothing is awaited.                              *)
LEMMA KeptElsewhere ==
    ASSUME KeptInv, mode' = mode, saved' = saved,
           cur'.pc \notin InDowait \cup {"waitcmd", "waitfor"}
    PROVE  KeptInv'
BY Zenon DEF KeptInv

(* The commands of the script.                                             *)
LEMMA StatusCommands ==
    ASSUME IInv, StatusInv,
           StartJob \/ Fork \/ ForkFails \/ DollarBang \/ Wait \/ FgBg \/ ShowJobs
    PROVE  StatusInv'
<1> USE FrameFacts DEF StatusInv
<1>1. CASE StartJob
  <2>1. PICK n \in 1..2, cmd \in {"fg", "bg"}, s \in Slot \ Used :
          /\ jobtab' = [jobtab EXCEPT ![s] = NewJob]
          /\ cur' = Frame(IF cmd = "bg" THEN "zombies" ELSE "fork", cmd, s, n, <<>>)
    BY <1>1, Zenon DEF StartJob
  <2>2. mode' = mode /\ saved' = saved /\ procs' = procs /\ ret' = NoRet
    BY Zenon, <1>1 DEF StartJob, kernelVars, Ready
  <2>3. NewJob.ps = <<>>
    BY Zenon DEF NewJob
  <2>4. \A t \in Slot : jobtab'[t] = jobtab[t] \/ jobtab'[t].ps = <<>>
    BY Zenon, <2>1, <2>3 DEF JobInv
  <2>5. Recorded'
    BY Zenon, <2>2, <2>4, RecordedSame
  <2>6. cur'.pc \in {"zombies", "fork"}
    BY Zenon, <2>1 DEF Frame
  <2> QED
    BY Zenon, <2>2, <2>5, <2>6, RetReset, KeptElsewhere DEF InDowait
<1>2. CASE Fork
  <2>1. Recorded' /\ GoneStays
    BY Zenon, <1>2, ForkRecorded
  <2>2. mode' = mode /\ saved' = saved /\ ret' = ret /\ cur.pc = "fork"
    BY Zenon, <1>2 DEF Fork
  <2>3. ret = NoRet
    BY Zenon, <2>2 DEF RetInv, Forking
  <2>4. RetInv'
    BY Zenon, <2>2, <2>3, RetReset
  <2>5. CASE cur.left > 1
    <3>1. cur' = [cur EXCEPT !.left = cur.left - 1]
      BY Zenon, <1>2, <2>5 DEF Fork
    <3>2. cur'.pc = "fork"
      BY Zenon, <2>2, <3>1 DEF Frames
    <3> QED
      BY Zenon, <2>1, <2>2, <2>4, <3>2, KeptElsewhere DEF InDowait
  <2>6. CASE ~(cur.left > 1)
    <3> DEFINE ps == jobtab'[cur.job].ps
    <3>1. jobtab'[cur.job].used /\ ps = Append(jobtab[cur.job].ps, [pid |-> Len(procs) + 1, st |-> "run"])
      BY Zenon, <1>2, ForkStep
    <3>2. cur' = After \/ cur' = Frame("waitfor", "fg", cur.job, 0, PidsOf(ps))
      BY <1>2, <2>6, <3>1, Zenon DEF Fork
    <3>3. CASE cur' = After
      BY Zenon, <2>1, <2>2, <2>4, <3>3, FixedFrames, KeptElsewhere DEF InDowait
    <3>4. CASE cur' = Frame("waitfor", "fg", cur.job, 0, PidsOf(ps))
      <4>1. cur.job \in Slot /\ cur.job # 0 /\ jobtab[cur.job].ps \in Seq(Proc)
        <5>1. cur.job \in Slot /\ jobtab[cur.job] \in Job
          BY Zenon, <2>2 DEF IInv, ForkInv, Forking, JobInv
        <5>2. cur.job # 0
          BY <5>1 DEF Slot
        <5> QED
          BY Zenon, <5>1, <5>2 DEF Job
      <4>2. DOMAIN ps # {}
        <5> DEFINE was == jobtab[cur.job].ps
                   x == [pid |-> Len(procs) + 1, st |-> "run"]
        <5>1. was \in Seq(Proc) /\ ps = Append(was, x)
          BY Zenon, <3>1, <4>1
        <5> HIDE DEF was, x, ps
        <5> QED
          BY <5>1
      <4>3. PidsOf(ps) # <<>>
        BY <4>2 DEF PidsOf
      <4>4. cur'.pc = "waitfor" /\ cur'.job = cur.job /\ cur'.asked = PidsOf(ps)
        BY Zenon, <3>4 DEF Frame
      <4>5. Pids(cur.job)' = PidsOf(jobtab'[cur'.job].ps)
        BY Zenon, <4>4 DEF Pids
      <4>6. KeptInv'
        BY Zenon, <2>2, <3>1, <4>1, <4>3, <4>4 DEF KeptInv, InDowait, Pids
      <4> QED
        BY ZenonT(30), <2>1, <2>4, <4>6
    <3> QED
      BY Zenon, <3>2, <3>3, <3>4
  <2> QED
    BY Zenon, <2>5, <2>6
<1>3. CASE ForkFails
  <2>1. mode' = mode /\ saved' = <<>> /\ jobtab' = jobtab /\ procs' = procs /\ ret' = ret
    BY Zenon, <1>3 DEF ForkFails, tabVars, kernelVars
  <2>2. cur'.pc \in {"check", "over"}
    BY Zenon, <1>3 DEF ForkFails, Frame
  <2>3. Recorded' /\ GoneStays /\ NoneStarts
    BY Zenon, <2>1, RecordedSame
  <2>4. RetInv'
    BY Zenon, <2>1, <2>2, <2>3, RetKept DEF Forking
  <2>5. KeptInv'
    BY <2>1, <2>2 DEF KeptInv, InDowait
  <2> QED
    BY Zenon, <2>3, <2>4, <2>5
<1>4. CASE DollarBang
  <2>1. mode' = mode /\ saved' = saved /\ procs' = procs /\ cur' = After /\ ret' = NoRet
        /\ jobtab' = [jobtab EXCEPT ![bgjob].remembered = TRUE]
    BY Zenon, <1>4 DEF DollarBang, kernelVars, Ready
  <2>2. \A j \in Job : LET r == [j EXCEPT !.remembered = TRUE]
                       IN  r.used = j.used /\ r.ps = j.ps
    BY Zenon DEF Job
  <2>3. \A t \in Slot : \/ jobtab'[t] = jobtab[t]
                        \/ jobtab'[t] = [jobtab[t] EXCEPT !.remembered = TRUE]
    BY <2>1, Zenon DEF JobInv
  <2>4. ASSUME NEW t \in Slot PROVE jobtab'[t].used = jobtab[t].used /\ jobtab'[t].ps = jobtab[t].ps
    <3>1. jobtab[t] \in Job
      BY Zenon DEF JobInv
    <3> QED
      BY <2>2, <2>3, <3>1, Zenon
  <2>5. Recorded'
    BY Zenon, <2>1, <2>4, RecordedSame
  <2> QED
    BY Zenon, <2>1, <2>5, FixedFrames, RetReset, KeptElsewhere DEF InDowait
<1>5. CASE Wait
  <2>1. mode' = mode /\ saved' = saved /\ jobtab' = jobtab /\ procs' = procs /\ ret' = NoRet
    BY Zenon, <1>5 DEF Wait, tabVars, kernelVars, Ready
  <2>2. PICK s, asked : /\ cur' = Frame("waitcmd", "wait", s, 0, asked)
                        /\ s = 0 \/ (s \in Named /\ asked = Pids(s))
    BY <1>5, Zenon DEF Wait
  <2>3. cur'.pc = "waitcmd" /\ cur'.cmd = "wait" /\ cur'.job = s /\ cur'.asked = asked
    BY Zenon, <2>2 DEF Frame
  <2>4. ASSUME s # 0 PROVE jobtab[s].used /\ Pids(s) = asked /\ asked # <<>>
    <3>1. s \in Slot /\ jobtab[s].used /\ jobtab[s].ps # <<>> /\ asked = Pids(s)
      BY Zenon, <2>2, <2>4 DEF Named, Used
    <3>2. jobtab[s].ps \in Seq(Proc)
      BY Zenon, <3>1 DEF JobInv, Job
    <3> QED
      BY Zenon, <3>1, <3>2, PidsNonempty DEF Pids
  <2>5. KeptInv'
    BY Zenon, <2>1, <2>3, <2>4 DEF KeptInv, InDowait, Pids
  <2> QED
    BY Zenon, <2>1, <2>5, RecordedSame, RetReset
<1>6. CASE FgBg
  <2>1. PICK s \in Named, fg \in BOOLEAN :
          restartjob(s, fg) /\ cur' = IF fg THEN Frame("waitfor", "fg", s, 0, Pids(s)) ELSE After
    BY Zenon, <1>6 DEF FgBg
  <2>2. mode' = mode /\ saved' = saved /\ ret' = NoRet
    BY Zenon, <1>6 DEF FgBg, Ready
  <2>3. s \in Slot /\ jobtab[s].used /\ jobtab[s].ps # <<>> /\ s # 0
    BY SMTT(30) DEF Named, Used, Slot
  <2>4. Recorded' /\ jobtab'[s].used /\ Pids(s)' = Pids(s)
    BY Zenon, <2>1, <2>3, RestartRecorded
  <2>5. Pids(s) # <<>>
    <3>1. jobtab[s].ps \in Seq(Proc)
      BY Zenon, <2>3 DEF JobInv, Job
    <3> QED
      BY Zenon, <2>3, <3>1, PidsNonempty DEF Pids
  <2>6. CASE fg
    <3>1. cur'.pc = "waitfor" /\ cur'.job = s /\ cur'.asked = Pids(s)
      BY Zenon, <2>1, <2>6 DEF Frame
    <3>2. KeptInv'
      BY Zenon, <2>2, <2>3, <2>4, <2>5, <3>1 DEF KeptInv, InDowait, Pids
    <3> QED
      BY Zenon, <2>2, <2>4, <3>2, RetReset
  <2>7. CASE ~fg
    BY Zenon, <2>1, <2>2, <2>4, <2>7, FixedFrames, RetReset, KeptElsewhere DEF InDowait
  <2> QED
    BY Zenon, <2>6, <2>7
<1>7. CASE ShowJobs
  <2>1. mode' = mode /\ saved' = saved /\ jobtab' = jobtab /\ procs' = procs /\ ret' = NoRet
    BY Zenon, <1>7 DEF ShowJobs, tabVars, kernelVars
  <2>2. cur'.pc = "zombies"
    BY SMTT(30), <1>7 DEF ShowJobs, Frame
  <2> QED
    BY Zenon, <2>1, <2>2, RecordedSame, RetReset, KeptElsewhere DEF InDowait
<1> QED
  BY Zenon, <1>1, <1>2, <1>3, <1>4, <1>5, <1>6, <1>7

(* checkzombies and showjobs.                                              *)
LEMMA StatusZombies ==
    ASSUME IInv, StatusInv, CheckZombies \/ Show
    PROVE  StatusInv'
<1> USE FrameFacts DEF StatusInv
<1>1. ASSUME CheckZombies, Reap(0), UNCHANGED cur PROVE StatusInv'
  <2>1. mode' = mode /\ saved' = saved /\ ret' = ret /\ cur.pc = "zombies"
    BY Zenon, <1>1 DEF CheckZombies
  <2>2. Recorded' /\ GoneStays /\ NoneStarts
    BY Zenon, <1>1, ReapRecorded
  <2>3. RetInv'
    BY Zenon, <1>1, <2>1, <2>2, RetKept DEF RetInv, Forking
  <2>4. KeptInv'
    BY Zenon, <1>1, <2>1, KeptElsewhere DEF InDowait
  <2> QED
    BY Zenon, <2>2, <2>3, <2>4
<1>2. ASSUME CheckZombies, cur' = At(IF cur.cmd = "bg" THEN "fork" ELSE "show"),
             UNCHANGED <<tabVars, kernelVars>>
      PROVE  StatusInv'
  <2>1. /\ mode' = mode /\ saved' = saved /\ ret' = ret /\ cur.pc = "zombies"
        /\ jobtab' = jobtab /\ procs' = procs
    BY Zenon, <1>2 DEF CheckZombies, tabVars, kernelVars
  <2>2. cur'.pc = IF cur.cmd = "bg" THEN "fork" ELSE "show"
    BY Zenon, <1>2, AtType DEF Pc
  <2>3. Recorded' /\ GoneStays /\ NoneStarts
    BY Zenon, <2>1, RecordedSame
  <2>4. Forking' => ret = NoRet
    BY Zenon, <2>1, <2>2 DEF Forking, RetInv
  <2>5. RetInv'
    BY Zenon, <2>1, <2>3, <2>4, RetKept
  <2>6. KeptInv'
    BY Zenon, <2>1, <2>2, KeptElsewhere DEF InDowait
  <2> QED
    BY <2>3, <2>5, <2>6
<1>3. CASE Show
  <2>1. mode' = mode /\ saved' = saved /\ ret' = ret /\ procs' = procs /\ cur' = After
    BY Zenon, <1>3 DEF Show, kernelVars
  <2>2. Recorded' /\ GoneStays /\ NoneStarts
    BY Zenon, <1>3, <2>1, ShowStep, RecordedSame DEF EntriesKept
  <2>3. RetInv' /\ KeptInv'
    BY Zenon, <2>1, <2>2, FixedFrames, RetKept, KeptElsewhere DEF Forking, InDowait
  <2> QED
    BY Zenon, <2>2, <2>3
<1> QED
  BY Zenon, <1>1, <1>2, <1>3 DEF CheckZombies

(* The waits.                                                              *)
LEMMA StatusWaits ==
    ASSUME LastExists, IInv, StatusInv, WaitCmdJob \/ WaitCmdAll \/ WaitForJob \/ WaitForJobEnds
    PROVE  StatusInv'
<1> USE FrameFacts DEF StatusInv
<1>0. cur.job \in 0..NSlots
  BY Zenon DEF Frames
<1>1. ASSUME cur.job \in Slot, cur.pc \in {"waitcmd", "waitfor"},
             jobtab[cur.job].state # "run", mode' = mode, procs' = procs, ~Forking',
             ret' = [kind |-> "status", asked |-> cur.asked,
                     val |-> getjobstatus(jobtab[cur.job].ps)]
      PROVE  RetInv'
  <2>1. ret'.kind = "status" /\ ret'.asked = cur.asked /\ ret'.val = getjobstatus(jobtab[cur.job].ps)
    BY Zenon, <1>1
  <2>2. ASSUME ~mode.T
        PROVE  /\ cur.asked \in Seq(Pid) /\ cur.asked # <<>>
               /\ \A k \in DOMAIN cur.asked : cur.asked[k] \in DOMAIN procs
               /\ ret'.val \in Final => Meant(ret.asked, ret.val)'
    <3>1. jobtab[cur.job].used /\ Pids(cur.job) = cur.asked /\ cur.asked # <<>>
      BY <1>1, <2>2, ShJobsAssumption, SMTT(30) DEF KeptInv, InDowait, Slot
    <3>2. jobtab[cur.job].ps # <<>>
      BY SMTT(30), <3>1 DEF Pids, PidsOf
    <3>3. /\ Pids(cur.job) \in Seq(Pid) /\ Pids(cur.job) # <<>>
          /\ \A k \in DOMAIN Pids(cur.job) : Pids(cur.job)[k] \in DOMAIN procs
          /\ getjobstatus(jobtab[cur.job].ps) \in Final
             => Meant(Pids(cur.job), getjobstatus(jobtab[cur.job].ps))
      BY Zenon, <1>1, <3>1, <3>2, StatusMeant
    <3>4. ret'.val \in Final => Meant(cur.asked, ret'.val)
      BY Zenon, <2>1, <3>1, <3>3
    <3>5. ret'.val \in Final => Meant(ret.asked, ret.val)'
      BY <1>1, <2>1, <3>4, ZenonT(30) DEF Meant
    <3> QED
      BY Zenon, <3>1, <3>3, <3>5
  <2>3. StatusReal'
    BY Zenon, <1>1, <2>1, <2>2 DEF StatusReal
  <2> QED
    BY Zenon, <1>1, <2>1, <2>2, <2>3 DEF RetInv
<1>2. CASE WaitCmdJob
  <2>1. mode' = mode /\ saved' = saved /\ procs' = procs /\ cur.pc = "waitcmd" /\ cur.job # 0
    BY Zenon, <1>2 DEF WaitCmdJob, kernelVars
  <2>2. cur.job \in Slot
    BY <1>0, <2>1, ShJobsAssumption DEF Slot
  <2>3. CASE jobtab[cur.job].state = "done"
    <3>1. /\ Release({cur.job}) /\ cur' = After
          /\ ret' = [kind |-> "status", asked |-> cur.asked,
                     val |-> getjobstatus(jobtab[cur.job].ps)]
      BY <1>2, <2>3, Zenon DEF WaitCmdJob
    <3>2. \A s \in {cur.job} : s \in Slot /\ jobtab[s].used => jobtab[s].state = "done"
      BY Zenon, <2>3
    <3>3. EntriesKept
      BY Zenon, <2>1, <3>1, <3>2, ReleaseStep
    <3>4. Recorded'
      BY Zenon, <2>1, <3>3, RecordedSame DEF EntriesKept
    <3>5. RetInv'
      BY Zenon, <1>1, <2>1, <2>2, <2>3, <3>1, FixedFrames DEF Forking
    <3>6. KeptInv'
      BY Zenon, <2>1, <3>1, FixedFrames, KeptElsewhere DEF InDowait
    <3> QED
      BY Zenon, <3>4, <3>5, <3>6
  <2>4. CASE jobtab[cur.job].state # "done"
    <3>1. cur' = At("block") /\ jobtab' = jobtab /\ ret' = ret
      BY <1>2, <2>4, Zenon DEF WaitCmdJob, tabVars
    <3>2. Recorded' /\ GoneStays /\ NoneStarts
      BY Zenon, <2>1, <3>1, RecordedSame
    <3>3. cur'.pc = "block"
      BY Zenon, <3>1, AtType DEF Pc
    <3>4. RetInv'
      BY Zenon, <2>1, <3>1, <3>2, <3>3, RetKept DEF Forking
    <3>5. mode.T \/ cur.cmd = "wait"
      BY Zenon, <2>1 DEF KeptInv
    <3>6. KeptInv'
      <4>1. Pids(cur.job)' = PidsOf(jobtab'[cur.job'].ps) /\ cur.job' = cur.job
            /\ cur.asked' = cur.asked /\ cur.cmd' = cur.cmd
        BY Zenon, <3>1 DEF Pids, At, Frames
      <4> QED
        BY Zenon, <2>1, <3>1, <3>3, <3>5, <4>1 DEF KeptInv, InDowait, Pids
    <3> QED
      BY Zenon, <3>2, <3>4, <3>6
  <2> QED
    BY Zenon, <2>3, <2>4
<1>3. CASE WaitCmdAll
  <2>1. /\ mode' = mode /\ saved' = saved /\ procs' = procs /\ cur.pc = "waitcmd" /\ cur.job = 0
        /\ IF \E s \in Used : jobtab[s].state = "run"
           THEN cur' = At("block") /\ UNCHANGED ret
           ELSE cur' = After /\ ret' = [NoRet EXCEPT !.kind = "all"]
    BY <1>3, Zenon DEF WaitCmdAll, kernelVars
  <2> DEFINE done == {s \in Used : jobtab[s].state = "done"}
  <2>2. Release(done)
    BY Zenon, <1>3 DEF WaitCmdAll
  <2>3. \A s \in done : s \in Slot /\ jobtab[s].used => jobtab[s].state = "done"
    BY Zenon
  <2> HIDE DEF done
  <2>4. EntriesKept
    BY Zenon, <2>1, <2>2, <2>3, ReleaseStep
  <2>5. Recorded' /\ GoneStays /\ NoneStarts
    BY Zenon, <2>1, <2>4, RecordedSame DEF EntriesKept
  <2>6. CASE \E s \in Used : jobtab[s].state = "run"
    <3>1. cur' = At("block") /\ ret' = ret
      BY Zenon, <2>1, <2>6
    <3>2. cur'.pc = "block" /\ cur'.job = 0 /\ cur'.cmd = cur.cmd
      BY Zenon, <2>1, <3>1, AtType DEF Pc
    <3>3. RetInv'
      BY Zenon, <2>1, <2>5, <3>1, <3>2, RetKept DEF Forking
    <3>4. KeptInv'
      BY Zenon, <2>1, <3>2 DEF KeptInv, InDowait
    <3> QED
      BY <2>5, <3>3, <3>4
  <2>7. CASE ~\E s \in Used : jobtab[s].state = "run"
    <3>1. cur' = After /\ ret' = [NoRet EXCEPT !.kind = "all"]
      BY Zenon, <2>1, <2>7
    <3>2. ret'.kind = "all"
      BY Zenon, <3>1 DEF NoRet
    <3>3. ASSUME NEW p \in DOMAIN procs, procs[p].st = "run" PROVE FALSE
      <4>1. p \in Pid
        BY ShJobsAssumption, SMTT(30) DEF JobInv, Pid
      <4>2. PICK s \in Slot : Holds(s, p)
        BY Zenon, <3>3 DEF JobInv
      <4>3. PICK k \in DOMAIN jobtab[s].ps : jobtab[s].ps[k].pid = p /\ jobtab[s].ps[k].st \in Alive
        BY Zenon, <4>2 DEF Holds
      <4>4. jobtab[s].ps[k].st # "stop"
        BY Zenon, <3>3, <4>2, <4>3 DEF Recorded, Agrees, Holds
      <4>5. jobtab[s].ps[k].st = "run"
        BY Zenon, <4>3, <4>4 DEF Alive
      <4>6. jobtab[s].used /\ jobtab[s].ps # <<>>
        BY SMTT(30), <4>2, <4>3 DEF Holds
      <4>7. jobtab[s].state = "run"
        BY Zenon, <4>3, <4>5, <4>6, StateOfMeaning DEF JobInv
      <4> QED
        BY Zenon, <2>7, <4>6, <4>7 DEF Used
    <3>4. StatusReal'
      BY Zenon, <2>1, <3>2, <3>3 DEF StatusReal
    <3>5. RetInv'
      BY Zenon, <3>1, <3>2, <3>4, FixedFrames DEF RetInv, Forking
    <3>6. KeptInv'
      BY Zenon, <2>1, <3>1, FixedFrames, KeptElsewhere DEF InDowait
    <3> QED
      BY <2>5, <3>5, <3>6
  <2> QED
    BY Zenon, <2>6, <2>7
<1>4. CASE WaitForJob
  <2>1. mode' = mode /\ saved' = saved /\ ret' = ret /\ cur.pc = "waitfor"
    BY Zenon, <1>4 DEF WaitForJob
  <2>2. CASE ~mode.T /\ Reap(cur.job) /\ UNCHANGED cur
    <3>1. cur.job \in Slot /\ jobtab[cur.job].used
      BY SMTT(30), <1>0, <2>1, <2>2, ShJobsAssumption DEF KeptInv, Slot
    <3>2. /\ Recorded' /\ GoneStays /\ NoneStarts
          /\ jobtab'[cur.job].used /\ Pids(cur.job)' = Pids(cur.job)
      <4>1. \A job : Reap(job) => /\ Recorded' /\ GoneStays /\ NoneStarts
                                  /\ job \in Slot /\ jobtab[job].used
                                     => jobtab'[job].used /\ PidsOf(jobtab'[job].ps) = Pids(job)
        BY Zenon, ReapRecorded DEF Pids
      <4> QED
        BY Zenon, <2>2, <3>1, <4>1 DEF Pids
    <3>3. RetInv'
      BY Zenon, <2>1, <2>2, <3>2, RetKept DEF Forking
    <3>4. KeptInv'
      BY Zenon, <2>1, <2>2, <3>1, <3>2 DEF KeptInv, InDowait, Pids
    <3> QED
      BY Zenon, <3>2, <3>3, <3>4
  <2>3. CASE mode.T /\ cur' = At("block") /\ UNCHANGED <<tabVars, kernelVars>>
    <3>1. jobtab' = jobtab /\ procs' = procs /\ cur'.pc = "block"
      BY Zenon, <2>3, AtType DEF tabVars, kernelVars, Pc
    <3>2. Recorded' /\ GoneStays /\ NoneStarts
      BY Zenon, <3>1, RecordedSame
    <3>3. RetInv'
      BY Zenon, <2>1, <3>1, <3>2, RetKept DEF Forking
    <3>4. KeptInv'
      BY Zenon, <2>1, <2>3 DEF KeptInv
    <3> QED
      BY <3>2, <3>3, <3>4
  <2> QED
    BY Zenon, <1>4, <2>2, <2>3 DEF WaitForJob
<1>5. CASE WaitForJobEnds
  <2>1. /\ mode' = mode /\ saved' = saved /\ procs' = procs /\ cur' = After
        /\ cur.pc = "waitfor" /\ jobtab[cur.job].state # "run"
        /\ ret' = [kind |-> "status", asked |-> cur.asked,
                   val |-> getjobstatus(jobtab[cur.job].ps)]
    BY <1>5, Zenon DEF WaitForJobEnds, kernelVars
  <2>2. Recorded'
    <3>1. CASE jobtab[cur.job].state = "stopped"
      <4>1. jobtab' = jobtab
        BY <1>5, <3>1, Zenon DEF WaitForJobEnds
      <4> QED
        BY Zenon, <2>1, <4>1, RecordedSame
    <3>2. CASE jobtab[cur.job].state # "stopped"
      <4>1. jobtab' = Freed(jobtab, {cur.job})
        BY <1>5, <3>2, Zenon DEF WaitForJobEnds
      <4>2. \A s \in {cur.job} : s \in Slot /\ jobtab[s].used => jobtab[s].state = "done" \/ jobtab[s].ps = <<>>
        BY Zenon, <2>1, <3>2 DEF JobInv, Job
      <4>3. jobtab \in [Slot -> Job]
        BY Zenon DEF JobInv
      <4>4. EntriesKept
        BY <2>1, <4>1, <4>2, <4>3, FreeFinished, SMTT(30)
      <4> QED
        BY Zenon, <2>1, <4>4, RecordedSame DEF EntriesKept
    <3> QED
      BY Zenon, <3>1, <3>2
  <2>3. RetInv'
    <3>1. CASE mode.T
      <4>1. ret'.kind = "status"
        BY Zenon, <2>1
      <4> QED
        BY Zenon, <2>1, <3>1, <4>1, FixedFrames DEF RetInv, StatusReal, Forking
    <3>2. CASE ~mode.T
      <4>1. cur.job \in Slot
        <5>1. cur.pc = "waitfor" /\ cur.job # 0
          BY Zenon, <2>1, <3>2 DEF KeptInv
        <5> QED
          BY <1>0, <5>1, ShJobsAssumption DEF Slot
      <4> QED
        BY ZenonT(30), <1>1, <2>1, <4>1, FixedFrames DEF Forking
    <3> QED
      BY Zenon, <3>1, <3>2
  <2>4. KeptInv'
    BY Zenon, <2>1, FixedFrames, KeptElsewhere DEF InDowait
  <2> QED
    BY <2>2, <2>3, <2>4
<1> QED
  BY Zenon, <1>2, <1>3, <1>4, <1>5

(* dowait between its system calls, and dotrap.                            *)
LEMMA StatusSignals ==
    ASSUME IInv, StatusInv,
           Block \/ Poll \/ Suspend \/ WaitBroken \/ Check \/ ClearPending \/ Scan \/ TrapEnds
    PROVE  StatusInv'
<1> USE FrameFacts DEF StatusInv
<1>0. \A pc \in {"block", "poll", "susp", "eintr", "waitcmd", "waitfor", "cmd", "scan"} : At(pc).pc = pc
  BY Zenon, AtType DEF Pc
<1>1. CASE Block \/ Suspend
  <2>1. /\ mode' = mode /\ saved' = saved /\ jobtab' = jobtab /\ procs' = procs /\ ret' = ret
        /\ cur.pc \in {"block", "susp"}
    BY Zenon, <1>1 DEF Block, Suspend, tabVars, kernelVars
  <2>2. PICK pc \in {"poll", "block"} : cur' = At(pc)
    BY Zenon, <1>1 DEF Block, Suspend
  <2>3. Recorded' /\ GoneStays /\ NoneStarts
    BY Zenon, <2>1, RecordedSame
  <2>4. RetInv'
    BY Zenon, <1>0, <2>1, <2>2, <2>3, RetKept DEF Forking
  <2>5. mode.T \/ cur.cmd = "wait"
    BY Zenon, <2>1 DEF KeptInv, InDowait
  <2>6. KeptInv'
    <3>1. pc \in InDowait /\ pc # "waitfor" /\ cur.pc \in InDowait
      BY Zenon, <2>1 DEF InDowait
    <3>2. cur'.pc = pc /\ cur'.job = cur.job /\ cur'.cmd = cur.cmd /\ cur'.asked = cur.asked
      BY Zenon, <1>0, <2>2 DEF At, Frames
    <3> QED
      BY Zenon, <2>1, <2>5, <3>1, <3>2 DEF KeptInv, Pids
  <2> QED
    BY Zenon, <2>3, <2>4, <2>6
<1>2. CASE Poll
  <2>1. mode' = mode /\ saved' = saved /\ ret' = ret /\ cur.pc = "poll"
    BY Zenon, <1>2 DEF Poll
  <2>2. mode.T \/ cur.cmd = "wait"
    BY Zenon, <2>1 DEF KeptInv, InDowait
  <2>3. CASE Reap(cur.job) /\ cur' = At(IF cur.cmd = "wait" THEN "waitcmd" ELSE "waitfor")
    <3>1. /\ Recorded' /\ GoneStays /\ NoneStarts
          /\ cur.job \in Slot /\ jobtab[cur.job].used
             => jobtab'[cur.job].used /\ PidsOf(jobtab'[cur.job].ps) = Pids(cur.job)
      <4>1. \A job : Reap(job) => /\ Recorded' /\ GoneStays /\ NoneStarts
                                  /\ job \in Slot /\ jobtab[job].used
                                     => jobtab'[job].used /\ PidsOf(jobtab'[job].ps) = Pids(job)
        BY Zenon, ReapRecorded DEF Pids
      <4> QED
        BY Zenon, <2>3, <4>1
    <3>2. cur'.pc \in {"waitcmd", "waitfor"} /\ (cur.cmd = "wait" => cur'.pc = "waitcmd")
      BY Zenon, <1>0, <2>3
    <3>3. RetInv'
      BY Zenon, <2>1, <3>1, <3>2, RetKept DEF Forking
    <3>4. KeptInv'
      <4>1. CASE mode.T
        BY Zenon, <2>1, <4>1 DEF KeptInv
      <4>2. CASE ~mode.T
        <5>1. cur'.pc = "waitcmd" /\ cur'.cmd = "wait" /\ cur'.job = cur.job /\ cur'.asked = cur.asked
          BY Zenon, <2>2, <2>3, <3>2, <4>2 DEF At, Frames
        <5>2. ASSUME cur.job # 0
              PROVE  jobtab'[cur.job].used /\ PidsOf(jobtab'[cur.job].ps) = cur.asked /\ cur.asked # <<>>
          <6>1. cur.job \in Slot
            BY <5>2, ShJobsAssumption DEF Frames, Slot
          <6> QED
            BY Zenon, <2>1, <3>1, <4>2, <5>2, <6>1 DEF KeptInv, InDowait
        <5> QED
          BY Zenon, <2>1, <4>2, <5>1, <5>2 DEF KeptInv, InDowait, Pids
      <4> QED
        BY Zenon, <4>1, <4>2
    <3> QED
      BY Zenon, <3>1, <3>3, <3>4
  <2>4. CASE UNCHANGED <<tabVars, kernelVars>> /\ cur' = At(IF Interrupted \/ NoChild THEN "eintr" ELSE "susp")
    <3>1. jobtab' = jobtab /\ procs' = procs
      BY Zenon, <2>4 DEF tabVars, kernelVars
    <3>2. PICK pc \in {"eintr", "susp"} : cur' = At(pc)
      BY Zenon, <2>4
    <3>3. Recorded' /\ GoneStays /\ NoneStarts
      BY Zenon, <3>1, RecordedSame
    <3>4. RetInv'
      BY Zenon, <1>0, <2>1, <3>2, <3>3, RetKept DEF Forking
    <3>5. KeptInv'
      <4>1. cur'.pc = pc /\ cur'.job = cur.job /\ cur'.cmd = cur.cmd /\ cur'.asked = cur.asked
        BY Zenon, <1>0, <3>2 DEF At, Frames
      <4>2. pc \in InDowait /\ pc # "waitfor" /\ cur.pc \in InDowait
        BY Zenon, <2>1 DEF InDowait
      <4> QED
        BY Zenon, <2>1, <2>2, <3>1, <4>1, <4>2 DEF KeptInv, Pids
    <3> QED
      BY Zenon, <3>3, <3>4, <3>5
  <2> QED
    BY Zenon, <1>2, <2>3, <2>4 DEF Poll
<1>3. CASE WaitBroken
  <2>1. mode' = mode /\ jobtab' = jobtab /\ procs' = procs /\ cur.pc = "eintr"
    BY Zenon, <1>3 DEF WaitBroken, tabVars, kernelVars
  <2>2. Recorded' /\ GoneStays /\ NoneStarts
    BY Zenon, <2>1, RecordedSame
  <2>3. CASE cur.cmd = "wait"
    <3>1. ret' = [NoRet EXCEPT !.kind = "broken", !.val = pendingsig_waitcmd] /\ cur' = After /\ saved' = saved
      BY Zenon, <1>3, <2>3 DEF WaitBroken
    <3>2. ret'.kind = "broken"
      BY Zenon, <3>1 DEF NoRet
    <3>3. RetInv'
      BY Zenon, <3>1, <3>2, FixedFrames DEF RetInv, StatusReal, Forking
    <3>4. KeptInv'
      BY Zenon, <2>1, <3>1, FixedFrames, KeptElsewhere DEF InDowait
    <3> QED
      BY Zenon, <2>2, <3>3, <3>4
  <2>4. CASE cur.cmd # "wait"
    <3>1. ret' = ret /\ cur' = TrapFrame
      BY Zenon, <1>3, <2>4 DEF WaitBroken
    <3>2. RetInv'
      BY Zenon, <2>1, <2>2, <3>1, FixedFrames, RetKept DEF Forking
    <3>3. KeptInv'
      BY Zenon, <2>1, <2>4 DEF KeptInv, InDowait
    <3> QED
      BY <2>2, <3>2, <3>3
  <2> QED
    BY Zenon, <2>3, <2>4
<1>4. CASE Check
  <2>1. mode' = mode /\ jobtab' = jobtab /\ procs' = procs /\ ret' = ret
    BY Zenon, <1>4 DEF Check, tabVars, kernelVars
  <2>2. Recorded' /\ GoneStays /\ NoneStarts
    BY Zenon, <2>1, RecordedSame
  <2>3. \/ saved' = <<At("cmd")>> \o saved /\ cur' = TrapFrame
        \/ cur' = At("cmd") /\ saved' = saved
    BY Zenon, <1>4 DEF Check
  <2>4. cur'.pc \in {"cmd", "dotrap"}
    BY Zenon, <1>0, <2>3, FixedFrames
  <2>5. ASSUME ~mode.T PROVE \A k \in DOMAIN saved' : saved'[k].pc = "cmd"
    <3>1. saved \in Seq(SavedFrames) /\ At("cmd") \in SavedFrames /\ At("cmd").pc = "cmd"
      BY Zenon, AtType DEF Pc
    <3>2. \A k \in DOMAIN saved : saved[k].pc = "cmd"
      BY Zenon, <2>5 DEF KeptInv
    <3>3. CASE saved' = <<At("cmd")>> \o saved
      BY <3>1, <3>2, <3>3
    <3> QED
      BY Zenon, <2>3, <3>2, <3>3
  <2>6. RetInv'
    BY Zenon, <2>1, <2>2, <2>4, RetKept DEF Forking
  <2>7. KeptInv'
    BY Zenon, <2>1, <2>4, <2>5 DEF KeptInv, InDowait
  <2> QED
    BY <2>2, <2>6, <2>7
<1>5. CASE ClearPending \/ TrapEnds \/ (Scan /\ gotsig)
  <2>1. /\ mode' = mode /\ jobtab' = jobtab /\ procs' = procs /\ saved' = saved
        /\ ret' \in {ret, NoRet}
    BY Zenon, <1>5 DEF ClearPending, TrapEnds, Scan, Ready, tabVars, kernelVars
  <2>2. cur'.pc \in {"scan", "dotrap", "cmd"}
    BY Zenon, <1>0, <1>5, FixedFrames DEF ClearPending, TrapEnds, Scan
  <2>3. Recorded' /\ GoneStays /\ NoneStarts
    BY Zenon, <2>1, RecordedSame
  <2>4. RetInv'
    BY Zenon, <2>1, <2>2, <2>3, RetKept, RetReset DEF Forking
  <2>5. KeptInv'
    BY Zenon, <2>1, <2>2, KeptElsewhere DEF InDowait
  <2> QED
    BY <2>3, <2>4, <2>5
<1>6. CASE Scan /\ ~gotsig
  <2>1. /\ mode' = mode /\ jobtab' = jobtab /\ procs' = procs /\ ret' = ret
        /\ cur' = Head(saved) /\ saved' = Tail(saved) /\ saved # <<>>
    BY Zenon, <1>6 DEF Scan, tabVars, kernelVars, IInv, FrameInv
  <2>2. Recorded' /\ GoneStays /\ NoneStarts
    BY Zenon, <2>1, RecordedSame
  <2>3. cur' \in SavedFrames
    BY <2>1
  <2>4. RetInv'
    BY Zenon, <2>1, <2>2, <2>3, RetKept DEF SavedFrames, Forking
  <2>5. ASSUME ~mode.T PROVE cur'.pc = "cmd" /\ \A k \in DOMAIN saved' : saved'[k].pc = "cmd"
    <3>1. \A k \in DOMAIN saved : saved[k].pc = "cmd"
      BY <2>5 DEF KeptInv
    <3> QED
      BY <2>1, <3>1, SMTT(30)
  <2>6. KeptInv'
    BY Zenon, <2>1, <2>5 DEF KeptInv, InDowait
  <2> QED
    BY <2>2, <2>4, <2>6
<1> QED
  BY Zenon, <1>1, <1>2, <1>3, <1>4, <1>5, <1>6

(* Children and signals.                                                   *)
LEMMA StatusOutside ==
    ASSUME IInv, StatusInv,
           (\E p \in Pid : ChildExits(p)) \/ ChildStops \/ Signal \/ Deliver \/ UNCHANGED shVars
    PROVE  StatusInv'
<1> USE FrameFacts DEF StatusInv
<1>1. mode' = mode /\ jobtab' = jobtab /\ cur' = cur /\ saved' = saved /\ ret' = ret
  BY Zenon DEF ChildExits, ChildStops, Signal, Deliver, shVars, shellVars, tabVars
<1>2. Recorded' /\ GoneStays /\ NoneStarts
  <2>1. CASE \E p \in Pid : ChildExits(p)
    <3>1. PICK p \in DOMAIN procs, c \in Final :
            /\ procs[p].st \in Alive
            /\ procs' = [procs EXCEPT ![p] = [st |-> "zombie", code |-> c, news |-> "none"]]
      BY <2>1, Zenon DEF ChildExits
    <3>2. PICK d : d = [st |-> "zombie", code |-> c, news |-> "none"]
      BY Zenon
    <3>3. d \in Child /\ d.st = "zombie" /\ d.news = "none"
      BY Zenon, <3>2 DEF Child
    <3> QED
      BY Zenon, <1>1, <3>1, <3>2, <3>3, ChildRecorded
  <2>2. CASE ChildStops
    <3>1. PICK p \in DOMAIN procs :
            /\ procs[p].st = "run"
            /\ procs' = [procs EXCEPT ![p] = [st |-> "stop", code |-> "ok", news |-> "stopped"]]
      BY <2>2, Zenon DEF ChildStops
    <3>2. PICK d : d = [st |-> "stop", code |-> "ok", news |-> "stopped"]
      BY Zenon
    <3>3. d \in Child /\ d.st = "stop" /\ procs[p].st \in Alive
      BY Zenon, <3>1, <3>2 DEF Child, Final, Alive
    <3> QED
      BY Zenon, <1>1, <3>1, <3>2, <3>3, ChildRecorded
  <2>3. CASE Signal \/ Deliver \/ UNCHANGED shVars
    <3>1. procs' = procs
      BY Zenon, <2>3 DEF Signal, Deliver, shVars, kernelVars
    <3> QED
      BY Zenon, <1>1, <3>1, RecordedSame
  <2> QED
    BY Zenon, <2>1, <2>2, <2>3
<1>3. RetInv'
  BY Zenon, <1>1, <1>2, RetKept DEF RetInv, Forking
<1>4. KeptInv'
  BY Zenon, <1>1 DEF KeptInv, Pids
<1> QED
  BY Zenon, <1>2, <1>3, <1>4

INSTANCE WellFoundedInduction

(* A nonempty set of positions of a sequence has a last one, since < on    *)
(* the naturals is well founded.                                           *)
LEMMA LastPosition == LastExists
<1> SUFFICES ASSUME NEW n \in Nat, NEW S \in SUBSET (1..n), S # {}
             PROVE  \E k \in S : \A l \in S : l <= k
  BY Zenon DEF LastExists
<1> DEFINE R == OpToRel(<, Nat)
           T == {n - k : k \in S}
<1>1. IsWellFoundedOn(R, Nat)
  BY Zenon, NatLessThanWellFounded
<1>2. \A x \in Nat, y \in Nat : <<x, y>> \in R <=> x < y
  BY Zenon DEF OpToRel
<1> HIDE DEF R
<1>3. T \subseteq Nat /\ T # {}
  <2>1. ASSUME NEW y \in T PROVE y \in Nat
    <3>1. PICK k \in S : y = n - k
      BY Zenon
    <3>2. k \in 1..n
      BY Zenon
    <3> QED
      BY <3>1, <3>2
  <2>2. PICK k \in S : TRUE
    BY Zenon
  <2>3. n - k \in T
    BY Zenon
  <2> QED
    BY <2>1, <2>3, Zenon
<1> HIDE DEF T
<1>4. PICK x \in T : \A y \in T : ~ (<<y, x>> \in R)
  BY Zenon, <1>1, <1>3, WFMin
<1>5. PICK k \in S : x = n - k
  BY DEF T
<1>6. ASSUME NEW l \in S PROVE l <= k
  <2>1. n - l \in T /\ n - l \in Nat /\ x \in Nat /\ k \in 1..n /\ l \in 1..n
    BY Zenon, <1>3 DEF T
  <2>2. ~(n - l < x)
    BY Zenon, <1>2, <1>4, <2>1
  <2> QED
    BY <1>5, <2>1, <2>2
<1> QED
  BY Zenon, <1>6

(* The strengthening holds in every shell.                                 *)
THEOREM StatusInvariance == Spec => []StatusInv
<1>1. Init => StatusInv
  <2> SUFFICES ASSUME Init PROVE StatusInv
    OBVIOUS
  <2>1. /\ saved = <<>> /\ procs = <<>> /\ jobtab = [s \in Slot |-> NoJob] /\ ret = NoRet
        /\ cur = Frame("cmd", "none", 0, 0, <<>>)
    BY Zenon DEF Init
  <2>2. NoJob.used = FALSE /\ NoRet.kind = "none" /\ cur.pc = "cmd"
    BY Zenon, <2>1 DEF NoJob, NewJob, NoRet, Frame
  <2>3. Recorded
    BY SMTT(30), <2>1, <2>2 DEF Recorded
  <2>4. KeptInv
    BY SMTT(30), <2>1, <2>2 DEF KeptInv, InDowait
  <2>5. RetInv
    BY Zenon, <2>1, <2>2 DEF RetInv, StatusReal
  <2> QED
    BY Zenon, <2>3, <2>4, <2>5 DEF StatusInv
<1>2. IInv /\ StatusInv /\ [Next]_shVars => StatusInv'
  BY Zenon, LastPosition, StatusCommands, StatusZombies, StatusWaits, StatusSignals, StatusOutside DEF Next, Shell
<1> QED
  BY <1>1, <1>2, ShJobsInvariance, PTL DEF Spec

(* Without "set -T" a wait returns the status its processes exited with,   *)
(* and a wait without operand returns, in every shell, with no child       *)
(* running (waitforjob, waitcmdloop, getjobstatus).                        *)
THEOREM WaitsTellTheTruth == Spec => []StatusReal
<1>1. StatusInv => StatusReal
  BY Zenon DEF StatusInv, RetInv
<1> QED
  BY <1>1, StatusInvariance, PTL

=============================================================================
