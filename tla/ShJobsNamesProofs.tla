------------------------- MODULE ShJobsNamesProofs -------------------------
(***************************************************************************)
(* For every number of slots and forks, every mix of options and every     *)
(* interleaving no name of a job dangles (NamesHold): not those on the     *)
(* list of recent jobs, not bgjob, not the slot a wait stands in, and not  *)
(* a pid that was read from $!.                                            *)
(*                                                                         *)
(* NamesInv adds that no two jobs share a process, that a pid read from $! *)
(* belongs to a remembered job, and that $! is the last process of bgjob.  *)
(***************************************************************************)
EXTENDS ShJobsProofs

(* A list without duplicates.                                              *)
Distinct(q) == \A m, n \in DOMAIN q : q[m] = q[n] => m = n

(* A list r with all of q but S.                                           *)
Keeps(r, q, S) == \A n \in DOMAIN q : q[n] \notin S => \E m \in DOMAIN r : r[m] = q[n]

(* Taking jobs S off a list without duplicates takes off these and no      *)
(* others, and makes no duplicate: WithoutMeaning below, with the          *)
(* theorems on finite sets, which only that lemma needs.                   *)
DeletesOnly ==
    \A U, S : \A q \in Seq(U) : Distinct(q) =>
        /\ Without(q, S) \in Seq(U \ S)
        /\ Distinct(Without(q, S))
        /\ Keeps(Without(q, S), q, S)

(* A list q of slots of V without duplicates, with all of W.               *)
Listed(q, V, W) ==
    /\ q \in Seq(V) /\ Distinct(q)
    /\ \A s \in W : \E n \in DOMAIN q : q[n] = s

Unfinished == {s \in Named : jobtab[s].state # "done"}
ListInv == Listed(jobmru, Used, Unfinished)

(* An entry of a job without processes yet, and one not in use.            *)
Settled(j) == /\ j.used /\ j.ps = <<>> => j.state = "run"
              /\ ~j.used => j.state # "stopped"

(* bgjob is in use, entries without processes are as makejob and freejob   *)
(* leave them, and no two jobs in use have a process in common.            *)
SlotInv ==
    /\ bgjob \in {0} \cup Used
    /\ \A s \in Slot : Settled(jobtab[s])
    /\ \A s, t \in Used : \A k \in DOMAIN jobtab[s].ps, l \in DOMAIN jobtab[t].ps :
           jobtab[s].ps[k].pid = jobtab[t].ps[l].pid => s = t

(* Without "set -T": a pid read from $! is the last of a remembered job,   *)
(* $! is that of bgjob, and the job being forked is neither.               *)
OwedInv ==
    ~mode.T =>
        /\ \A p \in owed : \E s \in Named : LastPid(s) = p /\ jobtab[s].remembered
        /\ bgjob # 0 => bgjob \in Named /\ LastPid(bgjob) = latest
        /\ ~mode.i /\ latest # 0 => bgjob # 0
        /\ Forking => ~jobtab[cur.job].remembered /\ (cur.cmd # "bg" => bgjob # cur.job)

(* waitforjob has a job, and only the wait builtin may have none.          *)
Targeted(f) ==
    /\ f.pc = "waitcmd" => f.cmd = "wait"
    /\ f.pc = "waitfor" \/ (f.pc \in InDowait /\ f.cmd # "wait") => f.job # 0
TargetInv == Targeted(cur) /\ \A k \in DOMAIN saved : Targeted(saved[k])

NamesInv == ListInv /\ SlotInv /\ OwedInv /\ TargetInv

(* deljob, for jobs S.                                                     *)
LEMMA ListWithout ==
    ASSUME DeletesOnly, NEW q, NEW V, NEW W, Listed(q, V, W), NEW S, NEW V2, NEW W2,
           V \ S \subseteq V2, W2 \subseteq W, \A s \in W2 : s \notin S
    PROVE  Listed(Without(q, S), V2, W2)
<1>1. /\ Without(q, S) \in Seq(V \ S)
      /\ Distinct(Without(q, S))
      /\ Keeps(Without(q, S), q, S)
  <2>1. q \in Seq(V) /\ Distinct(q)
    BY Zenon DEF Listed
  <2> QED
    BY Zenon, <2>1 DEF DeletesOnly
<1>2. Without(q, S) \in Seq(V2)
  BY Zenon, <1>1, SeqWiden
<1>3. \A s \in W2 : \E n \in DOMAIN q : q[n] = s /\ q[n] \notin S
  BY Zenon DEF Listed
<1>4. \A s \in W2 : \E m \in DOMAIN Without(q, S) : Without(q, S)[m] = s
  BY Zenon, <1>1, <1>3 DEF Keeps
<1> QED
  BY Zenon, <1>1, <1>2, <1>4 DEF Listed

(* setcurjob.                                                              *)
LEMMA ListFirst ==
    ASSUME DeletesOnly, NEW q, NEW V, NEW W, Listed(q, V, W), NEW s, NEW V2, NEW W2,
           s \in V2, V \ {s} \subseteq V2, W2 \subseteq W \cup {s}
    PROVE  Listed(setcurjob(q, s), V2, W2)
<1> DEFINE w == Without(q, {s})
           r == <<s>> \o w
<1>1. Listed(w, V2 \ {s}, W2 \ {s})
  <2>1. Listed(w, V \ {s}, W2 \ {s})
    BY Zenon, ListWithout
  <2>2. w \in Seq(V2 \ {s})
    <3>1. w \in Seq(V \ {s}) /\ V \ {s} \subseteq V2 \ {s}
      BY Zenon, <2>1 DEF Listed
    <3> QED
      BY Zenon, <3>1, SeqWiden
  <2> QED
    BY Zenon, <2>1, <2>2 DEF Listed
<1> HIDE DEF w
<1>2. w \in Seq(V2 \ {s}) /\ w \in Seq(V2) /\ \A n \in DOMAIN w : w[n] # s
  <2>1. w \in Seq(V2 \ {s})
    BY Zenon, <1>1 DEF Listed
  <2> QED
    <3>1. V2 \ {s} \subseteq V2
      BY Zenon
    <3>2. w \in Seq(V2)
      BY Zenon, <2>1, <3>1, SeqWiden
    <3>3. \A n \in DOMAIN w : w[n] \in V2 \ {s}
      BY Zenon, <2>1, SeqFacts
    <3> QED
      BY Zenon, <2>1, <3>2, <3>3
<1>3. /\ r \in Seq(V2) /\ 1 \in DOMAIN r /\ r[1] = s
      /\ \A n \in DOMAIN r : n # 1 => n - 1 \in DOMAIN w /\ r[n] = w[n - 1]
      /\ \A m, n \in DOMAIN r : m - 1 = n - 1 => m = n
      /\ \A n \in DOMAIN w : n + 1 \in DOMAIN r /\ r[n + 1] = w[n]
  BY Zenon, <1>2, ConsFacts
<1> HIDE DEF r
<1>4. \A n \in DOMAIN r : n # 1 => r[n] # s
  <2> SUFFICES ASSUME NEW n \in DOMAIN r, n # 1 PROVE r[n] # s
    BY Zenon
  <2>1. r[n] = w[n - 1] /\ n - 1 \in DOMAIN w
    BY Zenon, <1>3
  <2>2. w[n - 1] # s
    BY Zenon, <1>2, <2>1
  <2> QED
    BY Zenon, <2>1, <2>2
<1>5. ASSUME NEW m \in DOMAIN r, NEW n \in DOMAIN r, r[m] = r[n] PROVE m = n
  <2>1. CASE m = 1 \/ n = 1
    BY Zenon, <1>3, <1>4, <1>5, <2>1
  <2>2. CASE m # 1 /\ n # 1
    <3>1. m - 1 \in DOMAIN w /\ n - 1 \in DOMAIN w /\ w[m - 1] = w[n - 1]
      BY Zenon, <1>3, <1>5, <2>2
    <3>2. m - 1 = n - 1
      BY Zenon, <1>1, <3>1 DEF Listed, Distinct
    <3> QED
      BY Zenon, <1>3, <3>2
  <2> QED
    BY Zenon, <2>1, <2>2
<1>6. ASSUME NEW t \in W2 PROVE \E n \in DOMAIN r : r[n] = t
  <2>1. CASE t = s
    BY Zenon, <1>3, <2>1
  <2>2. CASE t # s
    <3>1. PICK n \in DOMAIN w : w[n] = t
      BY Zenon, <1>1, <2>2 DEF Listed
    <3> QED
      BY Zenon, <1>3, <3>1
  <2> QED
    BY Zenon, <2>1, <2>2
<1>7. Listed(r, V2, W2)
  BY Zenon, <1>3, <1>5, <1>6 DEF Listed, Distinct
<1> QED
  BY Zenon, <1>7 DEF setcurjob, r, w

(* A list that stays.                                                      *)
LEMMA ListWiden ==
    ASSUME NEW q, NEW V, NEW W, Listed(q, V, W), NEW V2, NEW W2, V \subseteq V2, W2 \subseteq W
    PROVE  Listed(q, V2, W2)
<1>1. q \in Seq(V2)
  BY Zenon, SeqWiden DEF Listed
<1> QED
  BY Zenon, <1>1 DEF Listed

(* Entries with the same pids have the same processes and last process.    *)
LEMMA SamePids ==
    ASSUME NEW ps \in Seq(Proc), NEW qs \in Seq(Proc), PidsOf(ps) = PidsOf(qs)
    PROVE  /\ DOMAIN ps = DOMAIN qs
           /\ ps = <<>> <=> qs = <<>>
           /\ \A k \in DOMAIN ps : ps[k].pid = qs[k].pid
<1>1. DOMAIN PidsOf(ps) = DOMAIN ps /\ DOMAIN PidsOf(qs) = DOMAIN qs
  BY Zenon DEF PidsOf
<1>2. \A k \in DOMAIN ps : PidsOf(ps)[k] = ps[k].pid
  BY Zenon DEF PidsOf
<1>3. \A k \in DOMAIN qs : PidsOf(qs)[k] = qs[k].pid
  BY Zenon DEF PidsOf
<1>4. DOMAIN ps = DOMAIN qs
  BY Zenon, <1>1
<1>5. ps = <<>> <=> qs = <<>>
  BY Zenon, <1>4, SameLen
<1> QED
  BY Zenon, <1>2, <1>3, <1>4, <1>5

(* The last process of a job with processes.                               *)
LEMMA LastPidMeaning ==
    ASSUME NEW s, NEW ps \in Seq(Proc), ps = jobtab[s].ps, ps # <<>>
    PROVE  Len(ps) \in DOMAIN ps /\ LastPid(s) = ps[Len(ps)].pid
<1>1. Len(ps) \in 1..Len(ps) /\ DOMAIN ps = 1..Len(ps)
  BY Zenon, SeqFacts
<1>2. DOMAIN PidsOf(ps) = 1..Len(ps) /\ \A k \in DOMAIN ps : PidsOf(ps)[k] = ps[k].pid
  BY Zenon, <1>1 DEF PidsOf
<1>3. PidsOf(ps) \in Seq(Pid)
  BY Zenon, PidsType
<1>4. Len(PidsOf(ps)) = Len(ps)
  <2>1. DOMAIN PidsOf(ps) = DOMAIN ps
    BY Zenon, <1>1, <1>2
  <2> QED
    BY Zenon, <1>3, <2>1, SameLen
<1> QED
  BY Zenon, <1>1, <1>2, <1>4 DEF LastPid, Pids

(* The table as names see it: S are the jobs that lose their claims, of    *)
(* which some are freed, C the pids a wait has collected.                  *)
Forgets(S, C) ==
    /\ mode' = mode /\ jobtab' \in [Slot -> Job]
    /\ \A t \in Slot : t \notin S =>
           /\ jobtab'[t].used = jobtab[t].used /\ PidsOf(jobtab'[t].ps) = PidsOf(jobtab[t].ps)
           /\ jobtab'[t].remembered = jobtab[t].remembered
    /\ \A t \in Slot : t \in S /\ jobtab'[t].used =>
           jobtab[t].used /\ PidsOf(jobtab'[t].ps) = PidsOf(jobtab[t].ps)
    /\ \A t \in Slot : Settled(jobtab'[t])
    /\ bgjob' = IF bgjob \in S THEN 0 ELSE bgjob
    /\ owed' = owed \ C /\ latest' = IF latest \in C THEN 0 ELSE latest
    /\ Forking' => Forking /\ cur'.job = cur.job /\ cur'.cmd = cur.cmd /\ cur.job \notin S

(* What may be forgotten: a remembered job only with its pid, and in a     *)
(* script the same of the last background job.                             *)
MayForget(S, C) ==
    ~mode.T =>
        /\ \A t \in S \cap Named : jobtab[t].remembered => LastPid(t) \in C
        /\ ~mode.i /\ bgjob \in S /\ latest # 0 => latest \in C
        /\ \A p \in C : \E t \in S \cap Named : p = LastPid(t)

(* Forgetting what may be forgotten keeps the names.                       *)
LEMMA ForgetStep ==
    ASSUME IInv, SlotInv, OwedInv, NEW S, NEW C, Forgets(S, C), MayForget(S, C)
    PROVE  SlotInv' /\ OwedInv'
<1> USE DEF Forgets
<1>0. jobtab \in [Slot -> Job] /\ \A j \in Job : j.ps \in Seq(Proc)
  BY Zenon DEF IInv, JobInv, Job
<1>1. \A t \in Used' : /\ t \in Used /\ PidsOf(jobtab'[t].ps) = PidsOf(jobtab[t].ps)
                       /\ jobtab'[t].ps \in Seq(Proc) /\ jobtab[t].ps \in Seq(Proc)
  BY Zenon, <1>0 DEF Used
<1>2. bgjob' \in {0} \cup Used'
  BY Zenon DEF SlotInv, Used
<1>3. \A t \in Used' : /\ DOMAIN jobtab'[t].ps = DOMAIN jobtab[t].ps
                       /\ \A k \in DOMAIN jobtab[t].ps : jobtab'[t].ps[k].pid = jobtab[t].ps[k].pid
                       /\ jobtab'[t].ps = <<>> <=> jobtab[t].ps = <<>>
  BY Zenon, <1>1, SamePids
<1>4. ASSUME NEW s \in Used', NEW t \in Used',
             NEW k \in DOMAIN jobtab'[s].ps, NEW l \in DOMAIN jobtab'[t].ps,
             jobtab'[s].ps[k].pid = jobtab'[t].ps[l].pid
      PROVE  s = t
  <2>1. \A m \in DOMAIN jobtab[s].ps, n \in DOMAIN jobtab[t].ps :
            jobtab[s].ps[m].pid = jobtab[t].ps[n].pid => s = t
    BY <1>1, Zenon DEF SlotInv
  <2>2. k \in DOMAIN jobtab[s].ps /\ l \in DOMAIN jobtab[t].ps
    BY Zenon, <1>3
  <2>3. jobtab[s].ps[k].pid = jobtab[t].ps[l].pid
    BY Zenon, <1>3, <1>4, <2>2
  <2> QED
    BY <2>1, <2>2, <2>3, Zenon
<1>5. SlotInv'
  BY Zenon, <1>2, <1>4 DEF SlotInv
<1>6. ASSUME ~mode.T PROVE OwedInv'
  <2>1. \A t \in Used' : LastPid(t)' = LastPid(t)
    BY Zenon, <1>1 DEF LastPid, Pids
  <2>2. \A t \in Used' : t \in Named => t \in Named'
    BY Zenon, <1>3 DEF Named
  <2>3. ASSUME NEW s \in Named, NEW t \in Named, LastPid(s) = LastPid(t) PROVE s = t
    <3>1. s \in Used /\ t \in Used /\ jobtab[s].ps # <<>> /\ jobtab[t].ps # <<>>
      BY Zenon DEF Named
    <3>2. jobtab[s].ps \in Seq(Proc) /\ jobtab[t].ps \in Seq(Proc)
      BY Zenon, <1>0, <3>1 DEF Used
    <3>3. /\ Len(jobtab[s].ps) \in DOMAIN jobtab[s].ps
          /\ LastPid(s) = jobtab[s].ps[Len(jobtab[s].ps)].pid
      BY Zenon, <3>1, <3>2, LastPidMeaning
    <3>4. /\ Len(jobtab[t].ps) \in DOMAIN jobtab[t].ps
          /\ LastPid(t) = jobtab[t].ps[Len(jobtab[t].ps)].pid
      BY Zenon, <3>1, <3>2, LastPidMeaning
    <3> QED
      <4>1. \A m \in DOMAIN jobtab[s].ps, n \in DOMAIN jobtab[t].ps :
                jobtab[s].ps[m].pid = jobtab[t].ps[n].pid => s = t
        BY <3>1, Zenon DEF SlotInv
      <4> QED
        BY <2>3, <3>3, <3>4, <4>1, Zenon
  <2>4. ASSUME NEW p \in owed' PROVE \E s \in Named' : LastPid(s)' = p /\ jobtab'[s].remembered
    <3>1. PICK s \in Named : LastPid(s) = p /\ jobtab[s].remembered
      BY Zenon, <1>6, <2>4 DEF OwedInv
    <3>2. s \notin S
      BY Zenon, <1>6, <2>4, <3>1 DEF MayForget
    <3>3. s \in Used' /\ jobtab'[s].remembered
      BY Zenon, <3>1, <3>2 DEF Used, Named
    <3> QED
      BY Zenon, <2>1, <2>2, <3>1, <3>3
  <2>5. ASSUME bgjob' # 0 PROVE bgjob' \in Named' /\ LastPid(bgjob)' = latest'
    <3>1. bgjob' = bgjob /\ bgjob \notin S /\ bgjob \in Named /\ LastPid(bgjob) = latest
      BY Zenon, <1>6, <2>5 DEF OwedInv
    <3>2. bgjob \in Used'
      BY Zenon, <3>1 DEF Used, Named
    <3>3. latest \notin C
      BY Zenon, <1>6, <2>3, <3>1 DEF MayForget
    <3>4. LastPid(bgjob)' = LastPid(bgjob)
      BY Zenon, <1>1, <3>1, <3>2 DEF LastPid, Pids
    <3> QED
      BY Zenon, <2>2, <3>1, <3>2, <3>3, <3>4
  <2>6. ~mode.i /\ latest' # 0 => bgjob' # 0
    BY Zenon, <1>6 DEF OwedInv, MayForget
  <2>7. ASSUME Forking'
        PROVE  ~jobtab'[cur'.job].remembered /\ (cur'.cmd # "bg" => bgjob' # cur'.job)
    <3>1. cur.job \in Slot
      BY Zenon, <2>7 DEF IInv, ForkInv
    <3> QED
      BY Zenon, <1>6, <2>7, <3>1, SlotsPositive DEF OwedInv
  <2> QED
    BY Zenon, <2>4, <2>5, <2>6, <2>7 DEF OwedInv
<1>7. mode.T => OwedInv'
  BY Zenon DEF OwedInv
<1> QED
  BY Zenon, <1>5, <1>6, <1>7

(* dowait's claims on the job whose process was reported: it frees one     *)
(* that nothing names, and takes a done one off the list.                  *)
LEMMA SettleNames ==
    ASSUME JobInv, NEW s \in Slot, NEW p \in Pid, Holds(s, p),
           NEW st \in Alive \cup Final, NEW job, Settle(s, p, st, job)
    PROVE  /\ bgjob' = bgjob
           /\ \/ /\ ~jobtab'[s].used /\ jobtab'[s].state # "stopped"
                 /\ jobmru' = Without(jobmru, {s}) /\ s # bgjob /\ ~jobtab[s].remembered
              \/ /\ jobtab'[s].used /\ jobtab'[s].remembered = jobtab[s].remembered
                 /\ \/ jobmru' = jobmru
                    \/ jobmru' = Without(jobmru, {s}) /\ jobtab'[s].state = "done"
<1> DEFINE old == jobtab[s]
           ps == [k \in DOMAIN old.ps |->
                     IF old.ps[k].pid = p /\ old.ps[k].st \in Alive
                     THEN [pid |-> p, st |-> st] ELSE old.ps[k]]
           was == IF st = "run" THEN "run" ELSE old.state
           now == IF StateOf(ps) = "run" THEN was ELSE StateOf(ps)
           quiet == now = "run" \/ (s = job /\ old.foreground /\ now # "stopped")
           new == [old EXCEPT !.ps = ps, !.state = now, !.changed = @ \/ (mode.i /\ ~quiet)]
           tab == [jobtab EXCEPT ![s] = new]
           ended == now = "done" /\ was # "done" /\ s # job
<1>1. old \in Job /\ old.used
  BY Zenon DEF JobInv, Holds
<1>2. \/ /\ ended /\ ~old.remembered /\ s # bgjob
         /\ jobtab' = Freed(tab, {s}) /\ Forget({s})
      \/ /\ jobtab' = tab /\ bgjob' = bgjob
         /\ jobmru' = jobmru \/ (now = "done" /\ jobmru' = Without(jobmru, {s}))
  <2> HIDE DEF now, tab, was
  <2> QED
    BY Zenon DEF Settle, now, tab, was, deljob
<1>3. new.used = old.used /\ new.state = now /\ new.remembered = old.remembered
  <2> HIDE DEF ps, now, quiet
  <2> QED
    BY <1>1, Zenon DEF Job
<1>4. [new EXCEPT !.used = FALSE].used = FALSE /\ [new EXCEPT !.used = FALSE].state = now
  <2> HIDE DEF ps, now, quiet
  <2> QED
    BY <1>1, Zenon DEF Job
<1> HIDE DEF new, quiet, now
<1>5. tab[s] = new
  BY Zenon DEF JobInv
<1> HIDE DEF tab, was, ps
<1>6. CASE ended /\ ~old.remembered /\ s # bgjob /\ jobtab' = Freed(tab, {s}) /\ Forget({s})
  <2>1. jobtab'[s] = IF mode.T THEN [new EXCEPT !.used = FALSE] ELSE NoJob
    BY Zenon, <1>5, <1>6 DEF Freed
  <2>2. NoJob.used = FALSE /\ NoJob.state = "run"
    BY Zenon DEF NoJob, NewJob
  <2>3. ~jobtab'[s].used /\ jobtab'[s].state # "stopped"
    BY Zenon, <1>4, <1>6, <2>1, <2>2
  <2> QED
    BY Zenon, <1>6, <2>3 DEF Forget
<1>7. CASE /\ jobtab' = tab /\ bgjob' = bgjob
           /\ jobmru' = jobmru \/ (now = "done" /\ jobmru' = Without(jobmru, {s}))
  BY Zenon, <1>1, <1>3, <1>5, <1>7
<1> QED
  BY Zenon, <1>2, <1>6, <1>7

(* dowait keeps the names of the jobs, whichever child is reported.        *)
LEMMA ReapNames ==
    ASSUME DeletesOnly, IInv, ListInv, SlotInv, OwedInv, NEW job, Reap(job),
           mode' = mode, owed' = owed, latest' = latest,
           Forking' => /\ Forking /\ cur'.job = cur.job /\ cur'.cmd = cur.cmd
                       /\ jobtab[cur.job].ps = <<>>
    PROVE  ListInv' /\ SlotInv' /\ OwedInv'
<1>1. JobInv /\ jobtab \in [Slot -> Job] /\ jobtab' \in [Slot -> Job]
  BY Zenon, ReapStep DEF IInv, JobInv
<1>2. PICK p \in Waitable :
           IF Holders(p) = {} THEN UNCHANGED tabVars
           ELSE \E s \in Holders(p) : Settle(s, p, Report(procs[p]), job)
  BY Zenon DEF Reap
<1>3. CASE Holders(p) = {}
  <2>1. jobtab' = jobtab /\ jobmru' = jobmru /\ bgjob' = bgjob
    BY Zenon, <1>2, <1>3 DEF tabVars
  <2>2. Forgets({}, {})
    BY Zenon, <1>1, <2>1 DEF Forgets, SlotInv
  <2>3. ListInv'
    BY Zenon, <2>1 DEF ListInv, Listed, Used, Unfinished, Named
  <2> QED
    BY Zenon, <2>2, <2>3, ForgetStep DEF MayForget
<1>4. CASE Holders(p) # {}
  <2> DEFINE st == Report(procs[p])
  <2>1. PICK s \in Slot : Holds(s, p) /\ Settle(s, p, st, job)
    BY Zenon, <1>2, <1>4 DEF Holders
  <2>2. p \in Pid /\ st \in Alive \cup Final
    <3>1. p \in Pid /\ procs[p] \in Child
      <4>1. p \in DOMAIN procs /\ procs \in Seq(Child)
        BY Zenon, <1>1 DEF Waitable, JobInv
      <4> QED
        BY Zenon, <1>1, <4>1, SeqFacts, ProcsArePids
    <3> QED
      BY Zenon, <3>1 DEF Report, Child, Alive, Final
  <2> HIDE DEF st
  <2>3. \A t \in Slot : t # s => jobtab'[t] = jobtab[t]
    BY Zenon, <1>1, <2>1, <2>2, SettleStep
  <2>4. jobtab'[s].used => PidsOf(jobtab'[s].ps) = PidsOf(jobtab[s].ps)
    <3>1. jobtab'[s].used =>
               /\ DOMAIN jobtab'[s].ps = DOMAIN jobtab[s].ps
               /\ \A k \in DOMAIN jobtab[s].ps : jobtab'[s].ps[k].pid = jobtab[s].ps[k].pid
      <4>1. jobtab'[s].used =>
               /\ DOMAIN jobtab'[s].ps = DOMAIN jobtab[s].ps
               /\ \A k \in DOMAIN jobtab[s].ps :
                      jobtab'[s].ps[k] = IF jobtab[s].ps[k].pid = p /\ jobtab[s].ps[k].st \in Alive
                                         THEN [pid |-> p, st |-> st] ELSE jobtab[s].ps[k]
        BY Zenon, <1>1, <2>1, <2>2, SettleEntry
      <4> QED
        <5>1. [pid |-> p, st |-> st].pid = p
          BY Zenon
        <5> QED
          BY Zenon, <4>1, <5>1
    <3> QED
      BY Zenon, <3>1 DEF PidsOf
  <2>5. /\ bgjob' = bgjob
        /\ \/ /\ ~jobtab'[s].used /\ jobtab'[s].state # "stopped"
              /\ jobmru' = Without(jobmru, {s}) /\ s # bgjob /\ ~jobtab[s].remembered
           \/ /\ jobtab'[s].used /\ jobtab'[s].remembered = jobtab[s].remembered
              /\ \/ jobmru' = jobmru
                 \/ jobmru' = Without(jobmru, {s}) /\ jobtab'[s].state = "done"
    BY Zenon, <1>1, <2>1, <2>2, SettleNames
  <2>6. jobtab[s].used /\ jobtab[s].ps # <<>> /\ jobtab[s].state # "done"
    BY Zenon, <1>1, <2>1, DoneHoldsNothing DEF Holds
  <2>7. Forking' => cur.job # s
    BY Zenon, <2>6
  <2>8. jobtab'[s].used => jobtab'[s].ps # <<>>
    <3>1. jobtab[s].ps \in Seq(Proc) /\ jobtab'[s].ps \in Seq(Proc)
      BY Zenon, <1>1 DEF Job
    <3> QED
      BY Zenon, <2>4, <2>6, <3>1, SamePids
  <2>9. SlotInv' /\ OwedInv'
    <3>1. CASE jobtab'[s].used
      <4>1. Forgets({}, {})
        <5>1. \A t \in Slot : /\ jobtab'[t].used = jobtab[t].used
                              /\ PidsOf(jobtab'[t].ps) = PidsOf(jobtab[t].ps)
                              /\ jobtab'[t].remembered = jobtab[t].remembered
          <6>1. jobtab'[s].used = jobtab[s].used
            BY Zenon, <1>1, <2>6, <3>1 DEF Job
          <6> QED
            BY Zenon, <2>3, <2>4, <2>5, <3>1, <6>1
        <5>2. \A t \in Slot : Settled(jobtab'[t])
          BY Zenon, <2>3, <2>8, <3>1 DEF SlotInv, Settled
        <5> QED
          BY Zenon, <1>1, <2>5, <5>1, <5>2 DEF Forgets
      <4> QED
        BY Zenon, <4>1, ForgetStep DEF MayForget
    <3>2. CASE ~jobtab'[s].used
      <4>1. Forgets({s}, {})
        <5>1. \A t \in Slot : Settled(jobtab'[t])
          BY Zenon, <2>3, <2>5, <3>2 DEF SlotInv, Settled
        <5> QED
          BY Zenon, <1>1, <2>3, <2>5, <2>7, <3>2, <5>1 DEF Forgets
      <4>2. MayForget({s}, {})
        BY Zenon, <2>5, <3>2 DEF MayForget
      <4> QED
        BY Zenon, <4>1, <4>2, ForgetStep
    <3> QED
      BY Zenon, <3>1, <3>2
  <2>10. ListInv'
    <3>1. s \in Unfinished /\ Used' \subseteq Used /\ Used \ {s} \subseteq Used'
      BY Zenon, <2>3, <2>6 DEF Unfinished, Named, Used
    <3>2. Unfinished' \subseteq Unfinished
      BY Zenon, <2>3, <3>1 DEF Unfinished, Named, Used
    <3>3. CASE jobmru' = jobmru /\ jobtab'[s].used
      <4>1. Used \subseteq Used'
        BY Zenon, <3>1, <3>3 DEF Used
      <4> QED
        BY Zenon, <3>2, <3>3, <4>1, ListWiden DEF ListInv
    <3>4. CASE jobmru' = Without(jobmru, {s}) /\ (jobtab'[s].used => jobtab'[s].state = "done")
      <4>1. s \notin Unfinished'
        BY Zenon, <3>4 DEF Unfinished, Named, Used
      <4> QED
        BY Zenon, <3>1, <3>2, <3>4, <4>1, ListWithout DEF ListInv
    <3> QED
      BY Zenon, <2>5, <3>3, <3>4
  <2> QED
    BY Zenon, <2>9, <2>10
<1> QED
  BY Zenon, <1>3, <1>4

(* freejob of finished jobs F in a table where other fields may have       *)
(* changed, while all of S lose their places.                              *)
LEMMA FreedNames ==
    ASSUME DeletesOnly, IInv, ListInv, SlotInv, NEW tab \in [Slot -> Job], NEW S, NEW F, F \subseteq S,
           \A s \in Slot : /\ tab[s].used = jobtab[s].used
                           /\ tab[s].ps = jobtab[s].ps
                           /\ tab[s].state = jobtab[s].state,
           \A s \in Slot : s \in S => /\ jobtab[s].used => s \notin Unfinished
                                      /\ jobtab[s].state # "stopped",
           jobtab' = Freed(tab, F), Forget(S)
    PROVE  /\ jobtab' \in [Slot -> Job]
           /\ \A s \in Slot : s \in F => ~jobtab'[s].used
           /\ \A s \in Slot : s \notin F => jobtab'[s] = tab[s]
           /\ \A s \in Slot : Settled(jobtab'[s])
           /\ ListInv'
<1>1. jobtab' \in [Slot -> Job] /\ jobtab \in [Slot -> Job]
  BY FreedMeaning, Zenon DEF IInv, JobInv
<1>2. \A s \in Slot : s \in F => jobtab'[s].used = FALSE
  <2>1. \A s \in Slot : s \in F => Freed(tab, F)[s].used = FALSE
    BY FreedMeaning, ZenonT(30)
  <2> QED
    BY <2>1, Zenon
<1>3. \A s \in Slot : s \notin F => jobtab'[s] = tab[s]
  <2>1. \A s \in Slot : s \notin F => Freed(tab, F)[s] = tab[s]
    BY FreedMeaning, ZenonT(30)
  <2> QED
    BY <2>1, Zenon
<1>4. \A s \in Slot : s \in F => jobtab'[s].state # "stopped"
  <2> SUFFICES ASSUME NEW s \in Slot, s \in F PROVE jobtab'[s].state # "stopped"
    BY Zenon
  <2>1. jobtab'[s] = IF mode.T THEN [tab[s] EXCEPT !.used = FALSE] ELSE NoJob
    BY Zenon DEF Freed
  <2>2. NoJob.state = "run"
    BY Zenon DEF NoJob, NewJob
  <2>3. [tab[s] EXCEPT !.used = FALSE].state = tab[s].state
    BY Zenon DEF Job
  <2> QED
    BY Zenon, <2>1, <2>2, <2>3
<1>5. \A s \in Slot : Settled(jobtab'[s])
  <2>1. \A s \in Slot : s \in F => Settled(jobtab'[s])
    BY Zenon, <1>2, <1>4 DEF Settled
  <2>2. \A s \in Slot : s \notin F => Settled(jobtab'[s])
    <3> SUFFICES ASSUME NEW s \in Slot, s \notin F PROVE Settled(jobtab'[s])
      BY Zenon
    <3>1. jobtab'[s].used = jobtab[s].used /\ jobtab'[s].ps = jobtab[s].ps
          /\ jobtab'[s].state = jobtab[s].state
      BY Zenon, <1>3
    <3>2. Settled(jobtab[s])
      BY Zenon DEF SlotInv
    <3> QED
      BY Zenon, <3>1, <3>2 DEF Settled
  <2> QED
    BY Zenon, <2>1, <2>2
<1>6. ListInv'
  <2>1. jobmru' = Without(jobmru, S)
    BY Zenon DEF Forget
  <2>2. Used \ S \subseteq Used'
    BY Zenon, <1>3 DEF Used
  <2>3. Unfinished' \subseteq Unfinished
    <3> SUFFICES ASSUME NEW s \in Unfinished' PROVE s \in Unfinished
      BY Zenon
    <3>1. s \in Slot /\ jobtab'[s].used /\ jobtab'[s].ps # <<>> /\ jobtab'[s].state # "done"
      BY Zenon DEF Unfinished, Named, Used
    <3>2. jobtab'[s] = tab[s]
      BY Zenon, <1>2, <1>3, <3>1
    <3>3. tab[s].used = jobtab[s].used /\ tab[s].ps = jobtab[s].ps /\ tab[s].state = jobtab[s].state
      BY Zenon, <3>1
    <3>4. jobtab[s].used /\ jobtab[s].ps # <<>> /\ jobtab[s].state # "done"
      BY Zenon, <3>1, <3>2, <3>3
    <3> QED
      BY Zenon, <3>1, <3>4 DEF Unfinished, Named, Used
  <2>4. \A s \in Unfinished' : s \notin S
    BY Zenon, <2>3 DEF Unfinished, Named, Used
  <2> QED
    BY Zenon, <2>1, <2>2, <2>3, <2>4, ListWithout DEF ListInv
<1> QED
  BY Zenon, <1>1, <1>2, <1>3, <1>5, <1>6

(* A step that leaves the table and the pids read from $! alone.           *)
LEMMA NamesSame ==
    ASSUME IInv, ListInv, SlotInv, OwedInv, mode' = mode,
           jobtab' = jobtab, jobmru' = jobmru, bgjob' = bgjob, owed' = owed, latest' = latest,
           Forking' => Forking /\ cur'.job = cur.job /\ cur'.cmd = cur.cmd
    PROVE  ListInv' /\ SlotInv' /\ OwedInv'
<1>1. Forgets({}, {})
  BY Zenon DEF Forgets, SlotInv, IInv, JobInv
<1>2. MayForget({}, {})
  BY Zenon DEF MayForget
<1>3. ListInv'
  BY Zenon DEF ListInv, Listed, Used, Unfinished, Named
<1> QED
  BY Zenon, <1>1, <1>2, <1>3, ForgetStep

(* The rest of showjobs.                                                   *)
LEMMA ShowNames ==
    ASSUME DeletesOnly, IInv, ListInv, SlotInv, OwedInv, Show
    PROVE  ListInv' /\ SlotInv' /\ OwedInv'
<1> DEFINE shown == {s \in Named : cur.cmd = "jobs" \/ jobtab[s].changed}
           drop == {s \in shown : /\ jobtab[s].state = "done" /\ ~jobtab[s].remembered
                                  /\ mode.i \/ s # bgjob}
           seen == [s \in Slot |-> [jobtab[s] EXCEPT !.changed = @ /\ s \notin shown]]
           gone == drop \cup (Used \ Named)
<1>1. jobtab' = Freed(seen, gone) /\ Forget(gone)
  BY Zenon DEF Show
<1>2. mode' = mode /\ owed' = owed /\ latest' = latest /\ cur' = After
  BY Zenon DEF Show, scriptVars
<1>3. \A s \in gone : /\ s \notin Unfinished
                      /\ s \in Named => ~jobtab[s].remembered /\ (mode.i \/ s # bgjob)
                      /\ s \in Slot => jobtab[s].state # "stopped"
  <2>1. \A s \in drop : s \notin Unfinished /\ ~jobtab[s].remembered /\ (mode.i \/ s # bgjob)
                        /\ jobtab[s].state # "stopped"
    BY Zenon DEF Unfinished
  <2>2. \A s \in Used \ Named : s \notin Unfinished /\ (s \in Slot => jobtab[s].state # "stopped")
    BY Zenon DEF Unfinished, Named, Used, SlotInv, Settled
  <2> HIDE DEF drop
  <2> QED
    BY Zenon, <2>1, <2>2
<1> HIDE DEF gone, drop
<1>4. \A j \in Job, b \in BOOLEAN :
          LET r == [j EXCEPT !.changed = j.changed /\ b]
          IN  r \in Job /\ r.used = j.used /\ r.ps = j.ps /\ r.state = j.state /\ r.remembered = j.remembered
  BY Zenon DEF Job
<1>5. \A s \in Slot : (s \notin shown) \in BOOLEAN /\ jobtab[s] \in Job
  BY Zenon DEF IInv, JobInv
<1> HIDE DEF shown
<1>6. /\ seen \in [Slot -> Job]
      /\ \A s \in Slot : /\ seen[s].used = jobtab[s].used /\ seen[s].ps = jobtab[s].ps
                         /\ seen[s].state = jobtab[s].state /\ seen[s].remembered = jobtab[s].remembered
  BY <1>4, <1>5, ZenonT(30)
<1> HIDE DEF seen
<1>7. /\ jobtab' \in [Slot -> Job]
      /\ \A s \in Slot : s \in gone => ~jobtab'[s].used
      /\ \A s \in Slot : s \notin gone => jobtab'[s] = seen[s]
      /\ \A s \in Slot : Settled(jobtab'[s])
      /\ ListInv'
  BY Zenon, <1>1, <1>3, <1>6, FreedNames
<1>8. Forgets(gone, {})
  <2>1. ~Forking'
    BY Zenon, <1>2, FixedFrames DEF Forking
  <2>2. bgjob' = IF bgjob \in gone THEN 0 ELSE bgjob
    BY Zenon, <1>1 DEF Forget
  <2> QED
    BY Zenon, <1>2, <1>6, <1>7, <2>1, <2>2 DEF Forgets
<1>9. MayForget(gone, {})
  <2>1. ~mode.T /\ bgjob \in gone => mode.i
    <3>1. ~mode.T /\ bgjob \in gone /\ bgjob # 0 => bgjob \in Named
      BY Zenon DEF OwedInv
    <3>2. 0 \notin gone
      BY Zenon, SlotsPositive DEF gone, drop, shown, Named, Used
    <3> QED
      BY Zenon, <1>3, <3>1, <3>2
  <2> QED
    BY Zenon, <1>3, <2>1 DEF MayForget
<1> QED
  BY Zenon, <1>7, <1>8, <1>9, ForgetStep

(* waitcmdloop collects done jobs.                                         *)
LEMMA ReleaseNames ==
    ASSUME DeletesOnly, IInv, ListInv, SlotInv, OwedInv, NEW S \in SUBSET Slot,
           \A s \in S : jobtab[s].state = "done", ~mode.T => S \subseteq Named,
           Release(S), Collected({LastPid(s) : s \in S}), mode' = mode, ~Forking'
    PROVE  ListInv' /\ SlotInv' /\ OwedInv'
<1> DEFINE kept == {s \in S : mode.i /\ jobtab[s].changed}
           tab == [s \in Slot |-> [jobtab[s] EXCEPT !.remembered = @ /\ s \notin kept]]
           F == S \ kept
           C == {LastPid(s) : s \in S}
<1>1. jobtab' = Freed(tab, F) /\ Forget(S)
  BY Zenon DEF Release
<1>2. \A j \in Job, b \in BOOLEAN :
          LET r == [j EXCEPT !.remembered = j.remembered /\ b]
          IN  r \in Job /\ r.used = j.used /\ r.ps = j.ps /\ r.state = j.state
              /\ (b => r.remembered = j.remembered)
  BY Zenon DEF Job
<1>3. \A s \in Slot : (s \notin kept) \in BOOLEAN /\ jobtab[s] \in Job
  BY Zenon DEF IInv, JobInv
<1>4. kept \subseteq S
  BY Zenon
<1> HIDE DEF kept
<1>5. /\ tab \in [Slot -> Job]
      /\ \A s \in Slot : /\ tab[s].used = jobtab[s].used
                         /\ tab[s].ps = jobtab[s].ps
                         /\ tab[s].state = jobtab[s].state
                         /\ s \notin kept => tab[s].remembered = jobtab[s].remembered
  BY <1>2, <1>3, ZenonT(30)
<1> HIDE DEF tab
<1>6. /\ jobtab' \in [Slot -> Job]
      /\ \A s \in Slot : s \in F => ~jobtab'[s].used
      /\ \A s \in Slot : s \notin F => jobtab'[s] = tab[s]
      /\ \A s \in Slot : Settled(jobtab'[s])
      /\ ListInv'
  <2>1. \A s \in Slot : s \in S => /\ jobtab[s].used => s \notin Unfinished
                                   /\ jobtab[s].state # "stopped"
    BY Zenon DEF Unfinished
  <2>2. F \subseteq S
    BY Zenon
  <2> HIDE DEF F
  <2> QED
    BY Zenon, <1>1, <1>5, <2>1, <2>2, FreedNames
<1>7. owed' = owed \ C /\ latest' = IF latest \in C THEN 0 ELSE latest
  BY Zenon DEF Collected
<1> HIDE DEF C
<1>8. Forgets(S, C)
  <2>1. bgjob' = IF bgjob \in S THEN 0 ELSE bgjob
    BY Zenon, <1>1 DEF Forget
  <2> QED
    BY Zenon, <1>4, <1>5, <1>6, <1>7, <2>1 DEF Forgets
<1>9. MayForget(S, C)
  <2> SUFFICES ASSUME ~mode.T PROVE MayForget(S, C)
    BY Zenon DEF MayForget
  <2>1. \A t \in S : LastPid(t) \in C
    BY Zenon DEF C
  <2>2. \A p \in C : \E t \in S : p = LastPid(t)
    BY Zenon DEF C
  <2>3. bgjob \in S => LastPid(bgjob) = latest
    BY Zenon, SlotsPositive DEF OwedInv
  <2> QED
    BY Zenon, <2>1, <2>2, <2>3 DEF MayForget
<1> QED
  BY Zenon, <1>6, <1>8, <1>9, ForgetStep

(* Without "set -T" the awaited job can be named.                          *)
LEMMA AwaitedNamed ==
    ASSUME IInv, KeptInv, ~mode.T, cur.job # 0, cur.pc \in InDowait \cup {"waitcmd", "waitfor"}
    PROVE  cur.job \in Named /\ Pids(cur.job) = cur.asked
<1>1. jobtab[cur.job].used /\ Pids(cur.job) = cur.asked /\ cur.asked # <<>> /\ cur.job \in Slot
  <2>1. cur.job \in 0..NSlots
    BY Zenon, FrameFacts DEF Frames
  <2> QED
    BY Zenon, <2>1, SlotsPositive DEF KeptInv
<1>2. PidsOf(<<>>) = <<>>
  BY DEF PidsOf
<1> QED
  BY Zenon, <1>1, <1>2 DEF Named, Used, Pids

(* The waits: waitcmdloop and waitforjob.                                  *)
LEMMA WaitNames ==
    ASSUME DeletesOnly, IInv, Recorded, KeptInv, NamesInv,
           WaitCmdJob \/ WaitCmdAll \/ WaitForJob \/ WaitForJobEnds
    PROVE  ListInv' /\ SlotInv' /\ OwedInv'
<1> USE FrameFacts DEF NamesInv
<1>0. cur.job \in 0..NSlots /\ mode' = mode
  BY Zenon DEF Frames, WaitCmdJob, WaitCmdAll, WaitForJob, WaitForJobEnds
<1>1. \A pc \in {"block", "waitfor"} : At(pc).pc = pc /\ At(pc).job = cur.job /\ At(pc).cmd = cur.cmd
  BY Zenon, AtType DEF Pc
<1>2. After.pc = "check"
  BY Zenon, FixedFrames
<1>3. CASE WaitCmdJob
  <2>1. cur.job \in Slot
    BY Zenon, <1>0, <1>3, SlotsPositive DEF WaitCmdJob
  <2>2. CASE jobtab[cur.job].state = "done"
    <3>1. Release({cur.job}) /\ Collected({LastPid(cur.job)}) /\ cur' = After
      BY Zenon, <1>3, <2>2 DEF WaitCmdJob
    <3>2. {LastPid(s) : s \in {cur.job}} = {LastPid(cur.job)}
      BY Zenon
    <3>3. Collected({LastPid(s) : s \in {cur.job}})
      BY Zenon, <3>1, <3>2
    <3>4. ~mode.T => cur.job \in Named
      BY Zenon, <1>3, AwaitedNamed DEF WaitCmdJob
    <3>5. ~Forking'
      BY Zenon, <1>2, <3>1 DEF Forking
    <3> QED
      BY Zenon, <1>0, <2>1, <2>2, <3>1, <3>3, <3>4, <3>5, ReleaseNames
  <2>3. CASE jobtab[cur.job].state # "done"
    <3>1. /\ cur' = At("block") /\ jobtab' = jobtab /\ jobmru' = jobmru /\ bgjob' = bgjob
          /\ owed' = owed /\ latest' = latest
      BY Zenon, <1>3, <2>3 DEF WaitCmdJob, tabVars, scriptVars
    <3> QED
      BY Zenon, <1>0, <1>1, <3>1, NamesSame DEF Forking
  <2> QED
    BY Zenon, <2>2, <2>3
<1>4. CASE WaitCmdAll
  <2> DEFINE done == {s \in Used : jobtab[s].state = "done"}
  <2>1. Release(done) /\ Collected({LastPid(s) : s \in done})
    BY Zenon, <1>4 DEF WaitCmdAll
  <2>2. ~Forking'
    BY Zenon, <1>1, <1>2, <1>4 DEF WaitCmdAll, Forking
  <2>3. done \in SUBSET Slot /\ done \subseteq Named /\ \A s \in done : jobtab[s].state = "done"
    BY Zenon DEF Used, Named, SlotInv, Settled
  <2> HIDE DEF done
  <2> QED
    BY Zenon, <1>0, <2>1, <2>2, <2>3, ReleaseNames
<1>5. CASE WaitForJob
  <2>1. owed' = owed /\ latest' = latest /\ cur.pc = "waitfor"
    BY Zenon, <1>5 DEF WaitForJob, scriptVars
  <2>2. CASE Reap(cur.job) /\ cur' = cur
    BY Zenon, <1>0, <2>1, <2>2, ReapNames DEF Forking
  <2>3. CASE cur' = At("block") /\ UNCHANGED <<tabVars, kernelVars>>
    BY Zenon, <1>0, <1>1, <2>1, <2>3, NamesSame DEF Forking, tabVars
  <2> QED
    BY Zenon, <1>5, <2>2, <2>3 DEF WaitForJob
<1>6. CASE WaitForJobEnds
  <2> DEFINE s == cur.job
  <2>1. s \in Slot /\ cur.pc = "waitfor" /\ cur' = After /\ ~Forking' /\ jobtab[s] \in Job
    <3>1. cur.pc = "waitfor" /\ cur' = After /\ ~Forking' /\ s # 0
      BY Zenon, <1>2, <1>6 DEF WaitForJobEnds, TargetInv, Targeted, Forking
    <3> QED
      BY Zenon, <1>0, <3>1, SlotsPositive DEF JobInv
  <2>2. CASE jobtab[s].state = "stopped"
    <3>1. /\ jobmru' = setcurjob(jobmru, s) /\ jobtab' = jobtab /\ bgjob' = bgjob
          /\ owed' = owed /\ latest' = latest
      BY Zenon, <1>6, <2>2 DEF WaitForJobEnds, scriptVars
    <3>2. s \in Used /\ s \in Slot
      BY Zenon, <2>1, <2>2 DEF SlotInv, Settled, Used
    <3>3. Used' = Used /\ Unfinished' = Unfinished
      BY Zenon, <3>1 DEF Used, Unfinished, Named
    <3>4. ListInv'
      BY Zenon, <3>1, <3>2, <3>3, ListFirst DEF ListInv
    <3>5. Forgets({}, {}) /\ MayForget({}, {})
      BY Zenon, <1>0, <2>1, <3>1 DEF Forgets, MayForget, SlotInv, JobInv
    <3> QED
      BY Zenon, <3>4, <3>5, ForgetStep
  <2>3. CASE jobtab[s].state # "stopped"
    <3> DEFINE p == cur.asked[Len(cur.asked)]
    <3>1. jobtab' = Freed(jobtab, {s}) /\ Forget({s}) /\ owed' = owed \ {p}
          /\ latest' = IF latest \in {p} THEN 0 ELSE latest
      BY Zenon, <1>6, <2>3 DEF WaitForJobEnds, Collected
    <3>2. jobtab[s].state = "done"
      BY Zenon, <1>6, <2>1, <2>3 DEF WaitForJobEnds, Job
    <3>3. /\ jobtab' \in [Slot -> Job]
          /\ \A t \in Slot : t \in {s} => ~jobtab'[t].used
          /\ \A t \in Slot : t \notin {s} => jobtab'[t] = jobtab[t]
          /\ \A t \in Slot : Settled(jobtab'[t])
          /\ ListInv'
      <4>1. \A t \in Slot : t \in {s} => (jobtab[t].used => t \notin Unfinished) /\ jobtab[t].state # "stopped"
        BY Zenon, <3>2 DEF Unfinished
      <4>2. jobtab \in [Slot -> Job]
        BY Zenon DEF JobInv
      <4> HIDE DEF s
      <4> QED
        BY Zenon, <3>1, <4>1, <4>2, FreedNames
    <3> HIDE DEF p
    <3>4. Forgets({s}, {p})
      BY Zenon, <1>0, <2>1, <3>1, <3>3 DEF Forgets, Forget
    <3>5. MayForget({s}, {p})
      <4> SUFFICES ASSUME ~mode.T PROVE MayForget({s}, {p})
        BY Zenon DEF MayForget
      <4>1. s \in Named /\ Pids(s) = cur.asked
        BY Zenon, <2>1, AwaitedNamed, SlotsPositive
      <4>2. LastPid(s) = p
        BY Zenon, <4>1 DEF LastPid, p
      <4>3. bgjob = s => LastPid(s) = latest
        BY Zenon, <2>1, SlotsPositive DEF OwedInv
      <4> HIDE DEF s
      <4> QED
        BY Zenon, <4>1, <4>2, <4>3 DEF MayForget
    <3> QED
      BY Zenon, <3>3, <3>4, <3>5, ForgetStep
  <2> QED
    BY Zenon, <2>2, <2>3
<1> QED
  BY Zenon, <1>3, <1>4, <1>5, <1>6

(* makejob.                                                                *)
LEMMA StartNames ==
    ASSUME IInv, ListInv, SlotInv, OwedInv, StartJob
    PROVE  ListInv' /\ SlotInv' /\ OwedInv'
<1>1. PICK n \in 1..2, cmd \in {"fg", "bg"}, s \in Slot \ Used :
        /\ jobtab' = [jobtab EXCEPT ![s] = NewJob]
        /\ cur' = Frame(IF cmd = "bg" THEN "zombies" ELSE "fork", cmd, s, n, <<>>)
  BY Zenon DEF StartJob
<1>2. mode' = mode /\ jobmru' = jobmru /\ bgjob' = bgjob /\ owed' = owed /\ latest' = latest
  BY Zenon DEF StartJob, scriptVars
<1>3. NewJob.ps = <<>> /\ NewJob.used /\ NewJob.state = "run" /\ ~NewJob.remembered
  BY Zenon DEF NewJob
<1>4. jobtab'[s] = NewJob /\ \A t \in Slot : t # s => jobtab'[t] = jobtab[t]
  BY Zenon, <1>1 DEF IInv, JobInv
<1>5. Used' = Used \cup {s} /\ Named' = Named /\ Unfinished' = Unfinished
  BY Zenon, <1>3, <1>4 DEF Used, Named, Unfinished
<1>6. \A t \in Used : jobtab'[t] = jobtab[t]
  BY Zenon, <1>4 DEF Used
<1>7. ListInv'
  BY Zenon, <1>2, <1>5, ListWiden DEF ListInv
<1>8. SlotInv'
  <2>1. \A t \in Slot : Settled(jobtab'[t])
    BY Zenon, <1>3, <1>4 DEF SlotInv, Settled
  <2>2. ASSUME NEW t \in Used', NEW u \in Used',
               NEW k \in DOMAIN jobtab'[t].ps, NEW l \in DOMAIN jobtab'[u].ps,
               jobtab'[t].ps[k].pid = jobtab'[u].ps[l].pid
        PROVE  t = u
    <3>1. t \in Used /\ u \in Used
      <4>1. DOMAIN jobtab'[s].ps = {}
        BY Zenon, <1>3, <1>4, EmptySeq
      <4> QED
        BY Zenon, <1>5, <4>1
    <3>2. \A m \in DOMAIN jobtab[t].ps, n1 \in DOMAIN jobtab[u].ps :
              jobtab[t].ps[m].pid = jobtab[u].ps[n1].pid => t = u
      BY <3>1, Zenon DEF SlotInv
    <3> QED
      BY Zenon, <1>6, <2>2, <3>1, <3>2
  <2> QED
    BY Zenon, <1>2, <1>5, <2>1, <2>2 DEF SlotInv
<1>9. ASSUME ~mode.T PROVE OwedInv'
  <2>1. \A t \in Named : t \in Used /\ LastPid(t)' = LastPid(t)
    BY Zenon, <1>6 DEF Named, LastPid, Pids
  <2>2. \A p \in owed' : \E t \in Named' : LastPid(t)' = p /\ jobtab'[t].remembered
    BY Zenon, <1>2, <1>5, <1>6, <1>9, <2>1 DEF OwedInv
  <2>3. bgjob' # 0 => bgjob' \in Named' /\ LastPid(bgjob)' = latest'
    BY Zenon, <1>2, <1>5, <1>6, <1>9 DEF OwedInv, LastPid, Pids, Named
  <2>4. cur'.job = s /\ ~jobtab'[s].remembered /\ bgjob # s
    <3>1. cur'.job = s
      BY Zenon, <1>1 DEF Frame
    <3>2. bgjob # s
      BY Zenon, <1>1, SlotsPositive DEF SlotInv
    <3> QED
      BY Zenon, <1>3, <1>4, <3>1, <3>2
  <2> QED
    BY Zenon, <1>2, <1>9, <2>2, <2>3, <2>4 DEF OwedInv
<1> QED
  BY Zenon, <1>2, <1>7, <1>8, <1>9 DEF OwedInv

(* forkshell: the new process is one that no job has, and what is freed    *)
(* was not remembered.                                                     *)
LEMMA ForkNames ==
    ASSUME DeletesOnly, IInv, Recorded, ListInv, SlotInv, OwedInv, Fork
    PROVE  ListInv' /\ SlotInv' /\ OwedInv'
<1> DEFINE s == cur.job
           pid == Len(procs) + 1
           bgnd == cur.cmd = "bg"
           x == [pid |-> pid, st |-> "run"]
           ps == Append(jobtab[s].ps, x)
           new == [jobtab[s] EXCEPT !.ps = ps, !.foreground = ~bgnd]
           old == {t \in {bgjob} : /\ bgnd /\ t # 0 /\ ~mode.i
                                   /\ jobtab[t].state = "done" /\ ~jobtab[t].remembered}
<1>1. /\ JobInv /\ s \in Slot /\ jobtab[s].used /\ procs \in Seq(Child) /\ jobtab[s].state = "run"
      /\ jobtab[s] \in Job /\ jobtab[s].ps \in Seq(Proc) /\ jobtab \in [Slot -> Job] /\ Forking
  BY Zenon DEF IInv, ForkInv, Forking, Fork, JobInv, Job
<1>2. /\ jobtab' = [Freed(jobtab, old) EXCEPT ![s] = new]
      /\ jobmru' = setcurjob(Without(jobmru, old), s)
      /\ bgjob' = (IF bgnd THEN s ELSE bgjob) /\ latest' = (IF bgnd THEN pid ELSE latest)
      /\ mode' = mode /\ owed' = owed
  BY Zenon DEF Fork
<1>3. \A t \in old : t = bgjob /\ t \in Used /\ bgnd /\ jobtab[t].state = "done" /\ ~jobtab[t].remembered
  BY Zenon DEF SlotInv
<1>4. s \notin old
  BY Zenon, <1>1, <1>3
<1> HIDE DEF old
<1>5. /\ new.used = jobtab[s].used /\ new.ps = ps /\ new.state = jobtab[s].state
      /\ new.remembered = jobtab[s].remembered
  BY <1>1, Zenon DEF Job
<1>6. x.pid = pid
  BY Zenon 
<1> HIDE DEF new, x
<1>7. /\ jobtab'[s] = new
      /\ \A t \in Slot : t # s /\ t \notin old => jobtab'[t] = jobtab[t]
      /\ \A t \in Slot : t \in old => jobtab'[t].used = FALSE
  <2>1. /\ Freed(jobtab, old) \in [Slot -> Job]
        /\ \A t \in Slot : t \in old => Freed(jobtab, old)[t].used = FALSE
        /\ \A t \in Slot : t \notin old => Freed(jobtab, old)[t] = jobtab[t]
    <3>1. jobtab \in [Slot -> Job]
      BY ZenonT(30), <1>1
    <3> HIDE DEF s
    <3> QED
      BY <3>1, FreedMeaning, Zenon
  <2> QED
    BY Zenon, <1>1, <1>2, <1>4, <2>1
<1>8. /\ DOMAIN ps = DOMAIN jobtab[s].ps \cup {Len(jobtab[s].ps) + 1}
      /\ \A k \in DOMAIN jobtab[s].ps : ps[k] = jobtab[s].ps[k]
      /\ ps[Len(jobtab[s].ps) + 1] = x /\ Len(ps) = Len(jobtab[s].ps) + 1 /\ ps # <<>>
  BY Zenon, <1>1, AppendFacts
<1> HIDE DEF ps
<1>9. \A t \in old : t \in Slot /\ jobtab'[t].state # "stopped"
  <2> SUFFICES ASSUME NEW t \in old PROVE t \in Slot /\ jobtab'[t].state # "stopped"
    BY Zenon
  <2>1. t \in Slot /\ jobtab[t] \in Job /\ jobtab[t].state = "done" /\ t # s
    BY Zenon, <1>1, <1>3, <1>4 DEF Used
  <2>2. jobtab'[t] = IF mode.T THEN [jobtab[t] EXCEPT !.used = FALSE] ELSE NoJob
    BY Zenon, <1>2, <2>1 DEF Freed
  <2>3. NoJob.state = "run"
    BY Zenon DEF NoJob, NewJob
  <2>4. [jobtab[t] EXCEPT !.used = FALSE].state = jobtab[t].state
    BY <2>1, Zenon DEF Job
  <2> QED
    BY Zenon, <2>1, <2>2, <2>3, <2>4
<1>10. /\ Used' = Used \ old /\ s \in Used'
       /\ Named' = (Named \ old) \cup {s}
       /\ Unfinished' = (Unfinished \ old) \cup {s}
  <2>1. Used' = Used \ old /\ s \in Used'
    BY Zenon, <1>1, <1>4, <1>5, <1>7 DEF Used
  <2>2. Named' = (Named \ old) \cup {s}
    <3>1. \A t \in Used \ old : t # s => jobtab'[t] = jobtab[t]
      BY Zenon, <1>7 DEF Used
    <3>2. jobtab'[s].ps # <<>>
      BY Zenon, <1>5, <1>7, <1>8
    <3> QED
      BY Zenon, <2>1, <3>1, <3>2 DEF Named
  <2>3. Unfinished' = (Unfinished \ old) \cup {s}
    BY Zenon, <1>1, <1>4, <1>5, <1>7, <1>9, <2>1, <2>2 DEF Unfinished, Named, Used
  <2> QED
    BY Zenon, <2>1, <2>2, <2>3
<1>11. ListInv'
  <2>1. Listed(Without(jobmru, old), Used \ old, Unfinished \ old)
    BY Zenon, ListWithout DEF ListInv
  <2> QED
    BY Zenon, <1>2, <1>10, <2>1, ListFirst DEF ListInv
<1>12. \A t \in Used : \A k \in DOMAIN jobtab[t].ps : jobtab[t].ps[k].pid # pid
  <2>1. \A t \in Used : \A k \in DOMAIN jobtab[t].ps : jobtab[t].ps[k].pid \in DOMAIN procs
    BY Zenon DEF Recorded, Agrees, Used
  <2>2. pid \notin DOMAIN procs
    BY Zenon, <1>1, SeqFacts
  <2> QED
    BY Zenon, <2>1, <2>2
<1> HIDE DEF pid
<1>13. \A t \in Used' : \A k \in DOMAIN jobtab'[t].ps :
          \/ k \in DOMAIN jobtab[t].ps /\ jobtab'[t].ps[k] = jobtab[t].ps[k]
          \/ t = s /\ jobtab'[t].ps[k].pid = pid
  <2> SUFFICES ASSUME NEW t \in Used', NEW k \in DOMAIN jobtab'[t].ps
               PROVE  \/ k \in DOMAIN jobtab[t].ps /\ jobtab'[t].ps[k] = jobtab[t].ps[k]
                      \/ t = s /\ jobtab'[t].ps[k].pid = pid
    BY Zenon 
  <2>1. CASE t = s
    BY Zenon, <1>5, <1>6, <1>7, <1>8, <2>1
  <2>2. CASE t # s
    BY Zenon, <1>7, <1>10, <2>2 DEF Used
  <2> QED
    BY Zenon, <2>1, <2>2
<1>14. SlotInv'
  <2>1. bgjob' \in {0} \cup Used'
    BY Zenon, <1>2, <1>3, <1>10 DEF SlotInv
  <2>2. \A t \in Slot : Settled(jobtab'[t])
    <3>1. Settled(jobtab'[s])
      BY Zenon, <1>1, <1>5, <1>7, <1>8 DEF Settled
    <3>2. \A t \in Slot : t \in old => Settled(jobtab'[t])
      BY Zenon, <1>7, <1>9 DEF Settled
    <3>3. \A t \in Slot : t # s /\ t \notin old => Settled(jobtab'[t])
      BY Zenon, <1>7 DEF SlotInv, Settled
    <3> QED
      BY Zenon, <3>1, <3>2, <3>3
  <2>3. ASSUME NEW t \in Used', NEW u \in Used',
               NEW k \in DOMAIN jobtab'[t].ps, NEW l \in DOMAIN jobtab'[u].ps,
               jobtab'[t].ps[k].pid = jobtab'[u].ps[l].pid
        PROVE  t = u
    <3>1. t \in Used /\ u \in Used
      BY Zenon, <1>10
    <3>2. \A m \in DOMAIN jobtab[t].ps, n \in DOMAIN jobtab[u].ps :
              jobtab[t].ps[m].pid = jobtab[u].ps[n].pid => t = u
      BY <3>1, Zenon DEF SlotInv
    <3>3. \/ k \in DOMAIN jobtab[t].ps /\ jobtab'[t].ps[k] = jobtab[t].ps[k]
          \/ t = s /\ jobtab'[t].ps[k].pid = pid
      BY Zenon, <1>13
    <3>4. \/ l \in DOMAIN jobtab[u].ps /\ jobtab'[u].ps[l] = jobtab[u].ps[l]
          \/ u = s /\ jobtab'[u].ps[l].pid = pid
      BY Zenon, <1>13
    <3> QED
      BY Zenon, <1>12, <2>3, <3>1, <3>2, <3>3, <3>4
  <2> QED
    BY Zenon, <2>1, <2>2, <2>3 DEF SlotInv
<1>15. ASSUME ~mode.T PROVE OwedInv'
  <2>1. ~jobtab[s].remembered /\ (~bgnd => bgjob # s)
    BY Zenon, <1>1, <1>15 DEF OwedInv
  <2>2. \A t \in Named : t # s /\ t \notin old => jobtab'[t] = jobtab[t] /\ LastPid(t)' = LastPid(t) /\ t \in Named'
    BY Zenon, <1>7, <1>10 DEF Named, Used, LastPid, Pids
  <2>3. ASSUME NEW p \in owed' PROVE \E t \in Named' : LastPid(t)' = p /\ jobtab'[t].remembered
    <3>1. PICK t \in Named : LastPid(t) = p /\ jobtab[t].remembered
      BY Zenon, <1>2, <1>15, <2>3 DEF OwedInv
    <3>2. t # s /\ t \notin old
      BY Zenon, <1>3, <2>1, <3>1
    <3> QED
      BY Zenon, <2>2, <3>1, <3>2
  <2>4. PidsOf(jobtab'[s].ps)[Len(PidsOf(jobtab'[s].ps))] = pid
    <3>1. jobtab'[s].ps = ps /\ ps \in Seq(Proc) /\ Len(ps) \in DOMAIN ps /\ ps[Len(ps)].pid = pid
      <4>1. jobtab'[s] \in Job
        BY Zenon, <1>1, ForkStep DEF JobInv
      <4> QED
        BY Zenon, <1>1, <1>5, <1>6, <1>7, <1>8, <4>1 DEF Job
    <3>2. DOMAIN PidsOf(ps) = DOMAIN ps /\ PidsOf(ps)[Len(ps)] = pid
      BY Zenon, <3>1 DEF PidsOf
    <3>3. Len(PidsOf(ps)) = Len(ps)
      BY Zenon, <3>1, PidsLen
    <3> QED
      BY Zenon, <3>1, <3>2, <3>3
  <2>5. bgjob' # 0 => bgjob' \in Named' /\ LastPid(bgjob)' = latest'
    <3>1. CASE bgnd
      <4>1. bgjob' = s /\ latest' = pid
        BY Zenon, <1>2, <3>1
      <4>2. LastPid(bgjob)' = pid
        BY Zenon, <2>4, <4>1 DEF LastPid, Pids
      <4> QED
        BY Zenon, <1>10, <4>1, <4>2
    <3>2. CASE ~bgnd
      <4>1. bgjob' = bgjob /\ latest' = latest /\ bgjob # s /\ bgjob \notin old
        BY Zenon, <1>2, <1>3, <2>1, <3>2
      <4>2. bgjob # 0 => bgjob \in Named /\ LastPid(bgjob) = latest
        BY Zenon, <1>15 DEF OwedInv
      <4>3. bgjob # 0 => jobtab'[bgjob] = jobtab[bgjob] /\ bgjob \in Named'
        BY Zenon, <2>2, <4>1, <4>2
      <4> QED
        BY Zenon, <4>1, <4>2, <4>3 DEF LastPid, Pids
    <3> QED
      BY Zenon, <3>1, <3>2
  <2>6. ~mode'.i /\ latest' # 0 => bgjob' # 0
    <3>1. CASE bgnd
      BY Zenon, <1>1, <1>2, <3>1, SlotsPositive
    <3>2. CASE ~bgnd
      BY Zenon, <1>2, <1>15, <3>2 DEF OwedInv
    <3> QED
      BY Zenon, <3>1, <3>2
  <2>7. Forking' => ~jobtab'[cur'.job].remembered /\ (cur'.cmd # "bg" => bgjob' # cur'.job)
    <3>1. Forking' => cur'.job = s /\ cur'.cmd = cur.cmd
      <4>1. cur \in Frames
        BY Zenon, FrameFacts
      <4>2. \/ cur' = [cur EXCEPT !.left = @ - 1]
            \/ cur' = After
            \/ \E q : cur' = Frame("waitfor", "fg", s, 0, q)
        BY Zenon DEF Fork
      <4> QED
        <5>1. CASE cur' = [cur EXCEPT !.left = @ - 1]
          BY Zenon, <4>1, <5>1 DEF Frames
        <5>2. CASE cur' # [cur EXCEPT !.left = @ - 1]
          <6>1. \A q : Frame("waitfor", "fg", s, 0, q).pc = "waitfor"
            BY Zenon DEF Frame
          <6>2. cur'.pc = "check" \/ cur'.pc = "waitfor"
            BY Zenon, <4>2, <5>2, <6>1, FixedFrames
          <6> QED
            BY Zenon, <6>2 DEF Forking
        <5> QED
          BY Zenon, <5>1, <5>2
    <3> QED
      BY Zenon, <1>2, <1>5, <1>7, <2>1, <3>1
  <2> QED
    BY Zenon, <1>2, <2>3, <2>5, <2>6, <2>7 DEF OwedInv
<1> QED
  BY Zenon, <1>2, <1>11, <1>14, <1>15 DEF OwedInv

(* restartjob puts the job first and changes no pid.                       *)
LEMMA RestartNames ==
    ASSUME DeletesOnly, IInv, ListInv, SlotInv, OwedInv, NEW s \in Named, NEW fg \in BOOLEAN, restartjob(s, fg),
           mode' = mode, bgjob' = bgjob, owed' = owed, latest' = latest, ~Forking'
    PROVE  ListInv' /\ SlotInv' /\ OwedInv'
<1> DEFINE old == jobtab[s]
           ps == [k \in DOMAIN old.ps |->
                     IF old.ps[k].st = "stop" THEN [pid |-> old.ps[k].pid, st |-> "run"] ELSE old.ps[k]]
<1>0. JobInv /\ s \in Slot /\ s \in Used /\ jobtab \in [Slot -> Job] /\ old \in Job /\ old.ps \in Seq(Proc)
      /\ old.used /\ old.ps # <<>>
  BY Zenon DEF IInv, JobInv, Named, Used, Job
<1>1. CASE old.state = "done"
  <2>1. jobtab' = jobtab /\ jobmru' = jobmru
    BY Zenon, <1>1 DEF restartjob
  <2> QED
    BY Zenon, <2>1, NamesSame
<1>2. CASE old.state # "done"
  <2> DEFINE st == IF ps = old.ps THEN old.state ELSE "run"
             new == [old EXCEPT !.ps = ps, !.foreground = fg, !.state = st]
  <2>1. jobtab' = [jobtab EXCEPT ![s] = new] /\ jobmru' = setcurjob(jobmru, s)
    BY <1>2, Zenon DEF restartjob
  <2>2. PidsOf(ps) = PidsOf(old.ps)
    BY Zenon DEF PidsOf
  <2>3. ps \in Seq(Proc)
    <3>1. \A x \in Proc : [pid |-> x.pid, st |-> "run"] \in Proc
      BY Zenon DEF Proc, Alive
    <3>2. DOMAIN old.ps = 1..Len(old.ps) /\ Len(old.ps) \in Nat /\ \A k \in DOMAIN old.ps : old.ps[k] \in Proc
      BY Zenon, <1>0, SeqFacts
    <3>3. ps \in [1..Len(old.ps) -> Proc]
      BY Zenon, <3>1, <3>2
    <3> HIDE DEF ps
    <3> QED
      BY Zenon, <3>2, <3>3, SeqOf
  <2> HIDE DEF ps
  <2>4. ps # <<>>
    BY Zenon, <1>0, <2>2, <2>3, SamePids
  <2>5. /\ st \in {"run", "stopped", "done"} /\ st # "done"
    BY Zenon, <1>0, <1>2 DEF Job
  <2> HIDE DEF st
  <2>6. /\ new \in Job /\ new.used = old.used /\ new.ps = ps /\ new.state = st
        /\ new.remembered = old.remembered
    BY <1>0, <2>3, <2>5, Zenon DEF Job
  <2> HIDE DEF new
  <2>7. /\ jobtab'[s] = new /\ \A t \in Slot : t # s => jobtab'[t] = jobtab[t]
        /\ jobtab' \in [Slot -> Job]
    BY Zenon, <1>0, <2>1, <2>6
  <2> HIDE DEF old
  <2>8. Used' = Used /\ Unfinished' \subseteq Unfinished \cup {s}
    <3>1. Used' = Used
      BY Zenon, <2>6, <2>7 DEF Used, old
    <3> QED
      BY Zenon, <2>7, <3>1 DEF Unfinished, Named, Used
  <2>9. ListInv'
    BY Zenon, <1>0, <2>1, <2>8, ListFirst DEF ListInv
  <2>10. Forgets({}, {})
    <3>1. \A t \in Slot : /\ jobtab'[t].used = jobtab[t].used
                          /\ PidsOf(jobtab'[t].ps) = PidsOf(jobtab[t].ps)
                          /\ jobtab'[t].remembered = jobtab[t].remembered
      BY Zenon, <2>2, <2>6, <2>7 DEF old
    <3>2. \A t \in Slot : Settled(jobtab'[t])
      BY Zenon, <1>0, <2>4, <2>6, <2>7 DEF SlotInv, Settled, old
    <3> QED
      BY Zenon, <2>7, <3>1, <3>2 DEF Forgets
  <2>11. MayForget({}, {})
    BY Zenon DEF MayForget
  <2> QED
    BY Zenon, <2>9, <2>10, <2>11, ForgetStep
<1> QED
  BY Zenon, <1>1, <1>2

(* The commands of the script.                                             *)
LEMMA CommandNames ==
    ASSUME DeletesOnly, IInv, Recorded, ListInv, SlotInv, OwedInv,
           StartJob \/ Fork \/ ForkFails \/ DollarBang \/ Wait \/ FgBg \/ ShowJobs
    PROVE  ListInv' /\ SlotInv' /\ OwedInv'
<1>0. After.pc = "check"
  BY Zenon, FixedFrames
<1>1. CASE ForkFails \/ Wait \/ ShowJobs
  <2>1. /\ mode' = mode /\ jobtab' = jobtab /\ jobmru' = jobmru /\ bgjob' = bgjob
        /\ owed' = owed /\ latest' = latest
    BY Zenon, <1>1 DEF ForkFails, Wait, ShowJobs, tabVars, scriptVars
  <2>2. ~Forking'
    <3>1. \A c, j, q : /\ Frame("check", c, j, 0, q).pc = "check" /\ Frame("over", c, j, 0, q).pc = "over"
      BY Zenon DEF Frame
    <3>2. CASE ForkFails
      BY Zenon, <3>1, <3>2 DEF ForkFails, Forking
    <3>3. CASE Wait
      <4>1. PICK s, q : cur' = Frame("waitcmd", "wait", s, 0, q)
        BY Zenon, <3>3 DEF Wait
      <4>2. Frame("waitcmd", "wait", s, 0, q).pc = "waitcmd"
        BY Zenon DEF Frame
      <4>3. cur'.pc = "waitcmd"
        BY Zenon, <4>1, <4>2
      <4> QED
        BY Zenon, <4>3 DEF Forking
    <3>4. CASE ShowJobs
      <4>1. PICK c \in {"jobs", "prompt"} : cur' = Frame("zombies", c, 0, 0, <<>>)
        BY Zenon, <3>4 DEF ShowJobs
      <4>2. Frame("zombies", c, 0, 0, <<>>).cmd = c
        BY Zenon DEF Frame
      <4>3. cur'.cmd = c /\ (c = "jobs" \/ c = "prompt")
        BY Zenon, <4>1, <4>2
      <4>4. Frame("zombies", c, 0, 0, <<>>).pc = "zombies"
        BY Zenon DEF Frame
      <4>5. cur'.pc = "zombies"
        BY Zenon, <4>1, <4>4
      <4> QED
        BY Zenon, <4>3, <4>5 DEF Forking
    <3> QED
      BY Zenon, <1>1, <3>2, <3>3, <3>4
  <2> QED
    BY Zenon, <2>1, <2>2, NamesSame
<1>2. CASE DollarBang
  <2>1. /\ jobtab' = [jobtab EXCEPT ![bgjob].remembered = TRUE] /\ bgjob # 0
        /\ owed' = owed \cup ({latest} \ {0})
        /\ mode' = mode /\ jobmru' = jobmru /\ bgjob' = bgjob /\ latest' = latest /\ cur' = After
    BY Zenon, <1>2 DEF DollarBang
  <2>2. bgjob \in Slot /\ bgjob \in Used /\ jobtab \in [Slot -> Job] /\ jobtab[bgjob] \in Job
    BY Zenon, <2>1 DEF SlotInv, Used, IInv, JobInv
  <2>3. LET r == [jobtab[bgjob] EXCEPT !.remembered = TRUE]
        IN  /\ r.used = jobtab[bgjob].used /\ r.ps = jobtab[bgjob].ps
            /\ r.state = jobtab[bgjob].state /\ r.remembered
    BY <2>2, Zenon DEF Job
  <2>4. /\ \A t \in Slot : t # bgjob => jobtab'[t] = jobtab[t]
        /\ jobtab'[bgjob] = [jobtab[bgjob] EXCEPT !.remembered = TRUE]
    BY Zenon, <2>1, <2>2
  <2>5. \A t \in Slot : /\ jobtab'[t].used = jobtab[t].used /\ jobtab'[t].ps = jobtab[t].ps
                        /\ jobtab'[t].state = jobtab[t].state
                        /\ jobtab[t].remembered => jobtab'[t].remembered
    BY Zenon, <2>2, <2>3, <2>4
  <2>6. jobtab'[bgjob].remembered
    BY Zenon, <2>2, <2>3, <2>4
  <2>7. Used' = Used /\ Named' = Named /\ Unfinished' = Unfinished
    BY Zenon, <2>5 DEF Used, Named, Unfinished
  <2>8. ListInv'
    BY Zenon, <2>1, <2>7 DEF ListInv
  <2>9. SlotInv'
    <3>1. \A t \in Slot : Settled(jobtab'[t])
      BY Zenon, <2>5 DEF SlotInv, Settled
    <3>2. \A t \in Used : jobtab'[t].ps = jobtab[t].ps
      BY Zenon, <2>5 DEF Used
    <3>3. ASSUME NEW t \in Used', NEW u \in Used',
                 NEW k \in DOMAIN jobtab'[t].ps, NEW l \in DOMAIN jobtab'[u].ps,
                 jobtab'[t].ps[k].pid = jobtab'[u].ps[l].pid
          PROVE  t = u
      <4>1. t \in Used /\ u \in Used
        BY Zenon, <2>7
      <4>2. \A m \in DOMAIN jobtab[t].ps, n \in DOMAIN jobtab[u].ps :
                jobtab[t].ps[m].pid = jobtab[u].ps[n].pid => t = u
        BY <4>1, Zenon DEF SlotInv
      <4> QED
        BY Zenon, <3>2, <3>3, <4>1, <4>2
    <3> QED
      BY Zenon, <2>1, <2>7, <3>1, <3>3 DEF SlotInv
  <2>10. ASSUME ~mode.T PROVE OwedInv'
    <3>1. \A t \in Named : t \in Slot /\ LastPid(t)' = LastPid(t)
      BY Zenon, <2>5 DEF Named, Used, LastPid, Pids
    <3>2. bgjob \in Named /\ LastPid(bgjob) = latest
      BY Zenon, <2>1, <2>10 DEF OwedInv
    <3>3. ASSUME NEW p \in owed' PROVE \E t \in Named' : LastPid(t)' = p /\ jobtab'[t].remembered
      <4>1. CASE p \in owed
        <5>1. PICK t \in Named : LastPid(t) = p /\ jobtab[t].remembered
          BY Zenon, <2>10, <4>1 DEF OwedInv
        <5>2. t \in Named' /\ LastPid(t)' = p /\ jobtab'[t].remembered
          BY Zenon, <2>5, <2>7, <3>1, <5>1
        <5> QED
          BY Zenon, <5>2
      <4>2. CASE p = latest
        BY Zenon, <2>6, <2>7, <3>1, <3>2, <4>2
      <4> QED
        BY Zenon, <2>1, <4>1, <4>2
    <3>4. bgjob' \in Named' /\ LastPid(bgjob)' = latest'
      BY Zenon, <2>1, <2>5, <2>7, <3>1, <3>2 DEF LastPid, Pids
    <3>5. ~Forking'
      BY Zenon, <1>0, <2>1 DEF Forking
    <3> QED
      BY Zenon, <2>1, <3>3, <3>4, <3>5 DEF OwedInv
  <2> QED
    BY Zenon, <2>1, <2>8, <2>9, <2>10 DEF OwedInv
<1>3. CASE FgBg
  <2>1. PICK s \in Named, fg \in BOOLEAN :
           restartjob(s, fg) /\ cur' = IF fg THEN Frame("waitfor", "fg", s, 0, Pids(s)) ELSE After
    BY Zenon, <1>3 DEF FgBg
  <2>2. mode' = mode /\ bgjob' = bgjob /\ owed' = owed /\ latest' = latest
    BY Zenon, <1>3 DEF FgBg, scriptVars
  <2>3. ~Forking'
    BY Zenon, <1>0, <2>1 DEF Forking, Frame
  <2> QED
    BY Zenon, <2>1, <2>2, <2>3, RestartNames
<1> QED
  BY Zenon, <1>1, <1>2, <1>3, StartNames, ForkNames

(* Every other step of the shell, of its children and of signals.          *)
LEMMA OtherNames ==
    ASSUME DeletesOnly, IInv, ListInv, SlotInv, OwedInv,
           \/ CheckZombies \/ Show \/ Block \/ Poll \/ Suspend \/ WaitBroken
           \/ Check \/ ClearPending \/ Scan \/ TrapEnds
           \/ (\E p \in Pid : ChildExits(p)) \/ ChildStops \/ Signal \/ Deliver \/ UNCHANGED shVars
    PROVE  ListInv' /\ SlotInv' /\ OwedInv'
<1> USE FrameFacts
<1>0. \A pc \in Pc : At(pc).pc = pc /\ At(pc).job = cur.job /\ At(pc).cmd = cur.cmd
  BY Zenon, AtType
<1>1. CASE CheckZombies
  <2>1. mode' = mode /\ owed' = owed /\ latest' = latest /\ cur.pc = "zombies"
    BY Zenon, <1>1 DEF CheckZombies, scriptVars
  <2>2. CASE Reap(0) /\ cur' = cur
    <3>1. Forking' => /\ Forking /\ cur'.job = cur.job /\ cur'.cmd = cur.cmd
                      /\ jobtab[cur.job].ps = <<>>
      BY Zenon, <2>1, <2>2 DEF Forking, IInv, ForkInv
    <3> QED
      BY Zenon, <2>1, <2>2, <3>1, ReapNames
  <2>3. CASE cur' = At(IF cur.cmd = "bg" THEN "fork" ELSE "show") /\ UNCHANGED <<tabVars, kernelVars>>
    <3>1. Forking' => Forking /\ cur'.job = cur.job /\ cur'.cmd = cur.cmd
      BY Zenon, <1>0, <2>1, <2>3 DEF Forking, Pc
    <3> QED
      BY Zenon, <2>1, <2>3, <3>1, NamesSame DEF tabVars
  <2> QED
    BY Zenon, <1>1, <2>2, <2>3 DEF CheckZombies
<1>2. CASE Poll
  <2>1. mode' = mode /\ owed' = owed /\ latest' = latest
    BY Zenon, <1>2 DEF Poll, scriptVars
  <2>2. ~Forking'
    BY Zenon, <1>0, <1>2 DEF Poll, Forking, Pc
  <2>3. CASE Reap(cur.job)
    BY Zenon, <2>1, <2>2, <2>3, ReapNames
  <2>4. CASE UNCHANGED <<tabVars, kernelVars>>
    BY Zenon, <2>1, <2>2, <2>4, NamesSame DEF tabVars
  <2> QED
    BY Zenon, <1>2, <2>3, <2>4 DEF Poll
<1>3. CASE Block \/ Suspend \/ WaitBroken \/ Check \/ ClearPending \/ Scan \/ TrapEnds
  <2>1. /\ mode' = mode /\ jobtab' = jobtab /\ jobmru' = jobmru /\ bgjob' = bgjob
        /\ owed' = owed /\ latest' = latest
    BY Zenon, <1>3 DEF Block, Suspend, WaitBroken, Check, ClearPending, Scan, TrapEnds, tabVars, scriptVars
  <2>2. ~Forking'
    <3>1. CASE Scan /\ ~gotsig
      <4>1. cur' = Head(saved) /\ saved # <<>>
        BY Zenon, <3>1 DEF Scan, IInv, FrameInv
      <4>2. cur' \in SavedFrames
        BY Zenon, <4>1, TailFacts DEF IInv, FrameInv
      <4> QED
        BY Zenon, <4>2 DEF SavedFrames, Forking
    <3>2. CASE ~(Scan /\ ~gotsig)
      <4>1. \/ \E pc \in {"poll", "block", "cmd", "scan"} : cur' = At(pc)
            \/ cur' = After \/ cur' = TrapFrame
        BY Zenon, <1>3, <3>2 DEF Block, Suspend, WaitBroken, Check, ClearPending, Scan, TrapEnds
      <4>2. cur'.pc \in {"poll", "block", "cmd", "scan", "check", "dotrap"}
        <5>1. CASE \E pc \in {"poll", "block", "cmd", "scan"} : cur' = At(pc)
          <6>1. PICK pc \in {"poll", "block", "cmd", "scan"} : cur' = At(pc)
            BY Zenon, <5>1
          <6>2. At(pc).pc = pc
            BY Zenon, <1>0 DEF Pc
          <6>3. cur'.pc = pc
            BY Zenon, <6>1, <6>2
          <6> QED
            BY Zenon, <6>3
        <5>2. CASE cur' = After \/ cur' = TrapFrame
          <6>1. cur'.pc = "check" \/ cur'.pc = "dotrap"
            BY Zenon, <5>2, FixedFrames
          <6> QED
            BY Zenon, <6>1
        <5> QED
          BY Zenon, <4>1, <5>1, <5>2
      <4> QED
        BY Zenon, <4>2 DEF Forking
    <3> QED
      BY Zenon, <3>1, <3>2
  <2> QED
    BY Zenon, <2>1, <2>2, NamesSame
<1>4. CASE (\E p \in Pid : ChildExits(p)) \/ ChildStops \/ Signal \/ Deliver \/ UNCHANGED shVars
  <2>1. /\ mode' = mode /\ jobtab' = jobtab /\ jobmru' = jobmru /\ bgjob' = bgjob
        /\ owed' = owed /\ latest' = latest /\ cur' = cur
    BY Zenon, <1>4 DEF ChildExits, ChildStops, Signal, Deliver, shVars, shellVars, tabVars, scriptVars
  <2> QED
    BY Zenon, <2>1, NamesSame DEF Forking
<1> QED
  BY Zenon, <1>1, <1>2, <1>3, <1>4, ShowNames

(* The frames of waitforjob keep a job, also while traps interrupt them.   *)
LEMMA TargetStep ==
    ASSUME IInv, TargetInv, [Next]_shVars
    PROVE  TargetInv'
<1> USE FrameFacts
<1>0. \A pc \in Pc : At(pc).pc = pc /\ At(pc).job = cur.job /\ At(pc).cmd = cur.cmd
  BY Zenon, AtType
<1>1. \A f : f.pc \notin InDowait \cup {"waitcmd", "waitfor"} => Targeted(f)
  BY Zenon DEF Targeted
<1>2. Targeted(After) /\ Targeted(TrapFrame)
  BY Zenon, <1>1, FixedFrames DEF InDowait
<1>3. CASE StartJob \/ ForkFails \/ DollarBang \/ Wait \/ FgBg \/ ShowJobs
  <2>1. \A k \in DOMAIN saved' : Targeted(saved'[k])
    <3>1. saved' = saved \/ saved' = <<>>
      BY Zenon, <1>3 DEF StartJob, ForkFails, DollarBang, Wait, FgBg, ShowJobs
    <3>2. CASE saved' = saved
      BY Zenon, <3>2 DEF TargetInv
    <3>3. CASE saved' = <<>>
      BY Zenon, <3>3, EmptySeq
    <3> QED
      BY Zenon, <3>1, <3>2, <3>3
  <2>2. \A pc \in {"zombies", "fork", "check", "over"} : \A cmd, s, n : Targeted(Frame(pc, cmd, s, n, <<>>))
    BY Zenon, <1>1 DEF Frame, InDowait
  <2>3. \A s, q : Targeted(Frame("waitcmd", "wait", s, 0, q))
    BY Zenon DEF Frame, Targeted, InDowait
  <2>4. \A s \in Named : \A q : Targeted(Frame("waitfor", "fg", s, 0, q))
    BY Zenon, SlotsPositive DEF Frame, Targeted, InDowait, Named, Used
  <2>5. Targeted(cur')
    <3>1. CASE StartJob
      <4>1. PICK n \in 1..2, cmd \in {"fg", "bg"}, s \in Slot \ Used :
                cur' = Frame(IF cmd = "bg" THEN "zombies" ELSE "fork", cmd, s, n, <<>>)
        BY <3>1, Zenon DEF StartJob
      <4> QED
        BY Zenon, <2>2, <4>1
    <3>2. CASE ForkFails \/ ShowJobs
      BY Zenon, <2>2, <3>2 DEF ForkFails, ShowJobs
    <3>3. CASE Wait
      BY Zenon, <2>3, <3>3 DEF Wait
    <3>4. CASE FgBg
      BY Zenon, <1>2, <2>4, <3>4 DEF FgBg
    <3>5. CASE DollarBang
      BY Zenon, <1>2, <3>5 DEF DollarBang
    <3> QED
      BY Zenon, <1>3, <3>1, <3>2, <3>3, <3>4, <3>5
  <2> QED
    BY Zenon, <2>1, <2>5 DEF TargetInv, Targeted
<1>4. CASE Fork
  <2>1. saved' = saved /\ cur.pc = "fork" /\ cur.job \in Slot
    BY Zenon, <1>4 DEF Fork, IInv, ForkInv, Forking
  <2>2. \/ cur' = [cur EXCEPT !.left = @ - 1]
        \/ cur' = After
        \/ \E q : cur' = Frame("waitfor", "fg", cur.job, 0, q)
    BY Zenon, <1>4 DEF Fork
  <2>3. Targeted(cur')
    <3>1. CASE cur' = [cur EXCEPT !.left = @ - 1]
      BY Zenon, <1>1, <2>1, <3>1 DEF Frames, InDowait
    <3>2. CASE \E q : cur' = Frame("waitfor", "fg", cur.job, 0, q)
      <4>1. \A q : LET f == Frame("waitfor", "fg", cur.job, 0, q)
                   IN  f.pc = "waitfor" /\ f.job = cur.job
        BY Zenon DEF Frame
      <4>2. cur.job # 0
        BY Zenon, <2>1, SlotsPositive
      <4>3. cur'.pc = "waitfor" /\ cur'.job = cur.job
        BY Zenon, <3>2, <4>1
      <4> QED
        BY Zenon, <4>2, <4>3 DEF Targeted
    <3> QED
      BY Zenon, <1>2, <2>2, <3>1, <3>2
  <2> QED
    BY Zenon, <2>1, <2>3 DEF TargetInv, Targeted
<1>5. CASE CheckZombies \/ Show
  <2>1. saved' = saved /\ (cur' = cur \/ cur' = After \/ \E pc \in {"fork", "show"} : cur' = At(pc))
    BY Zenon, <1>5 DEF CheckZombies, Show
  <2>2. Targeted(cur')
    BY Zenon, <1>0, <1>1, <1>2, <2>1 DEF InDowait, Pc, TargetInv
  <2> QED
    BY Zenon, <2>1, <2>2 DEF TargetInv, Targeted
<1>6. CASE WaitCmdJob \/ WaitCmdAll \/ WaitForJob \/ WaitForJobEnds \/ Block \/ Poll \/ Suspend
  <2>1. saved' = saved
    BY Zenon, <1>6 DEF WaitCmdJob, WaitCmdAll, WaitForJob, WaitForJobEnds, Block, Poll, Suspend
  <2>2. \/ cur' = After \/ cur' = cur
        \/ /\ cur.pc \in {"waitcmd", "waitfor"} \cup InDowait
           /\ \E pc \in InDowait : cur' = At(pc)
        \/ cur.pc = "poll" /\ cur' = At(IF cur.cmd = "wait" THEN "waitcmd" ELSE "waitfor")
    BY Zenon, <1>6 DEF WaitCmdJob, WaitCmdAll, WaitForJob, WaitForJobEnds, Block, Poll, Suspend, InDowait
  <2>3. Targeted(cur')
    <3>1. CASE cur.pc \in {"waitcmd", "waitfor"} \cup InDowait /\ \E pc \in InDowait : cur' = At(pc)
      <4>1. PICK pc \in InDowait : cur' = At(pc)
        BY Zenon, <3>1
      <4>2. cur'.pc = pc /\ cur'.job = cur.job /\ cur'.cmd = cur.cmd
        BY Zenon, <1>0, <4>1 DEF InDowait, Pc
      <4>3. cur.cmd # "wait" => cur.job # 0
        BY Zenon, <3>1 DEF TargetInv, Targeted
      <4> QED
        BY Zenon, <4>2, <4>3 DEF Targeted, InDowait
    <3>2. CASE cur.pc = "poll" /\ cur' = At(IF cur.cmd = "wait" THEN "waitcmd" ELSE "waitfor")
      BY Zenon, <1>0, <3>2 DEF TargetInv, Targeted, InDowait, Pc
    <3> QED
      BY Zenon, <1>2, <2>2, <3>1, <3>2 DEF TargetInv
  <2> QED
    BY Zenon, <2>1, <2>3 DEF TargetInv, Targeted
<1>7. CASE WaitBroken \/ Check
  <2>1. /\ cur' = After \/ cur' = TrapFrame \/ cur' = At("cmd")
        /\ \/ saved' = saved \/ saved' = <<At("cmd")>> \o saved
           \/ cur.pc = "eintr" /\ cur.cmd # "wait" /\ saved' = <<At("waitfor")>> \o saved
    BY Zenon, <1>7 DEF WaitBroken, Check
  <2>2. Targeted(cur')
    BY Zenon, <1>0, <1>1, <1>2, <2>1 DEF InDowait, Pc
  <2>3. \A k \in DOMAIN saved' : Targeted(saved'[k])
    <3>1. ASSUME NEW f \in SavedFrames, Targeted(f), saved' = <<f>> \o saved
          PROVE  \A k \in DOMAIN saved' : Targeted(saved'[k])
      <4>1. \A k \in DOMAIN saved' : saved'[k] = f \/ \E l \in DOMAIN saved : saved'[k] = saved[l]
        <5>1. saved \in Seq(SavedFrames) /\ f \in SavedFrames
          BY Zenon, <3>1
        <5>2. Among(<<f>> \o saved, f, saved)
          BY Zenon, <5>1, ConsElements
        <5>3. Among(saved', f, saved)
          BY Zenon, <3>1, <5>2
        <5> QED
          BY Zenon, <5>3 DEF Among
      <4> QED
        BY Zenon, <3>1, <4>1 DEF TargetInv
    <3>2. At("cmd") \in SavedFrames /\ At("waitfor") \in SavedFrames /\ Targeted(At("cmd"))
      BY Zenon, <1>0, <1>1, AtType DEF Pc, InDowait
    <3>3. cur.pc = "eintr" /\ cur.cmd # "wait" => Targeted(At("waitfor"))
      BY Zenon, <1>0 DEF TargetInv, Targeted, InDowait, Pc
    <3> QED
      BY Zenon, <2>1, <3>1, <3>2, <3>3 DEF TargetInv
  <2> QED
    BY Zenon, <2>2, <2>3 DEF TargetInv, Targeted
<1>8. CASE ClearPending \/ Scan \/ TrapEnds
  <2>1. \/ saved' = saved /\ (cur' = TrapFrame \/ \E pc \in {"scan", "cmd"} : cur' = At(pc))
        \/ cur' = Head(saved) /\ saved' = Tail(saved) /\ saved # <<>>
    BY Zenon, <1>8 DEF ClearPending, Scan, TrapEnds, IInv, FrameInv
  <2>2. CASE saved' = saved /\ (cur' = TrapFrame \/ \E pc \in {"scan", "cmd"} : cur' = At(pc))
    <3>1. Targeted(cur')
      BY Zenon, <1>0, <1>1, <1>2, <2>2 DEF InDowait, Pc
    <3> QED
      BY Zenon, <2>2, <3>1 DEF TargetInv, Targeted
  <2>3. CASE cur' = Head(saved) /\ saved' = Tail(saved) /\ saved # <<>>
    <3>1. /\ \E l \in DOMAIN saved : cur' = saved[l]
          /\ \A k \in DOMAIN saved' : \E l \in DOMAIN saved : saved'[k] = saved[l]
      <4>1. saved \in Seq(SavedFrames) /\ saved # <<>>
        BY Zenon, <2>3
      <4> QED
        BY Zenon, <2>3, <4>1, TailFacts
    <3> QED
      BY Zenon, <3>1 DEF TargetInv, Targeted
  <2> QED
    BY Zenon, <2>1, <2>2, <2>3
<1>9. CASE (\E p \in Pid : ChildExits(p)) \/ ChildStops \/ Signal \/ Deliver \/ UNCHANGED shVars
  <2>1. cur' = cur /\ saved' = saved
    BY Zenon, <1>9 DEF ChildExits, ChildStops, Signal, Deliver, shVars, shellVars
  <2> QED
    BY Zenon, <2>1 DEF TargetInv, Targeted
<1> QED
  BY Zenon, <1>3, <1>4, <1>5, <1>6, <1>7, <1>8, <1>9 DEF Next, Shell

INSTANCE FiniteSetTheorems

(* Without is what the lemmas on jobmru take it for (deljob, setcurjob).   *)
LEMMA WithoutMeaning == DeletesOnly
<1> SUFFICES ASSUME NEW U, NEW q \in Seq(U), NEW S, Distinct(q)
             PROVE  /\ Without(q, S) \in Seq(U \ S)
                    /\ Distinct(Without(q, S))
                    /\ Keeps(Without(q, S), q, S)
  BY Zenon DEF DeletesOnly
<1> DEFINE keep == {n \in DOMAIN q : q[n] \notin S}
           upto(n) == {m \in keep : m <= n}
           c == Cardinality(keep)
           rank == [n \in keep |-> Cardinality(upto(n))]
           at(k) == CHOOSE n \in keep : Cardinality({m \in keep : m <= n}) = k
           w == [k \in 1..c |-> q[at(k)]]
<1>1. DOMAIN q = 1..Len(q) /\ Len(q) \in Nat /\ \A n \in DOMAIN q : q[n] \in U
  BY Zenon, SeqFacts
<1>2. IsFiniteSet(keep) /\ c \in Nat
  <2>1. IsFiniteSet(1..Len(q))
    BY <1>1, FS_Interval
  <2> QED
    BY Zenon, <1>1, <2>1, FS_Subset, FS_CardinalityType
<1>3. \A n \in keep : IsFiniteSet(upto(n)) /\ Cardinality(upto(n)) \in 1..c
  <2> SUFFICES ASSUME NEW n \in keep PROVE IsFiniteSet(upto(n)) /\ Cardinality(upto(n)) \in 1..c
    BY Zenon
  <2>1. upto(n) \in SUBSET keep
    BY Zenon
  <2>2. IsFiniteSet(upto(n)) /\ Cardinality(upto(n)) <= c
    BY Zenon, <1>2, <2>1, FS_Subset
  <2>3. n \in upto(n)
    BY <1>1
  <2>4. Cardinality(upto(n)) \in Nat /\ Cardinality(upto(n)) # 0
    BY Zenon, <2>2, <2>3, FS_EmptySet, FS_CardinalityType
  <2> HIDE DEF upto, c
  <2> QED
    BY <1>2, <2>2, <2>4
<1>4. \A m, n \in keep : m < n => Cardinality(upto(m)) # Cardinality(upto(n))
  <2> SUFFICES ASSUME NEW m \in keep, NEW n \in keep, m < n
               PROVE  Cardinality(upto(m)) # Cardinality(upto(n))
    BY Zenon
  <2>1. upto(m) \in SUBSET upto(n) /\ n \in upto(n) /\ n \notin upto(m)
    BY <1>1
  <2>2. IsFiniteSet(upto(n))
    BY Zenon, <1>3
  <2> HIDE DEF upto
  <2> QED
    BY Zenon, <2>1, <2>2, FS_Subset
<1>5. rank \in [keep -> 1..c]
  BY Zenon, <1>3
<1>6. \A m, n \in keep : rank[m] = rank[n] => m = n
  <2> SUFFICES ASSUME NEW m \in keep, NEW n \in keep, rank[m] = rank[n], m # n PROVE FALSE
    BY Zenon
  <2>1. rank[m] = Cardinality(upto(m)) /\ rank[n] = Cardinality(upto(n))
    BY Zenon
  <2>2. m < n \/ n < m
    BY <1>1
  <2> HIDE DEF keep, upto, rank
  <2> QED
    BY Zenon, <1>4, <2>1, <2>2
<1>7. \A k \in 1..c : \E n \in keep : Cardinality({m \in keep : m <= n}) = k
  <2> HIDE DEF keep
  <2>1. rank \in Injection(keep, 1..c)
    BY Zenon, <1>5, <1>6 DEF Injection, IsInjective
  <2>2. IsFiniteSet(1..c) /\ Cardinality(1..c) = c
    BY <1>2, FS_Interval
  <2>3. rank \in Surjection(keep, 1..c)
    BY Zenon, <2>1, <2>2, FS_Injection
  <2> QED
    BY Zenon, <2>3 DEF Surjection
<1>8. \A k \in 1..c : at(k) \in keep /\ Cardinality({m \in keep : m <= at(k)}) = k
  <2> HIDE DEF keep, c
  <2> QED
    BY <1>7, Zenon
<1>9. \A n \in keep : at(Cardinality(upto(n))) = n
  <2> SUFFICES ASSUME NEW n \in keep PROVE at(Cardinality(upto(n))) = n
    BY Zenon
  <2>1. Cardinality(upto(n)) \in 1..c
    BY Zenon, <1>3
  <2>2. at(Cardinality(upto(n))) \in keep /\ Cardinality(upto(at(Cardinality(upto(n))))) = Cardinality(upto(n))
    BY Zenon, <1>8, <2>1
  <2> HIDE DEF keep, at, upto
  <2>3. \A m \in keep : rank[m] = Cardinality(upto(m))
    BY Zenon
  <2> HIDE DEF rank
  <2> QED
    BY Zenon, <1>6, <2>2, <2>3
<1>10. Without(q, S) = w
  BY Zenon DEF Without
<1>11. w \in Seq(U \ S)
  <2>1. \A n \in keep : q[n] \in U \ S
    BY Zenon, <1>1
  <2> HIDE DEF keep, at, c
  <2> QED
    <3>1. \A k \in 1..c : q[at(k)] \in U \ S
      BY Zenon, <1>8, <2>1
    <3>2. w \in [1..c -> U \ S]
      BY Zenon, <3>1
    <3> HIDE DEF w
    <3> QED
      BY Zenon, <1>2, <3>2, SeqOf
<1>12. \A m, n \in 1..c : w[m] = w[n] => m = n
  <2>1. keep \subseteq DOMAIN q
    BY Zenon
  <2> HIDE DEF keep, at, c
  <2>2. \A m \in 1..c : w[m] = q[at(m)]
    BY Zenon
  <2> HIDE DEF w
  <2> QED
    <3> SUFFICES ASSUME NEW m \in 1..c, NEW n \in 1..c, w[m] = w[n] PROVE m = n
      BY Zenon
    <3>1. q[at(m)] = q[at(n)] /\ at(m) \in DOMAIN q /\ at(n) \in DOMAIN q
      BY Zenon, <1>8, <2>1, <2>2
    <3>2. at(m) = at(n)
      BY <3>1, Zenon DEF Distinct
    <3>3. m = Cardinality({j \in keep : j <= at(m)}) /\ n = Cardinality({j \in keep : j <= at(n)})
      BY <1>8, Zenon
    <3> QED
      BY <3>2, <3>3, Zenon
<1>13. \A n \in keep : \E m \in 1..c : w[m] = q[n]
  <2> HIDE DEF keep, at, c, upto
  <2> QED
    BY Zenon, <1>3, <1>9
<1>14. DOMAIN w = 1..c
  BY Zenon
<1>15. \A n \in DOMAIN q : q[n] \notin S => n \in keep
  BY Zenon
<1> HIDE DEF keep, at, c, upto, rank, w
<1> QED
  BY Zenon, <1>10, <1>11, <1>12, <1>13, <1>14, <1>15 DEF Distinct, Keeps

(* No name of a job dangles: the list of recent jobs, $! and bgjob, and    *)
(* the slots and statuses the waits hold on to (setcurjob, deljob,         *)
(* freejob, forkshell, dowait, showjobs, waitcmdloop, waitforjob).         *)
THEOREM NamesNeverDangle == Spec => []NamesHold
<1>1. Init => NamesInv
  <2> SUFFICES ASSUME Init PROVE NamesInv
    BY Zenon
  <2>1. /\ saved = <<>> /\ jobtab = [s \in Slot |-> NoJob] /\ jobmru = <<>> /\ bgjob = 0
        /\ cur = Frame("cmd", "none", 0, 0, <<>>) /\ owed = {} /\ latest = 0
    BY Zenon DEF Init
  <2>2. NoJob.used = FALSE /\ NoJob.state = "run" /\ cur.pc = "cmd"
    BY Zenon, <2>1 DEF NoJob, NewJob, Frame
  <2>3. Used = {} /\ Named = {} /\ Unfinished = {}
    BY Zenon, <2>1, <2>2 DEF Used, Named, Unfinished
  <2>4. ListInv
    BY Zenon, <2>1, <2>3, EmptySeq DEF ListInv, Listed, Distinct
  <2>5. SlotInv
    BY Zenon, <2>1, <2>2, <2>3 DEF SlotInv, Settled
  <2>6. OwedInv
    BY Zenon, <2>1, <2>2 DEF OwedInv, Forking
  <2>7. TargetInv
    BY Zenon, <2>1, <2>2, EmptySeq DEF TargetInv, Targeted, InDowait
  <2> QED
    BY Zenon, <2>4, <2>5, <2>6, <2>7 DEF NamesInv
<1>2. IInv /\ StatusInv /\ NamesInv /\ [Next]_shVars => NamesInv'
  <2> SUFFICES ASSUME IInv, StatusInv, NamesInv, [Next]_shVars PROVE NamesInv'
    BY Zenon
  <2>1. Recorded /\ KeptInv /\ ListInv /\ SlotInv /\ OwedInv /\ TargetInv
    BY Zenon DEF StatusInv, NamesInv
  <2>2. ListInv' /\ SlotInv' /\ OwedInv'
    BY Zenon, <2>1, WithoutMeaning, CommandNames, WaitNames, OtherNames DEF Next, Shell
  <2> QED
    BY Zenon, <2>1, <2>2, TargetStep DEF NamesInv
<1>3. IInv /\ StatusInv /\ NamesInv => NamesHold
  <2> SUFFICES ASSUME IInv, StatusInv, NamesInv PROVE NamesHold
    BY Zenon
  <2>1. ListInv /\ SlotInv /\ OwedInv /\ KeptInv
    BY Zenon DEF NamesInv, StatusInv
  <2>2. ~mode.T => AwaitedKept
    BY Zenon, <2>1 DEF KeptInv, AwaitedKept, Awaiting, InDowait
  <2> QED
    BY Zenon, <2>1, <2>2 DEF ListInv, Listed, Distinct, Unfinished, SlotInv, OwedInv, NamesHold
<1> QED
  BY <1>1, <1>2, <1>3, ShJobsInvariance, StatusInvariance, PTL DEF Spec
=============================================================================
