# A verification project for aruu

aruu is a userland of some two hundred Unix programs in C: the POSIX and XSI
utilities, a shell, make, awk, an assembler, compiler and linker, network
clients and daemons, and `ninqu`, the build system that builds the rest.  Most
of them read, transform, write and end.  This project models the parts whose
correctness depends on the order in which things happen: processes that end
when they like, signals, packets, timers, files that change between two runs.

The modules are TLA+; TLC checks small instances of them and TLAPS proves the
theorems for every value of the constants.  `PROJECT.json` maps every
definition to the lines it models.

    tlc -config MCCron.cfg MCCron        # a run
    tlapm MakeProofs.tla                 # the proofs of a module

## Inventory

| part | state | what changes it | hard part | module |
|---|---|---|---|---|
| ninqu executor (schedule.c, exec.c) | in-degrees, levels, slots, statuses | commands ending in any order | joins, cycles, slot reuse, failure in a level | `NinquSchedule`, `NinquDag` |
| ninqu builds (exec.c, expand.c, fs.c) | files and times across runs | commands, edits, interrupts, new runs | torn outputs, equal times, -S against reality | `NinquBuild` |
| ninqu expansion (expand.c, resolve.c, main.c) | instances, overlay, call stack | mutual recursion that runs commands | globals under recursion, generators before globs | `NinquExpand` |
| tftp (net/tftp.c) | block counters, retries, peer port | packets, timeouts | loss, duplication, two transfers, 16-bit numbers | `Tftp` |
| cron daemon (pseudo/cron.c) | jobhead, ctabhead, flags | signals, jobs, the clock, the user | signals between any two statements | `Cron` |
| cron fields (pseudo/cron.c) | a parsed field and a time | the clock | limits, wraps, steps | `CronMatch` |
| sdhcp (net/sdhcp.c) | label of run(), three timers, lease | packets, timers | timers expiring together, stale timers, late answers | `Sdhcp` |
| ninqu manifest reader, variables, gates | key-value stores, locks | forms in order | -D against (set), import order | planned |
| ninqu ninja generator | none | one pass | same meaning as the executor | planned |
| make (posix/make) | targets, stamps, the current target | commands, signals | shared inference targets, cycles, cleanup on a signal | `Make` |
| xargs | running children, command line buffer | children ending | -P, exit 255, limits | `Xargs` |
| sh (jobs.c, trap.c) | job table, signal flags, interrupted waits | the script, children, signals | lost wakeups, reused slots, pending traps | `ShJobs` |
| modprobe, depmod | module states | recursion over modules.dep | cycles, exit status | planned |
| the rest of sh | variables, redirections, the parse tree | the script | meaning of programs | not planned |
| respawn, flock, getty | a child, a fifo, a lock | child, writers | restart races, inherited locks | planned |
| netcat, httpd | two half-open directions | poll | end of input with data left | planned |
| wget, ping, host, ip, ifconfig | one exchange | one answer | little | not planned, ping excepted |
| as, cc, ld, ar, awk | large inputs | sequential | meaning of programs | not planned, archive resolution of ld excepted |
| text, file, archive, login and Linux tools, yap | one pass | sequential | little for a model | pure algorithms only (tsort, sort -m) |
| shared libraries | none of their own | | | where a modelled program calls them |

`components` in PROJECT.json has the same list with sources and reasons.
`hazards` has what can go wrong in each part, line by line.

## The modules

**`NinquSchedule`** models `schedule_and_run()` and `run_batch()`.  Kahn's
algorithm sorts the instances into levels; the members of one level run in
parallel, at most `-j` at a time, and the next level starts when all are waited
for, failed or not.  `indeg`, `level`, `next_level`, `slot`, `done_count`,
`failed_any` and `will_build` are the code's; `todo` is the inner loop of the
retire phase, `child` the processes, `completed` a history variable.  Each loop
body is an action; `ChildExit` is the environment.  Staleness is a free choice
here.

**`NinquDag`** is what the executor promises, without levels, slots or
counters: every instance is passed over or run once, after all it depends on,
at most `jobs_n` at a time, and the run ends complete or stuck behind a cycle.

**`NinquBuild`** extends the executor with files.  `inst_stale()` decides what
runs; the commands of `spawn_inst()` and `spawn_pipe()` open, read and write in
steps and may fail in between; the user edits sources, removes outputs,
interrupts a run and starts others, with and without -S.  The content of a file
is the edit of every source that went into it.  Times are whole seconds.
Assumed: the user edits between runs and lets a second pass before the next one
(`Settled`), and every input made by an instance has its edge (`ManifestOK`).
`Ingredients`, what a file is made from, is the least set closed under inputs.
Two variables are history.  `wreck` holds the outputs that a command left behind
incomplete; a pipeline of which a stage failed is among them, because its
supervisor exits 0 all the same.  `undone` is what `wreck` was when the last run
returned 0.  `BuildSound` and `NoRework` are about everything that does not go
back to such an output: a half-written one is taken for done
(`ExitMeansUpToDate` below), a pipeline that wrote nothing is run again.

**`NinquExpand`** models the recursion of `expand_rule()`, `finalize_inst()`,
`resolve_input_token()`, `materialize_if_missing()` and `run_inst_with_deps()`
with the C call stack as a variable, and main()'s order: load the forms,
resolve barewords, expand what is wanted.  Strings are abstracted: a token is a
rule, a bareword, a path or a pattern; a command is `whole` or has `gaps` (its
variables were not there when it was built; `DepsBuiltFirst` and
`GeneratedFound` are not about those).  Which matches of a glob (skip), (mark),
literal rules and gates turn down is part of the manifest, and so are the rules
that groups and meta-targets stand for.  The stack has room for `MaxStack`
frames, and `Overflow` ends a recursion that goes on beyond.

**`Tftp`** models `getfile()` and `putfile()`.  What the client does from one
`readpkt()` to the next is one action.  The network loses, duplicates, delays
and reorders; the server is external, opens a transfer for every request packet
it gets and repeats what was not answered.  Left out: empty packets, EINTR,
errors of read() and write().

**`Cron`** models main()'s loop statement by statement where a signal between
two statements matters: the three flags are tested, acted on and cleared in
steps of their own.  Jobs end, stop and continue at any time.  The clock stands
still while the daemon works (a pass is over before its minute is), and time()
and sleep() are one step.  `started` and `dropped` are history.

**`CronMatch`** models `parsefield()` and `matchentry()` over a running clock
with real month lengths and leap years.  `Denotes` is the meaning crontab
fields should have.

**`Sdhcp`** models `run()` over `dhcprecv()`: labels, tries, the three timers
as the kernel keeps them (a timer that has expired stays readable until read),
and servers, which are external.  With `Late` time passes while packets and
expired timers wait to be read.  Left out: routes, resolv.conf, the -e program,
`-f` (the client forks after its first lease) and exits on failing system calls.

**`Make`** models the reading of the prerequisites (`adddep()` drops an edge
that closes a circle of two; longer ones are kept out of the run), the goals of `build()`, the recursion of `rebuild()`,
`update()`, `inference()`, `run()`, `launch()` with its signal mask, `touch()`,
the handler and `cleanup()`.  `stack` is the C stack of `rebuild()`, `rule` and
`line` are where `run()` is; `stamp`, `deps`, `bind` (`tp->target`, which an
inference rule carries for the target it makes) and `exitstatus` are the code's.
A makefile is a record: prerequisites, recipe lengths, phony and precious names,
the suffix rules and the file each would start from.  A recipe line writes its
target or not and succeeds or fails; a recipe that succeeds has written its
target.  A signal that ends wait() leaves the recipe running and `launch()`
returns a variable that was never stored (`lost` records that).  The handler
sends SIGTERM to the recipe; here the recipe may end of it, or go on.  `bad`,
`made`, `failed` are history.  Left out: macros and the parser, line prefixes
(`-`, `@`, `+`), `.SILENT`, `.IGNORE`, and targets that are directories, which
`cleanup()` keeps.

**`Xargs`** models main()'s loop: `poparg()`, the argument left over, the three
limits (-n, -L, -s), -x, -E, -p, `spawn()`, `waitchld()` and every exit status.
An item of the input is its length and whether a newline came before it.
`alive` and `dead` are the children; `passed` and `seen` are history.  Left out:
-I and the reading of quotes.

**`ShJobs`** models the job table: `makejob()`, `forkshell()`, `dowait()`,
`freejob()`, `deljob()`, `setcurjob()`, the builtins wait, fg, bg and jobs, the
report of finished jobs before a prompt, and `$!`, which makes a job be
remembered.  `jobtab`, `jobmru`, `bgjob` and the signal flags are the code's;
`cur` is the function that runs and how far it is, `saved` the frames a trap has
interrupted.  `dowait()` is split where a signal matters: blocking, wait3(),
sigsuspend(), the test for an interruption.  The script may run any command that
reaches the table; children exit, stop and continue when they like.  There is
one trapped signal, and SIGQUIT without a trap.  Pids are not reused.  Left out:
`setsignal()` and the trap builtin, terminal process groups, vfork, wait with
several operands, and the growth of the table, which moves it in memory.

Names starting with `Mut_` are wrong versions of the definition after them; no
specification uses them.  Each shows that some property notices that mistake.

## The runs

| run | instance | distinct states | shows |
|---|---|---|---|
| `ninqu_schedule` | every graph over 3 instances, -j 2, with and without -S | 19 457 | the cycle report, termination, refinement of `NinquDag` |
| `ninqu_build` | 2 instances of every kind, 1 source, 4 runs, 1 edit, 4 seconds | 2.1 million | status 0 means up to date; no work twice, both but for what a command left incomplete; -S announces what runs |
| `ninqu_expand` | 5 rules, all ways to write their dependencies, rules that reach themselves and each other, files present or not | 219 180 | complete edges, generators before globs, dependencies built first, one recursion that does not end and no other |
| `ninqu_expand_overlay` | the same | | violation: a missing path loses the overlay |
| `tftp` | 3 blocks, 2 transfers, 2 retries, 1 duplicate, 1 repeat by the server | 417 234 | status 0 only with the whole file; the client ends |
| `cron` | 2 commands, 2 pids, 2 minutes, a crontab with a command twice, an unusable file | 244 896 | exact job list, no overlap, once per minute, SIGTERM, reload |
| `cron_match` | every number and step to 61, ranges and lists at the limits, 4 years | 567 228 | what a field matches; spacing of steps |
| `sdhcp` | 1 client, 2 servers, 3 faults | 55 632 | first lease, retry, lease covered by the server's, renewal before loss |
| `sdhcp_late` | 1 client, 1 server, late and duplicated packets, timers expiring together | 19 742 | a renewal settles, also when no server answers |
| `make` | 5 makefiles with -k, -q, -t, -n, -i, every age of the files, failing recipes, 1 signal | 354 621 | status 0 means up to date; a recipe succeeds once; -q is right; nothing starts after a signal or above an error; what a signal leaves torn and what it removes; make ends |
| `xargs` | up to 4 items, mixes of -n, -L, -P, -s, -x, -p, all ends of a command | 401 996 | each argument once and in order, limits kept, pool exact, exit status, termination |
| `sh_jobs` | 7 shells (scripts, pipefail, set -T, interactive), up to 3 forks, 2 slots, 2 signals, 1 stop | 179 404 | table and children agree, no dangling name, right statuses, no lost wakeup, no lost trap |

**Why the bounds are enough.**  Three instances make every join, fork, chain
and cycle of length one to three, and two slots make the swap on removal
happen; four runs allow fail, repair, -S and repeat.  Three blocks are a first,
a middle and a last one; two sessions are the least that mix; `BlkMod` 8 leaves
room above three blocks, and `MCTftpWrap` takes it away.  Two pids are used
again, two minutes wrap.  A DHCP lease of five ticks has room for T1, T2 and
several retries in between.  make's four names and a source make a diamond with
a shared prerequisite, a circle of two that is dropped, two suffix-rule targets and a
target only .DEFAULT can make; times 0 and 1 before the start and 2 after it
give every order of two files, ties included.  xargs has items short and long
enough that -s, -n and -L each cut a line, and up to three children.  Two slots
and three forks make a slot of the job table be used again while a wait is under
way; each shell has its own bounds so that its cases happen
(`MCShJobsLarge` has more).  `MaxStack` is 30; an expansion that ends never has
more than 15 frames.  For every part but ninqu's expansion the theorems
below remove the bounds.  `JobStop`
has a bound of its own: a job already reported as stopped is not stopped again,
because the report would find nothing in jobhead.

**Deadlock** is off where the system stops: a finished transfer, a daemon that
was told to exit, a client that exits, a user who starts no further run, a make or xargs that
ended, a shell at the end of its script.

**Fairness.**  The executor: ninqu is scheduled and commands end.  The
expansion: ninqu is scheduled.  tftp: the client is scheduled and `recvfrom()`
returns after its timeout; nothing is assumed of network or server.  cron: the
daemon is scheduled and the clock goes on; nothing is assumed of jobs, user or
signals.  sdhcp: time passes and expired timers are read (`SilentSpec`, for
`RenewalSettles`); for `Acquires` also that servers answer and packets arrive,
`MaxFaults` losses excepted (`FairSpec`).  make
and xargs: the program is scheduled, handlers run and commands end.  sh: the
shell and its handlers run, and a child that is not stopped ends; nothing is
assumed of the script, of signals, or of stopped children.

## Where code and text disagree

The run `ninqu_expand_overlay` expects a violation; its entry in `findings`
quotes the line it contradicts.

- **Overlay lost** (ninqu, expand.c:177).  The overlay is saved around
  `expand_rule()` for `(rule NAME)`, not around `materialize_if_missing()`.  An
  instance whose input had to be made first gets the rest of its tokens, its
  output and its command without `$(MATCH)`, `$(IN)`, `$(OUT)`.
Three more, each with its property in the table below:

- **Large downloads cut** (tftp.c:163).  `nextblkno` is an int, the number on
  the wire has 16 bits; from block 65536 on nothing is written and the status
  is still 0.
- **Job never reaped** (cron.c:584).  The flag is cleared after the work.
- **Silent client** (sdhcp.c:352).  Of several expired timers only the last is
  returned, and after a NAK those of the old lease still run.

Further properties and configurations are kept beside the runs.  "As X" is the
configuration X.cfg of a run with its properties replaced by the one named.  TLC
finds each of these violated:

| configuration | module | property | what it shows |
|---|---|---|---|
| as `MCNinquBuild` | `MCNinquBuild` | `ExitMeansUpToDate` | an output cut off by an interrupt is newer than its inputs and taken for done (exec.c:30) |
| `MCNinquExpandSummary` | `MCNinquExpand` | `SummaryExecutesNothing` | -S runs the producers of missing paths (expand.c:276 "-S must not execute") |
| `MCNinquExpandBareword` | `MCNinquExpand` | `BarewordMeansRule` | a rule expanded while the manifest is read keeps barewords as paths (resolve.c:161) |
| `MCNinquExpandCycle` | `MCNinquExpand` | `RunNeverRecurs` | a cycle reached from a missing path recurses without end (exec.c:203) |
| `MCTftpShort` | `MCTftp` | `PutComplete` | a short read from a pipe ends the upload (tftp.c:214) |
| as `MCCron` | `MCCron` | `NoMinuteSkipped` | a signal handled after the minute began skips its entries (cron.c:586) |
| as `MCCron` | `MCCron` | `NeverTwice` | a stopped job no longer blocks its command (cron.c:149) |
| as `MCCronMatch` | `MCCronMatch` | `MonthMeaning` | the month field is compared with a number that counts from 0 (cron.c:216) |
| `MCSdhcpExpire` | `MCSdhcp` | `AddressUnderLease` | the address stays after the lease expired (sdhcp.c:489) |
| `MCSdhcpDelay` | `MCSdhcp` | `LeaseCovered` | the lease is counted from a late ACK (sdhcp.c:481) |
| `MCSdhcpUnset` | `MCSdhcp` | `TriesBeforeLosing` | T1 and T2 are read uninitialised where the ACK has none (sdhcp.c:461) |
| `MCSdhcpTwo` | `MCSdhcp` | `NoSharedAddress` | answers are not matched by xid or chaddr (sdhcp.c:346) |
| `MCTftpWrap` | `MCTftp` | `GetComplete` | with as many blocks as block numbers the download is cut and exits 0 (tftp.c:163) |
| as `MCCron` | `MCCron` | `Reaped` | a SIGCHLD before `chldreap = 0` is lost (cron.c:584) |
| `MCSdhcpDeaf` | `MCSdhcp` | `NeverDeaf` | a refused renewal can silence the client (sdhcp.c:352) |
| as `MCMake` | `MCMake` | `TouchesTargetsOnly` | -t touches files that are no target of the makefile (rules.c:299; main.c:180 "touch targets instead of rebuilding them") |
| `MCMakeCycle` | `MCMake` | `WalkAcyclic` | a circle of three targets is not dropped, and rebuild() follows it without end (rules.c:153 "circular dependency %s <- %s dropped") |
| `MCShJobsAsync` | `MCShJobs` | `AwaitedKept` | under set -T a trap may free the job that waitforjob() holds by its slot (jobs.c:1028) |
| `MCShJobsStopped` | `MCShJobs` | `StopEndsWait` | the wait builtin goes on when its job has stopped (jobs.c:556 "loop until a process is terminated or stopped") |
| as `MCShJobs` | `MCShJobs` | `WaitStartsFresh` | a SIGQUIT between commands breaks the next wait (trap.c:371 "if we are currently in a wait builtin") |

These, the type invariants and the invariants of the proofs among them, hold.
(An invariant that is defined beside its proof needs a module that extends the
MC module and the proof module.)

| configuration | module | properties |
|---|---|---|
| as `MCNinquSchedule` | `MCNinquSchedule` | `IInv`, `DepsFirst`, `SlotsExact`, `StatusHonest`, `SummaryClosed` |
| as `MCNinquBuild` | `MCNinquBuild` | `BuildTypeOK`, `BuildInv` |
| as `MCNinquExpand` | `MCNinquExpand` | `ExpandTypeOK`, `OverlaySound`, `ProducersRunOnce` |
| as `MCTftp` | `MCTftp` | `TftpTypeOK`, `TransferInv` |
| as `MCCron` | `MCCron` | `CronTypeOK`, `ReapedUnlessLate` |
| as `MCCronMatch` | `MCCronMatch` | `TimeInv`, `SpacedInv` |
| as `MCSdhcp` | `MCSdhcp` | `SdhcpTypeOK`, `FirstLeaseAlive`, `CoverInv` |
| as `MCSdhcpLate` | `MCSdhcp` | `TimersRun` |
| `MCSdhcpSegment` | `MCSdhcp` | `TimersRun`, `FirstLeaseAlive`, with two clients that hear each other |
| as `MCMake` | `MCMake` | `MakeInv`, `TornInv`, `LeftInv`, `FreshInv`, `AskInv` |
| as `MCXargs` | `MCXargs` | `Filling` |
| as `MCShJobs` | `MCShJobs` | `StatusInv`, `NamesInv` |
| `MCShJobsLarge` | `MCShJobs` | `JobInv`, `NamesHold`, `StatusReal` with 3 slots, more signals and stops (1.6 million states) |

## The proofs

Each theorem holds for every value of the constants that satisfies the named
ASSUMEs; what a theorem assumes besides is in its statement and named here.

**Executor** (`NinquScheduleProofs`), for every `ninsts` and `jobs_n`.  The
inductive invariant `IInv` says that an in-degree
is the number of dependencies not yet retired (`IndegExact`), that no instance
is in two places (`LevelsDistinct`, `PlacedInv`), what each loop has done so
far (`ScanInv`, `LoopInv`, `BatchInv`, `RetireInv`, `EndInv`), and that
processes and history agree (`ChildInv`, `DoneCountInv`).  `DepsFirst` alone is
not inductive: that an instance in a level has all its dependencies behind it
follows from the in-degree count.  From `IInv` follow `DependenciesFirst`,
`SlotsAreExact`, `CycleReportHonest`, `ExitStatusHonest`, `CommandsRunOnce`,
`TypeCorrect`; `SummaryIsClosed` needs besides that will_build is written once;
`RefinesDag` maps every step to a step of `NinquDag` or a stutter.

**Builds** (`NinquBuildProofs`), for every manifest and any number of
rules, sources, runs, edits and seconds.  `BuildInv` is inductive.  It holds
`IInv` of the run at hand (`ExecInv`) and says of the files:

- an output that nothing marks as outdated has the content its inputs give
  (`LocalInv`), which needs that the inputs of a command stay as it read them
  (`SeenInv`) and that what the run has not come to is older than the present
  second (`TimesInv`);
- what the run has made or skipped is not stale (`DoneInv`);
- no set of instances that wait for each other is completed in part
  (`AcyclicInv`);
- after a run that returned 0 nothing is stale but phony rules and what goes
  back to something `undone` (`CleanInv`, `Redone`); it is kept because what such
  a command writes is an input only of what may be run again too;
- what -S did not announce is in order or waits on a cycle (`SummaryInv`,
  `PredictInv`).

`BuildsAreSound` is about contents through any depth of intermediate outputs,
and induction over the graph is not at hand.  Instead: if outputs were out of
date when ninqu returns 0, each of them would have an input that is out of date,
so they form a set whose members wait for each other; all of them are completed;
`AcyclicInv` has no such set.  `NothingReworked` follows from `CleanInv`,
`SummaryAnnouncesAll` from `PredictInv`.

**tftp** (`CronTftpProofs`), assuming `nblocks < BlkMod` and whole blocks read.
`TransferInv` is inductive: nobody is ahead of the block the client waits for.
`GetDelivers` and `PutDelivers` follow, for any number of transfers, retries,
repeats and duplicates.  The assumption is what `MCTftpWrap` violates.

**cron** (`CronTftpProofs`), for any commands, pids and crontabs.
`StartsOncePerMinute` rests on `PassInv`: a pass begins with nothing started in
its minute, and what it starts is in jobhead until it is over, because only the
reaping steps, outside a pass, take jobs off.  `NoCommandOverlaps` rests on
`Tracked`: the children that waitpid() has not reported are in jobhead.
`JobheadExact` adds the other direction (`JobsNamed`): what is in jobhead is such
a child, under its own command.

**cron fields** (`CronTftpProofs`), for every field text that the parser's
shapes allow and any years.  `MatchesWhatItDenotes` needs only that the time is
one that struct tm has (`TimeInv`).  `StepsSpaced` needs `SpacedInv`: until a step
has passed, the value at the last match was a multiple of the step, in this round
or the one before; a zero counts as the length of the round, and a month has no
day 0.  Both properties leave out the month field (see `MonthMeaning` above).

**sdhcp** (`SdhcpXargsProofs`), for any clients, servers and times.
`TimersNeverLost`: a client that holds a lease has the timers that end it, one
that never had a lease has its retry timeout; the invariant adds that the three
labels that hold a lease come after the fork.  It assumes servers that send T1
and T2.  `RenewalTried` adds T1 < lease and timers read on time.  `LeaseHeld`
assumes one client and packets that arrive or are lost before the next tick
(`~Late`), the two assumptions `MCSdhcpTwo` and `MCSdhcpDelay` show to be needed.
`CoverInv` adds to `LeaseCovered` what is in flight (`Exchange`): at most one
request or answer, about the address the client asks for, and with an ACK under
way the server holds that address for the full time.

**make** (`MakeProofs`), for every makefile, set of options and number of
signals.  `MakeInv` is inductive: each activation of `rebuild()` was called from
the loop of the one below (`Chain`), a recipe runs only in an activation without
error that is through its prerequisites (`Placed`), a prerequisite that failed
after it was looked at shows as an error at its caller or above (`BadSeen`), and
an error anywhere has set exitstatus (`ErrTold`).  `BadSeen` is the strengthening
`NotMadeAfterError` needs: the same prerequisite may succeed under one target and
fail under the next.  `NoRecipeAfterSignal`, `NoRecipeAfterError` and
`FailureReachesExit` follow.  Assumed (`MakeAssumption`): only that the makefile
has the shape of one.  `InterruptedTargetsRemoved` assumes besides that no
inference rule is itself a goal or a prerequisite (`PlainMakefile`).  `TornInv`
says which target `run()` writes (`Writes`), that the child is the line `run()`
is at (`Waited`), and that no other target is half written, nor this one once
its lines have succeeded (`OneTorn`), for invocations without -i and whose wait()
was not cut short.  `LeftInv` is for all: until `cleanup()` the only half-written
targets are the one `run()` is at work on and those the property exempts, and a
recipe nobody waits for writes one of these.

`GoalsUpToDate` and `RecipesRunOnce` (`MakeFreshProofs`) are for a
`StandardMakefile`: inference rules and .DEFAULT are no goals or prerequisites,
and a file inferred from is made by no rule.  Both need the same invariant,
`FreshInv`: there is a set of targets `rebuild()` has returned 0 for, closed under
prerequisites, in which every settled target is up to date (`DoneBy`).  A settled
target has a rule, or is a file without prerequisites, and so has all it depends
on.  An activation of one finds its stamp and those of its prerequisites as they
are on the disk (`FrameFresh`), and what is made is newer than all that was there
before, so nothing done is undone.  What a target depends on is given by closed
sets (`Reach`), which takes the place of an induction over the graph, and so is
the stack: a closed set that holds the target of an activation holds those of the
activations above it (`Stacked`).

`QuestionAnswered` needs no assumption on the makefile.  `AskInv` is about a run
with -q and without -t: nothing is started and no file changes (`OnlyAsks`), an
activation needs to be remade exactly when a prerequisite it is past is out of
date or newer (`FrameAsks`), and what was returned for and has actions is not out
of date while the status is 0 (`AnsweredBy`).

**xargs** (`SdhcpXargsProofs`), for every input, -n, -L, -s and -P.  `XargsInv`
is inductive: the line under construction holds the items after the last one
passed, the argument left over is the next (`Order`), a line is the last one
only at the end of the input (`Ended`), `curprocs` is the number of children not
waited for and leaves room before a spawn (`Pool`), `nerrors` tells whether one
failed (`Told`).  `StatusTruthful` follows.  `CommandsFit` rests on `Filling`:
the line being filled is within its limits, and `linecount` counts its lines and
that of an argument kept for the next command.

**sh** (`ShJobsProofs`, `ShJobsNamesProofs`), for any number of slots, forks, signals and stops, also
under set -T.  `TableMatchesChildren` is `JobInv`; the inductive invariant adds
that the job being forked is in use with running processes only (`ForkInv`),
without which a fork could add a child to a freed or finished job, and the shape
of the frames (`FrameInv`).  The lemmas follow the code: what `dowait()` does
with one answer (`SettleStep`, `ReapStep`), freeing finished jobs holds no child
(`DoneHoldsNothing`, `FreeFinished`), a fork (`ForkStep`).

`WaitsTellTheTruth` needs `StatusInv`: an entry of the table and the process it
names agree (`Recorded`), without set -T the awaited job keeps its slot and no
frame below a trap waits (`KeptInv`), and what was returned stays true (`RetInv`).
`NamesNeverDangle` needs `NamesInv`: the list of recent jobs has no slot twice and
every unfinished job (`ListInv`), bgjob is in use and no two jobs share a process
(`SlotInv`), without set -T a pid read from `$!` is that of a remembered job
(`OwedInv`), and every wait but the builtin's has a job (`TargetInv`).  `Without`,
the list with jobs taken out, is given by the positions that stay.  What that list
holds is `DeletesOnly`: the lemmas on the list assume it, and `WithoutMeaning`
proves it before the theorem, with the library's facts on finite sets.

**Only model-checked:**

- liveness and termination (`Terminates`, `ExpandTerminates`, `ClientEnds`,
  `TermEnds`, `ReloadApplied`, `ReapedUnlessLate`, `RenewalSettles`, `Acquires`,
  `MakeEnds`, `XargsEnds`, `WaitReturns`, `TrapRuns`) and the fairness part of
  `ImplementsDag`, which this prover does not reach;
- `DepsComplete`, `GeneratedFound` and `DepsBuiltFirst` of `NinquExpand`: the
  edges are built by folds over the tokens of a rule, whose results need
  induction over sequences.

## Not modelled

- **The rest of sh**: the parser, expansion, arithmetic and most builtins are a
  language implementation whose states are programs.  `setsignal()` and the trap
  builtin are replaced by one signal that is trapped throughout; redirections
  and terminal process groups do not touch the job table.
- **make's parser and macros, xargs -I and quoting, ninqu's manifest reader**:
  text processing in one pass.
- **The ninja generator**: one pass over instances; what it should preserve is
  the meaning ninja gives its output, and ninja is not part of this repository.
- **modprobe, netcat, respawn, flock, ping**: small state machines that could be
  modelled; they come next.
- **as, cc, ld, ar, awk**: translators and a language; their correctness is
  about the meaning of large inputs.
- **Text, file, archive, login and Linux tools, yap, ip, ifconfig, wget, host,
  httpd**: one pass, one request or one system call each; nothing interleaves.
- **Shared libraries**: modelled where a modelled program calls them.

## Plan

In order of importance:

1. Expansion and executor together: undeclared edges through existing paths,
   two instances with one output, failing writes in tftp.
2. ninqu's variable store with its locks and gates.
3. modprobe over cyclic and failing dependencies; netcat's relay; respawn.
4. make's line prefixes and .IGNORE; xargs -I; the trap builtin of sh.
5. Proofs: `LeaseCovered` with several clients where answers are matched, the
   overlay invariant of `NinquExpand`, `UpToDate` of `Make` where a .DEFAULT or an
   inference rule is also named as a target.
