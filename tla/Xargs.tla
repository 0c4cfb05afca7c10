-------------------------------- MODULE Xargs --------------------------------
(***************************************************************************)
(* xargs (cmd/posix/xargs.c): the filling of command lines from the input and *)
(* the pool of at most -P children.                                          *)
(*                                                                          *)
(* The input is a sequence of items: an argument with its length and whether   *)
(* a newline was read since the argument before it began, the end-of-file     *)
(* string of -E, or text that poparg() cannot read to its end (an open quote,  *)
(* a read error).  The options are a record, with 0 for -n or -L that is      *)
(* not given.  -I, which replaces words of the command, is left out.           *)
(***************************************************************************)
EXTENDS Integers, Sequences, FiniteSets

CONSTANTS
  Inputs,      \* the inputs
  Options,     \* [n, L, P, s: number, x, p: BOOLEAN]
  CmdWords, CmdSize,   \* the words of the command itself, and their length
  NARGS

Items == [kind : {"arg", "eofstr", "bad"}, len : Nat, nl : BOOLEAN]

(* How a command ends: by a signal, or with a status                         *)
Ends == {"ok", "error", "126", "127", "255", "signal"}

ASSUME XargsAssumption ==
  /\ Inputs \subseteq Seq(Items)
  /\ Options \subseteq [n : Nat, L : Nat, P : Nat \ {0}, s : Nat, x : BOOLEAN,
                        p : BOOLEAN]
  /\ CmdWords \in Nat /\ CmdSize \in Nat /\ NARGS \in Nat

VARIABLES
  input, opt,       \* never change
  at,               \* items read
  arg, leftover,    \* the item arg points to (0: NULL), not yet used
  cmd, argsz, linecount,   \* the command line: items, length, lines
  stage, curprocs, nerrors, status,
  alive, dead,      \* children: how many run; how many ended how, unreaped
  passed,           \* the last item given to a command, or declined under -p
  seen              \* history: how reaped commands have ended

lineVars == <<at, arg, leftover, cmd, argsz, linecount>>
poolVars == <<curprocs, nerrors, alive, dead, seen>>
xargsVars == <<input, opt, lineVars, stage, status, poolVars, passed>>

XargsInit ==
  /\ input \in Inputs /\ opt \in Options
  /\ at = 0 /\ arg = 0 /\ leftover = FALSE
  /\ cmd = <<>> /\ argsz = CmdSize /\ linecount = 0
  /\ stage = "fill" /\ curprocs = 0 /\ nerrors = 0 /\ status = -1
  /\ alive = 0 /\ dead = [e \in Ends |-> 0]
  /\ passed = 0 /\ seen = {}

exit(code) == stage' = "over" /\ status' = code

-----------------------------------------------------------------------------
(* poparg()                                                                  *)

AtEnd == at < Len(input) => input[at + 1].kind = "eofstr"

(* The end of the input, or the string of -E                                 *)
PopEnd ==
  /\ stage = "fill" /\ ~leftover /\ AtEnd
  /\ arg' = 0 /\ at' = IF at = Len(input) THEN at ELSE at + 1
  /\ stage' = "line"
  /\ UNCHANGED <<input, opt, leftover, cmd, argsz, linecount, status, poolVars,
                 passed>>

PopBad ==
  /\ stage = "fill" /\ ~leftover /\ ~AtEnd /\ input[at + 1].kind = "bad"
  /\ exit(1)
  /\ UNCHANGED <<input, opt, lineVars, poolVars, passed>>

-----------------------------------------------------------------------------
(* The loop of main() that fills a command line                              *)

(* leftover: the argument that did not fit is still in arg                   *)
Popped(k) ==
  IF leftover THEN k = arg ELSE ~AtEnd /\ input[at + 1].kind = "arg" /\ k = at + 1

Lines(k) == IF linecount = 0 THEN 1
            ELSE IF input[k].nl THEN linecount + 1 ELSE linecount

Mut_LineMore(k) == opt.L > 0 /\ Lines(k) > opt.L + 1

OverLines(k) == opt.L > 0 /\ Lines(k) > opt.L

OverSize(k) == argsz + input[k].len >= opt.s \/ CmdWords + Len(cmd) >= NARGS - 1

Mut_TryForever(k) == opt.x \/ input[k].len >= opt.s

Stuck(k) == opt.x \/ input[k].len >= opt.s \/ leftover

(* The argument stays for the next command                                   *)
Keep ==
  \E k \in 1 .. Len(input) :
    /\ stage = "fill" /\ Popped(k)
    /\ OverLines(k) \/ (OverSize(k) /\ ~Stuck(k))
    /\ arg' = k /\ at' = k /\ linecount' = Lines(k) /\ leftover' = TRUE
    /\ stage' = "line"
    /\ UNCHANGED <<input, opt, cmd, argsz, status, poolVars, passed>>

TooLong ==
  \E k \in 1 .. Len(input) :
    /\ stage = "fill" /\ Popped(k)
    /\ ~OverLines(k) /\ OverSize(k) /\ Stuck(k)
    /\ exit(1)
    /\ UNCHANGED <<input, opt, lineVars, poolVars, passed>>

Add ==
  \E k \in 1 .. Len(input) :
    /\ stage = "fill" /\ Popped(k)
    /\ ~OverLines(k) /\ ~OverSize(k)
    /\ cmd' = Append(cmd, k) /\ argsz' = argsz + input[k].len + 1
    /\ arg' = k /\ at' = k /\ linecount' = Lines(k) /\ leftover' = FALSE
    /\ stage' = IF opt.n > 0 /\ Len(cmd) + 1 >= opt.n THEN "line" ELSE "fill"
    /\ UNCHANGED <<input, opt, status, poolVars, passed>>

-----------------------------------------------------------------------------
(* The command line is complete                                              *)

Spawns == cmd # <<>> \/ (opt.L > 0 /\ linecount >= opt.L)

(* The next turn of the outer loop, or the end of it                         *)
Again ==
  IF arg = 0 THEN stage' = "drain" /\ UNCHANGED <<cmd, argsz, linecount>>
  ELSE stage' = "fill" /\ cmd' = <<>> /\ argsz' = CmdSize /\ linecount' = 0

(* Nothing to run, or the user declines                                      *)
NoSpawn ==
  /\ stage = "line" /\ (~Spawns \/ opt.p)
  /\ passed' = passed + Len(cmd)
  /\ Again
  /\ UNCHANGED <<input, opt, at, arg, leftover, status, poolVars>>

Fork ==
  /\ stage = "line" /\ Spawns
  /\ alive' = alive + 1 /\ curprocs' = curprocs + 1
  /\ passed' = passed + Len(cmd)
  /\ stage' = "wait"
  /\ UNCHANGED <<input, opt, lineVars, status, nerrors, dead, seen>>

ForkFails ==
  /\ stage = "line" /\ Spawns
  /\ exit(1)
  /\ UNCHANGED <<input, opt, lineVars, poolVars, passed>>

-----------------------------------------------------------------------------
(* waitchld(): in spawn() it blocks while the pool is full, at the end until    *)
(* there are no children                                                     *)

Mut_SignalIgnored(e) ==
  CASE e = "255" -> 124 [] e = "126" -> 126 [] e = "127" -> 127 [] OTHER -> 0

Fatal(e) ==
  CASE e = "255" -> 124 [] e = "126" -> 126 [] e = "127" -> 127
    [] e = "signal" -> 125 [] OTHER -> 0

Reap ==
  /\ stage \in {"wait", "drain"}
  /\ \E e \in Ends :
       /\ dead[e] > 0
       /\ dead' = [dead EXCEPT ![e] = @ - 1]
       /\ curprocs' = curprocs - 1
       /\ seen' = seen \cup {e}
       /\ nerrors' = IF e = "error" THEN nerrors + 1 ELSE nerrors
       /\ IF Fatal(e) # 0 THEN exit(Fatal(e)) ELSE UNCHANGED <<stage, status>>
  /\ UNCHANGED <<input, opt, lineVars, alive, passed>>

NoneDead == \A e \in Ends : dead[e] = 0

Mut_OneMore ==
  /\ stage = "wait" /\ NoneDead /\ (curprocs <= opt.P \/ alive = 0)
  /\ Again
  /\ UNCHANGED <<input, opt, at, arg, leftover, status, poolVars, passed>>

(* waitpid() with WNOHANG returns 0, or there is no child                    *)
Waited ==
  /\ stage = "wait" /\ NoneDead /\ (curprocs < opt.P \/ alive = 0)
  /\ Again
  /\ UNCHANGED <<input, opt, at, arg, leftover, status, poolVars, passed>>

(* fshut() may find that stdin or stdout had an error                        *)
Finish ==
  /\ stage = "drain" /\ NoneDead /\ alive = 0
  /\ \E shut \in BOOLEAN : exit(IF nerrors > 0 \/ ~shut THEN 123 ELSE 0)
  /\ UNCHANGED <<input, opt, lineVars, poolVars, passed>>

(* A command ends                                                            *)
ChildEnd ==
  /\ alive > 0
  /\ alive' = alive - 1
  /\ \E e \in Ends : dead' = [dead EXCEPT ![e] = @ + 1]
  /\ UNCHANGED <<input, opt, lineVars, stage, status, curprocs, nerrors, seen,
                 passed>>

Step == \/ PopEnd \/ PopBad \/ Keep \/ TooLong \/ Add
        \/ NoSpawn \/ Fork \/ ForkFails \/ Reap \/ Waited \/ Finish

XargsNext == Step \/ ChildEnd

XargsSpec == XargsInit /\ [][XargsNext]_xargsVars

(* xargs runs whenever it can, and commands end                              *)
XargsFairSpec == XargsSpec /\ WF_xargsVars(Step) /\ WF_xargsVars(ChildEnd)

-----------------------------------------------------------------------------
(* The inductive invariant.                                                  *)

XargsTypeOK ==
  /\ input \in Inputs /\ opt \in Options
  /\ at \in Nat /\ arg \in Nat /\ leftover \in BOOLEAN
  /\ cmd \in Seq(Nat) /\ argsz \in Nat /\ linecount \in Nat
  /\ stage \in {"fill", "line", "wait", "drain", "over"}
  /\ curprocs \in Int /\ nerrors \in Nat /\ status \in Int
  /\ alive \in Nat /\ dead \in [Ends -> Nat] /\ passed \in Nat
  /\ seen \subseteq Ends

(* The arguments of the command line being filled                            *)
Held == IF stage \in {"fill", "line"} THEN Len(cmd) ELSE 0

(* The command line holds the items after the last one passed, in their order;  *)
(* an item kept for the next command is the one after those                  *)
Order ==
  /\ \A k \in 1 .. Held : cmd[k] = passed + k
  /\ passed + Held <= Len(input)
  /\ \A j \in 1 .. passed + Held : input[j].kind = "arg"
  /\ stage # "over" /\ leftover =>
       /\ arg = at /\ at = passed + Held + 1
       /\ at <= Len(input) /\ input[at].kind = "arg"
  /\ stage # "over" /\ ~leftover /\ (stage = "fill" \/ arg # 0) => at = passed + Held

(* The arguments end after n items                                           *)
Whole(n) ==
  /\ \A j \in 1 .. n : input[j].kind = "arg"
  /\ n = Len(input) \/ (n < Len(input) /\ input[n + 1].kind = "eofstr")

Ended ==
  /\ arg = 0 /\ stage \in {"line", "wait", "drain"} => Whole(passed + Held) /\ ~leftover
  /\ stage = "drain" => arg = 0

Unreaped == alive + dead["ok"] + dead["error"] + dead["126"] + dead["127"]
              + dead["255"] + dead["signal"]

(* curprocs is the number of children; there is room for one more while a line  *)
(* is filled                                                                 *)
Pool ==
  /\ curprocs = Unreaped /\ curprocs <= opt.P
  /\ stage \in {"fill", "line"} => curprocs < opt.P

Told ==
  /\ stage # "over" => seen \subseteq {"ok", "error"} /\ status = -1
  /\ "error" \in seen <=> nerrors > 0

(* Every argument is given to exactly one command, in the order of the input:   *)
(* the lines filled so far hold the items 1 to passed and nothing else; and at  *)
(* no time are there more children than -P allows.                           *)
XargsInv == XargsTypeOK /\ Order /\ Ended /\ Pool /\ Told

LinesOf(c) == 1 + Cardinality({k \in 2 .. Len(c) : input[c[k]].nl})

(* The line being filled is within its limits and linecount counts its lines,    *)
(* and that of an argument kept for the next command, too                     *)
Filling ==
  stage \in {"fill", "line"} =>
    /\ cmd = <<>> /\ stage = "fill" => linecount = 0
    /\ cmd # <<>> =>
         /\ opt.n > 0 => Len(cmd) <= opt.n /\ (stage = "fill" => Len(cmd) < opt.n)
         /\ opt.L > 0 => LinesOf(cmd) <= opt.L
         /\ argsz <= opt.s
         /\ leftover => stage = "line"
         /\ linecount = IF leftover /\ input[arg].nl THEN LinesOf(cmd) + 1 ELSE LinesOf(cmd)

-----------------------------------------------------------------------------
(* What xargs promises.                                                      *)

(* The exit status tells the truth: with 0 and 123 every argument was passed    *)
(* and every command waited for, 0 only if all succeeded; the other statuses of  *)
(* waitchld() only after a command ended that way.                           *)
StatusTells ==
  /\ status \in {0, 123} =>
       /\ Whole(passed) /\ Unreaped = 0
       /\ seen \subseteq {"ok", "error"} /\ ("error" \in seen => status = 123)
  /\ status \in {124, 125, 126, 127} => \E e \in seen : Fatal(e) = status

(* A command that is run has at most -n arguments of at most -L lines, within    *)
(* -s; where -L cut it off it has exactly that many lines, and the argument kept  *)
(* starts another.                                                           *)
CommandFits ==
  stage = "line" /\ cmd # <<>> =>
    /\ opt.n > 0 => Len(cmd) <= opt.n
    /\ opt.L > 0 => /\ LinesOf(cmd) <= opt.L
                    /\ leftover /\ linecount > opt.L =>
                         LinesOf(cmd) = opt.L /\ input[arg].nl
    /\ argsz <= opt.s

(* xargs ends, however the commands do.                                       *)
XargsEnds == <>(stage = "over")

=============================================================================
