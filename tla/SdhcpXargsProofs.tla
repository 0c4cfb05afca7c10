-------------------------- MODULE SdhcpXargsProofs ---------------------------
(* Proofs for xargs: every argument goes to one command in the order of the     *)
(* input, the pool is counted exactly, the exit status tells the truth and     *)
(* every command line fits.  Proofs about Sdhcp: the timers of every client,    *)
(* for every number of clients and servers, every length of the timeouts and    *)
(* every network.                                                            *)
EXTENDS Sdhcp, Xargs, TLAPS

-----------------------------------------------------------------------------
(* xargs                                                                     *)

(* Facts about the options and the items of an input                         *)
LEMMA XargsTypes ==
  ASSUME XargsTypeOK
  PROVE  /\ input \in Seq(Items) /\ Len(input) \in Nat
         /\ opt.P \in Nat /\ opt.P > 0 /\ opt.n \in Nat /\ opt.L \in Nat /\ opt.s \in Nat
         /\ opt.x \in BOOLEAN /\ opt.p \in BOOLEAN
         /\ \A j \in 1 .. Len(input) :
              input[j].len \in Nat /\ input[j].nl \in BOOLEAN
              /\ input[j].kind \in {"arg", "eofstr", "bad"}
         /\ CmdSize \in Nat /\ CmdWords \in Nat
<1>1. input \in Seq(Items) /\ opt \in [n : Nat, L : Nat, P : Nat \ {0}, s : Nat,
                                        x : BOOLEAN, p : BOOLEAN]
  BY Zenon, XargsAssumption DEF XargsTypeOK
<1>2. \A j \in 1 .. Len(input) : input[j] \in Items
  BY SMTT(30), <1>1
<1>3. QED
  BY SMTT(30), <1>1, <1>2, XargsAssumption DEF Items

(* The children that ended are counted by naturals                           *)
LEMMA DeadTypes ==
  ASSUME XargsTypeOK
  PROVE  /\ dead["ok"] \in Nat /\ dead["error"] \in Nat /\ dead["126"] \in Nat
         /\ dead["127"] \in Nat /\ dead["255"] \in Nat /\ dead["signal"] \in Nat
         /\ alive \in Nat /\ curprocs \in Int
BY Zenon DEF XargsTypeOK, Ends

(* The argument that the loop of main() looks at is the one after those held  *)
LEMMA PoppedNext ==
  ASSUME XargsInv, stage = "fill", NEW k \in 1 .. Len(input), Popped(k)
  PROVE  k = passed + Len(cmd) + 1 /\ input[k].kind = "arg"
<1> USE XargsTypes DEF XargsInv, XargsTypeOK, Order, Held
<1>1. CASE leftover
  BY Zenon, <1>1 DEF Popped
<1>2. CASE ~leftover
  BY Zenon, <1>2 DEF Popped, AtEnd
<1>3. QED
  BY Zenon, <1>1, <1>2

(* Another turn of the outer loop starts an empty line                       *)
LEMMA AgainNext ==
  ASSUME XargsTypeOK, Again
  PROVE  /\ cmd' \in Seq(Nat) /\ argsz' \in Nat /\ linecount' \in Nat
         /\ stage' \in {"drain", "fill"} /\ (stage' = "fill" => cmd' = <<>>)
         /\ stage' = "drain" <=> arg = 0
<1>1. CASE arg = 0
  BY Zenon, <1>1 DEF Again, XargsTypeOK
<1>2. CASE arg # 0
  BY SMTT(30), <1>2, XargsAssumption DEF Again, XargsTypeOK
<1>3. QED
  BY Zenon, <1>1, <1>2

(* Adding and leaving out the arguments of a line                            *)
LEMMA PassedSum ==
  ASSUME NEW p \in Nat, NEW h \in Nat
  PROVE  /\ p + h \in Nat /\ (p + h) + 0 = p + h /\ p + 0 = p
         /\ \A n \in Nat : p + h <= n => p <= n
         /\ \A j \in 1 .. p : j \in 1 .. p + h
         /\ \A k \in 1 .. 0 : FALSE
OBVIOUS

(* The counters of xargs stay numbers                                        *)
LEMMA Counters ==
  /\ 1 \in Int /\ 1 .. 0 = {}
  /\ \A n \in Nat : n + 1 \in Nat
  /\ \A n \in Int : n + 1 \in Int /\ n - 1 \in Int
OBVIOUS

(* A line with one more argument, and its limits                             *)
LEMMA Longer ==
  \A c \in Seq(Nat), k \in Nat :
    /\ Append(c, k) \in Seq(Nat) /\ Append(c, k) # <<>>
    /\ Len(c) \in Nat /\ Len(Append(c, k)) = Len(c) + 1
    /\ Append(c, k)[Len(c) + 1] = k /\ \A j \in 1 .. Len(c) : Append(c, k)[j] = c[j]
OBVIOUS

(* One more stays within a limit that was not reached.                       *)
LEMMA Limits ==
  /\ \A l, n \in Nat : /\ l < n => l + 1 <= n
                       /\ ~(l + 1 >= n) => l + 1 < n
                       /\ ~(l > n) => l <= n
  /\ \A a, b, n \in Nat : ~(a + b >= n) => a + b + 1 <= n
OBVIOUS

(* The positions of a line after the first                                  *)
LEMMA AfterFirst ==
  \A n \in Nat :
    /\ n + 1 \notin 2 .. n
    /\ \A j : j \in 2 .. n + 1 <=> j \in 2 .. n \/ (j = n + 1 /\ n > 0)
    /\ \A j \in 2 .. n : j \in 1 .. n
    /\ 1 + n \in Nat \ {0} /\ 1 + (n + 1) = (1 + n) + 1
OBVIOUS

(* The line and what was passed are counted by naturals                      *)
LEMMA HeldTypes ==
  ASSUME XargsTypeOK
  PROVE  Held \in Nat /\ passed \in Nat /\ Len(cmd) \in Nat
<1>1. cmd \in Seq(Nat) /\ passed \in Nat
  BY Zenon DEF XargsTypeOK
<1>2. Len(cmd) \in Nat
  BY <1>1
<1> QED
  BY Zenon, <1>1, <1>2 DEF Held

(* A step that ends xargs keeps the types ...                                *)
LEMMA OverTypes ==
  ASSUME XargsTypeOK, exit(1), UNCHANGED <<input, opt, lineVars, poolVars, passed>>
  PROVE  XargsTypeOK'
BY Zenon, Counters DEF XargsTypeOK, exit, lineVars, poolVars

(* ... and what was passed.                                                  *)
LEMMA OverOrder ==
  ASSUME XargsTypeOK, Order, stage' = "over", UNCHANGED <<input, passed>>
  PROVE  Order'
<1>1. Held \in Nat /\ passed \in Nat /\ Len(input) \in Nat
  BY Zenon, HeldTypes, XargsTypes
<1>2. Held' = 0 /\ passed' + 0 = passed
  BY Zenon, <1>1, PassedSum DEF Held
<1>3. passed <= Len(input) /\ \A j \in 1 .. passed : input[j].kind = "arg"
  BY Zenon, <1>1, PassedSum DEF Order
<1> QED
  BY Zenon, <1>2, <1>3, Counters DEF Order

(* A line that is given away leaves the items in their order.                  *)
LEMMA PassedOrder ==
  ASSUME XargsTypeOK, Order, Held' = 0, passed' = passed + Held, stage # "over",
         stage' = "fill" => arg # 0, UNCHANGED <<input, at, arg, leftover>>
  PROVE  Order'
<1>1. Held \in Nat /\ passed \in Nat
  BY Zenon, HeldTypes
<1>2. passed' + Held' = passed + Held
  BY Zenon, <1>1, PassedSum
<1>3. \A k \in 1 .. Held' : FALSE
  BY Zenon, <1>1, PassedSum
<1> QED
  BY Zenon, <1>2, <1>3 DEF Order

(* The last line that is given away ends the arguments.                       *)
LEMMA PassedEnds ==
  ASSUME XargsTypeOK, Ended, Held' = 0, passed' = passed + Held, stage \in {"line", "wait"},
         stage' = "drain" => arg = 0, UNCHANGED <<input, arg, leftover>>
  PROVE  Ended'
<1>1. passed' + Held' = passed + Held
  BY Zenon, HeldTypes, PassedSum
<1> QED
  BY Zenon, <1>1 DEF Ended, Whole

(* PopEnd keeps the invariant                                                 *)
LEMMA PopEndKeeps ==
  ASSUME XargsInv, PopEnd
  PROVE  XargsInv'
<1> USE DEF XargsInv
<1>0. XargsTypeOK
  BY Zenon 
<1>1. XargsTypeOK'
  BY SMTT(30), <1>0, XargsTypes, XargsAssumption
     DEF PopEnd, XargsTypeOK, lineVars, poolVars, Ends, AtEnd
<1>2. Order'
  BY Zenon, <1>0, XargsTypes, XargsAssumption
     DEF PopEnd, XargsTypeOK, Order, Held, Ended, Whole, lineVars, poolVars, AtEnd
<1>3. Ended'
  BY SMTT(30), <1>0, XargsTypes, XargsAssumption
     DEF PopEnd, XargsTypeOK, Order, Held, Ended, Whole, lineVars, poolVars, AtEnd
<1>4. Pool'
  BY Zenon, <1>0, XargsTypes, XargsAssumption
     DEF PopEnd, XargsTypeOK, Pool, Unreaped, Ends, lineVars, poolVars, AtEnd
<1>5. Told'
  BY Zenon, <1>0, XargsTypes, XargsAssumption
     DEF PopEnd, XargsTypeOK, Told, lineVars, poolVars, AtEnd
<1>6. QED
  BY Zenon, <1>1, <1>2, <1>3, <1>4, <1>5

(* PopBad keeps the invariant                                                 *)
LEMMA PopBadKeeps ==
  ASSUME XargsInv, PopBad
  PROVE  XargsInv'
<1> USE DEF XargsInv
<1>0. XargsTypeOK
  OBVIOUS
<1>1. XargsTypeOK'
  BY Zenon, <1>0, OverTypes DEF PopBad
<1>2. Order'
  BY Zenon, <1>0, OverOrder DEF PopBad, exit
<1>3. Ended'
  BY Zenon, <1>0, XargsTypes, XargsAssumption
     DEF PopBad, XargsTypeOK, Order, Held, Ended, Whole, lineVars, poolVars, AtEnd,
         exit
<1>4. Pool'
  BY Zenon, <1>0, XargsTypes, XargsAssumption
     DEF PopBad, XargsTypeOK, Pool, Unreaped, Ends, lineVars, poolVars, AtEnd, exit
<1>5. Told'
  BY Zenon, <1>0, XargsTypes, XargsAssumption
     DEF PopBad, XargsTypeOK, Told, lineVars, poolVars, AtEnd, exit
<1>6. QED
  BY <1>1, <1>2, <1>3, <1>4, <1>5

(* Keep keeps the invariant                                                 *)
LEMMA KeepKeeps ==
  ASSUME XargsInv, Keep
  PROVE  XargsInv'
<1> USE DEF XargsInv
<1>0. XargsTypeOK
  OBVIOUS
<1>1. XargsTypeOK'
  BY SMTT(30), <1>0, XargsTypes, XargsAssumption
     DEF Keep, XargsTypeOK, lineVars, poolVars, Ends, Popped, AtEnd, Lines,
         OverLines, OverSize, Stuck
<1>2. Order'
  <2>1. PICK k \in 1 .. Len(input) : /\ stage = "fill" /\ Popped(k)
                                     /\ arg' = k /\ at' = k /\ leftover' = TRUE
                                     /\ stage' = "line"
                                     /\ UNCHANGED <<input, cmd, passed>>
    BY Zenon DEF Keep
  <2>2. k = passed + Len(cmd) + 1 /\ input[k].kind = "arg"
    BY Zenon, <2>1, PoppedNext
  <2>3. QED
    BY SMTT(30), <1>0, <2>1, <2>2, XargsTypes DEF XargsTypeOK, Order, Held
<1>3. Ended'
  <2>1. arg' \in 1 .. Len(input) /\ stage' \in {"fill", "line"}
    BY Zenon DEF Keep
  <2>2. arg' # 0
    BY <2>1
  <2>3. QED
    BY Zenon, <2>1, <2>2 DEF Ended
<1>4. Pool'
  BY Zenon, <1>0, XargsTypes, XargsAssumption
     DEF Keep, XargsTypeOK, Pool, Unreaped, Ends, lineVars, poolVars, Popped, AtEnd,
         Lines, OverLines, OverSize, Stuck
<1>5. Told'
  BY Zenon, <1>0, XargsTypes, XargsAssumption
     DEF Keep, XargsTypeOK, Told, lineVars, poolVars, Popped, AtEnd, Lines,
         OverLines, OverSize, Stuck
<1>6. QED
  BY <1>1, <1>2, <1>3, <1>4, <1>5

(* TooLong keeps the invariant                                                 *)
LEMMA TooLongKeeps ==
  ASSUME XargsInv, TooLong
  PROVE  XargsInv'
<1> USE DEF XargsInv
<1>0. XargsTypeOK
  OBVIOUS
<1>1. XargsTypeOK'
  BY Zenon, <1>0, OverTypes DEF TooLong
<1>2. Order'
  BY Zenon, <1>0, OverOrder DEF TooLong, exit
<1>3. Ended'
  BY Zenon, <1>0, XargsTypes, XargsAssumption
     DEF TooLong, XargsTypeOK, Order, Held, Ended, Whole, lineVars, poolVars, exit
<1>4. Pool'
  BY Zenon, <1>0, XargsTypes, XargsAssumption
     DEF TooLong, XargsTypeOK, Pool, Unreaped, Ends, lineVars, poolVars, exit
<1>5. Told'
  BY Zenon, <1>0, XargsTypes, XargsAssumption
     DEF TooLong, XargsTypeOK, Told, lineVars, poolVars, exit
<1>6. QED
  BY <1>1, <1>2, <1>3, <1>4, <1>5

(* Add keeps the invariant                                                 *)
LEMMA AddKeeps ==
  ASSUME XargsInv, Add
  PROVE  XargsInv'
<1> USE DEF XargsInv
<1>0. XargsTypeOK
  OBVIOUS
<1>a. PICK k \in 1 .. Len(input) :
        /\ stage = "fill" /\ Popped(k)
        /\ cmd' = Append(cmd, k) /\ argsz' = argsz + input[k].len + 1
        /\ arg' = k /\ at' = k /\ linecount' = Lines(k) /\ leftover' = FALSE
        /\ stage' \in {"fill", "line"}
        /\ UNCHANGED <<input, opt, status, poolVars, passed>>
  BY Zenon DEF Add
<1>b. k = passed + Len(cmd) + 1 /\ input[k].kind = "arg"
  BY Zenon, <1>a, PoppedNext
<1>1. XargsTypeOK'
  <2>0. linecount \in Nat /\ argsz \in Nat /\ input[k].len \in Nat /\ Len(input) \in Nat
    BY Zenon, <1>0, XargsTypes DEF XargsTypeOK
  <2>1. Lines(k) \in Nat /\ k \in Nat /\ argsz + input[k].len + 1 \in Nat
    BY <2>0 DEF Lines
  <2>2. Append(cmd, k) \in Seq(Nat)
    BY <1>0, <2>1 DEF XargsTypeOK
  <2>3. QED
    BY Zenon, <1>0, <1>a, <2>1, <2>2 DEF XargsTypeOK, poolVars
<1>2. Order'
  <2>1. /\ Len(cmd') = Len(cmd) + 1 /\ cmd'[Len(cmd) + 1] = k
        /\ \A j \in 1 .. Len(cmd) : cmd'[j] = cmd[j]
    <3>1. k \in Nat
      BY <1>a
    <3>2. QED
      BY Zenon, <1>0, <1>a, <3>1, Longer DEF XargsTypeOK
  <2>2. Held = Len(cmd) /\ Held' = Len(cmd) + 1
    BY Zenon, <1>a, <2>1 DEF Held
  <2>3. \A j \in 1 .. Held' : cmd'[j] = passed' + j
    <3>1. passed' = passed /\ passed \in Nat /\ Len(cmd) \in Nat
      BY <1>0, <1>a DEF XargsTypeOK
    <3>2. \A j \in 1 .. Len(cmd) : cmd[j] = passed + j
      BY Zenon, <2>2 DEF Order
    <3>3. \A j \in 1 .. Len(cmd) + 1 : j = Len(cmd) + 1 \/ j \in 1 .. Len(cmd)
      BY <3>1
    <3>4. cmd'[Len(cmd) + 1] = passed' + (Len(cmd) + 1)
      BY <1>b, <2>1, <3>1
    <3>5. QED
      BY Zenon, <2>1, <2>2, <3>1, <3>2, <3>3, <3>4
  <2>4. /\ passed' = passed /\ input' = input /\ leftover' = FALSE /\ at' = k
        /\ passed \in Nat /\ Len(cmd) \in Nat /\ Len(input) \in Nat
    BY <1>0, <1>a, XargsTypes DEF XargsTypeOK
  <2>5. \A j \in 1 .. passed + Len(cmd) : input[j].kind = "arg"
    BY Zenon, <2>2 DEF Order
  <2>6. \A j \in 1 .. passed' + Held' : input'[j].kind = "arg"
    <3>1. \A j \in 1 .. passed + (Len(cmd) + 1) : j = k \/ j \in 1 .. passed + Len(cmd)
      BY <1>b, <2>4
    <3>2. QED
      BY Zenon, <1>b, <2>2, <2>4, <2>5, <3>1
  <2>7. passed' + Held' <= Len(input') /\ at' = passed' + Held'
    BY <1>b, <2>2, <2>4
  <2>8. QED
    BY Zenon, <2>3, <2>4, <2>6, <2>7 DEF Order
<1>3. Ended'
  <2>1. arg' \in 1 .. Len(input) /\ stage' \in {"fill", "line"}
    BY Zenon DEF Add
  <2>2. arg' # 0
    BY <2>1
  <2>3. QED
    BY Zenon, <2>1, <2>2 DEF Ended
<1>4. Pool'
  BY Zenon, <1>0, XargsTypes, XargsAssumption
     DEF Add, XargsTypeOK, Pool, Unreaped, Ends, lineVars, poolVars, Popped, AtEnd,
         Lines
<1>5. Told'
  BY Zenon, <1>0, XargsTypes, XargsAssumption
     DEF Add, XargsTypeOK, Told, lineVars, poolVars, Popped, AtEnd, Lines
<1>6. QED
  BY Zenon, <1>1, <1>2, <1>3, <1>4, <1>5

(* NoSpawn keeps the invariant                                                 *)
LEMMA NoSpawnKeeps ==
  ASSUME XargsInv, NoSpawn
  PROVE  XargsInv'
<1> USE DEF XargsInv
<1>0. XargsTypeOK
  OBVIOUS
<1>1. /\ UNCHANGED <<input, opt, at, arg, leftover, status, poolVars>> /\ Again
      /\ stage = "line" /\ passed' = passed + Held /\ passed' \in Nat
  <2>1. Held = Len(cmd) /\ passed' = passed + Len(cmd)
    BY Zenon DEF NoSpawn, Held
  <2>2. passed + Held \in Nat
    BY Zenon, <1>0, HeldTypes, PassedSum
  <2>3. QED
    BY Zenon, <2>1, <2>2 DEF NoSpawn
<1>2. Held' = 0 /\ (stage' = "fill" => arg # 0) /\ (stage' = "drain" => arg = 0)
  <2>1. stage' = "fill" => Len(cmd') = 0
    BY <1>0, <1>1, AgainNext
  <2>2. QED
    BY Zenon, <1>0, <1>1, <2>1, AgainNext DEF Held
<1>3. XargsTypeOK' /\ Order' /\ Ended'
  <2>1. XargsTypeOK'
    BY Zenon, <1>0, <1>1, AgainNext DEF XargsTypeOK, poolVars
  <2>2. QED
    BY Zenon, <1>0, <1>1, <1>2, <2>1, PassedOrder, PassedEnds
<1>4. Pool'
  BY Zenon, <1>0, XargsTypes, XargsAssumption
     DEF NoSpawn, XargsTypeOK, Pool, Unreaped, Ends, lineVars, poolVars, Again
<1>5. Told'
  BY Zenon, <1>0, XargsTypes, XargsAssumption
     DEF NoSpawn, XargsTypeOK, Told, lineVars, poolVars, Again
<1>6. QED
  BY Zenon, <1>3, <1>4, <1>5

(* Fork keeps the invariant                                                 *)
LEMMA ForkKeeps ==
  ASSUME XargsInv, Fork
  PROVE  XargsInv'
<1> USE DEF XargsInv
<1>0. XargsTypeOK
  OBVIOUS
<1>1. /\ UNCHANGED <<input, opt, lineVars, status, nerrors, dead, seen>>
      /\ stage = "line" /\ stage' = "wait" /\ Held' = 0
      /\ passed' = passed + Held /\ passed' \in Nat
      /\ alive' = alive + 1 /\ curprocs' = curprocs + 1
  <2>1. Held = Len(cmd) /\ passed' = passed + Len(cmd)
    BY Zenon DEF Fork, Held
  <2>2. passed + Held \in Nat
    BY Zenon, <1>0, HeldTypes, PassedSum
  <2>3. QED
    BY Zenon, <2>1, <2>2 DEF Fork, Held
<1>2. XargsTypeOK'
  BY Zenon, <1>0, <1>1, Counters DEF XargsTypeOK, lineVars
<1>3. Order' /\ Ended'
  BY Zenon, <1>0, <1>1, PassedOrder, PassedEnds DEF lineVars
<1>4. Pool'
  <2>1. /\ alive' = alive + 1 /\ curprocs' = curprocs + 1 /\ stage = "line" /\ stage' = "wait"
        /\ UNCHANGED <<dead, opt>>
    BY Zenon DEF Fork
  <2>2. Unreaped' = Unreaped + 1
    BY <1>0, <2>1, DeadTypes DEF Unreaped
  <2>3. curprocs = Unreaped /\ curprocs < opt.P /\ opt' = opt
    BY Zenon, <2>1 DEF Pool
  <2>4. QED
    <3>1. curprocs \in Int /\ opt.P \in Nat
      BY Zenon, <1>0, DeadTypes, XargsTypes
    <3>2. curprocs' = Unreaped' /\ curprocs' <= opt.P
      BY <2>1, <2>2, <2>3, <3>1
    <3>3. QED
      BY Zenon, <2>1, <2>3, <3>2 DEF Pool
<1>5. Told'
  BY Zenon, <1>0, XargsTypes, XargsAssumption DEF Fork, XargsTypeOK, Told, lineVars, poolVars
<1>6. QED
  BY Zenon, <1>2, <1>3, <1>4, <1>5

(* ForkFails keeps the invariant                                                 *)
LEMMA ForkFailsKeeps ==
  ASSUME XargsInv, ForkFails
  PROVE  XargsInv'
<1> USE DEF XargsInv
<1>0. XargsTypeOK
  OBVIOUS
<1>1. XargsTypeOK'
  BY Zenon, <1>0, OverTypes DEF ForkFails
<1>2. Order'
  BY Zenon, <1>0, OverOrder DEF ForkFails, exit
<1>3. Ended'
  BY Zenon, <1>0, XargsTypes, XargsAssumption
     DEF ForkFails, XargsTypeOK, Order, Held, Ended, Whole, lineVars, poolVars, exit
<1>4. Pool'
  BY Zenon, <1>0, XargsTypes, XargsAssumption
     DEF ForkFails, XargsTypeOK, Pool, Unreaped, Ends, lineVars, poolVars, exit
<1>5. Told'
  BY Zenon, <1>0, XargsTypes, XargsAssumption
     DEF ForkFails, XargsTypeOK, Told, lineVars, poolVars, exit
<1>6. QED
  BY <1>1, <1>2, <1>3, <1>4, <1>5

(* Waited keeps the invariant                                                 *)
LEMMA WaitedKeeps ==
  ASSUME XargsInv, Waited
  PROVE  XargsInv'
<1> USE DEF XargsInv
<1>0. XargsTypeOK
  OBVIOUS
<1>1. /\ UNCHANGED <<input, opt, at, arg, leftover, status, poolVars, passed>> /\ Again
      /\ stage = "wait" /\ passed' = passed + Held
  <2>1. Held = 0
    BY Zenon DEF Waited, Held
  <2>2. QED
    BY Zenon, <1>0, <2>1, HeldTypes, PassedSum DEF Waited
<1>2. Held' = 0 /\ (stage' = "fill" => arg # 0) /\ (stage' = "drain" => arg = 0)
  <2>1. stage' = "fill" => Len(cmd') = 0
    BY <1>0, <1>1, AgainNext
  <2>2. QED
    BY Zenon, <1>0, <1>1, <2>1, AgainNext DEF Held
<1>3. XargsTypeOK' /\ Order' /\ Ended'
  <2>1. XargsTypeOK'
    BY Zenon, <1>0, <1>1, AgainNext DEF XargsTypeOK, poolVars
  <2>2. QED
    BY Zenon, <1>0, <1>1, <1>2, <2>1, PassedOrder, PassedEnds
<1>4. Pool'
  <2>1. Unreaped' = Unreaped /\ UNCHANGED <<curprocs, opt, dead, alive>>
    BY Zenon, <1>1 DEF Unreaped, poolVars
  <2>2. curprocs < opt.P
    <3>1. CASE alive = 0
      <4>1. dead["ok"] = 0 /\ dead["error"] = 0 /\ dead["126"] = 0 /\ dead["127"] = 0
            /\ dead["255"] = 0 /\ dead["signal"] = 0
        BY Zenon DEF Waited, NoneDead, Ends
      <4>2. Unreaped = 0
        BY <3>1, <4>1 DEF Unreaped
      <4>3. QED
        BY Zenon, <1>0, <4>2, XargsTypes DEF Pool
    <3>2. QED
      BY Zenon, <3>1 DEF Waited
  <2>3. QED
    BY Zenon, <2>1, <2>2 DEF Pool
<1>5. Told'
  BY Zenon, <1>0, XargsTypes, XargsAssumption
     DEF Waited, XargsTypeOK, Told, lineVars, poolVars, Again, NoneDead
<1>6. QED
  BY Zenon, <1>3, <1>4, <1>5

(* Finish keeps the invariant                                                 *)
LEMMA FinishKeeps ==
  ASSUME XargsInv, Finish
  PROVE  XargsInv'
<1> USE DEF XargsInv
<1>0. XargsTypeOK
  OBVIOUS
<1>1. XargsTypeOK'
  BY SMTT(30), <1>0, XargsTypes, XargsAssumption
     DEF Finish, XargsTypeOK, lineVars, poolVars, Ends, exit
<1>2. Order'
  BY Zenon, <1>0, XargsTypes, XargsAssumption
     DEF Finish, XargsTypeOK, Order, Held, Ended, Whole, lineVars, poolVars, exit
<1>3. Ended'
  BY Zenon, <1>0, XargsTypes, XargsAssumption
     DEF Finish, XargsTypeOK, Order, Held, Ended, Whole, lineVars, poolVars, exit
<1>4. Pool'
  BY Zenon, <1>0, XargsTypes, XargsAssumption
     DEF Finish, XargsTypeOK, Pool, Unreaped, Ends, lineVars, poolVars, exit
<1>5. Told'
  BY Zenon, <1>0, XargsTypes, XargsAssumption
     DEF Finish, XargsTypeOK, Told, lineVars, poolVars, exit
<1>6. QED
  BY <1>1, <1>2, <1>3, <1>4, <1>5

(* ChildEnd keeps the invariant                                                 *)
LEMMA ChildEndKeeps ==
  ASSUME XargsInv, ChildEnd
  PROVE  XargsInv'
<1> USE DEF XargsInv
<1>0. XargsTypeOK
  OBVIOUS
<1>1. XargsTypeOK'
  <2>1. PICK e \in Ends : alive' = alive - 1 /\ dead' = [dead EXCEPT ![e] = dead[e] + 1]
    BY Zenon DEF ChildEnd
  <2>2. dead \in [Ends -> Nat] /\ alive \in Nat /\ alive > 0
    BY Zenon, <1>0 DEF ChildEnd, XargsTypeOK
  <2>3. alive' \in Nat
    BY <2>1, <2>2
  <2>4. dead' \in [Ends -> Nat]
    BY Zenon, <2>1, <2>2, Counters
  <2>5. QED
    BY Zenon, <1>0, <2>3, <2>4 DEF ChildEnd, XargsTypeOK, lineVars
<1>2. Order'
  BY Zenon, <1>0, XargsTypes, XargsAssumption
     DEF ChildEnd, XargsTypeOK, Order, Held, Ended, Whole, lineVars, poolVars
<1>3. Ended'
  BY Zenon, <1>0, XargsTypes, XargsAssumption
     DEF ChildEnd, XargsTypeOK, Order, Held, Ended, Whole, lineVars, poolVars
<1>4. Pool'
  <2>1. PICK e \in Ends : alive' = alive - 1 /\ dead' = [dead EXCEPT ![e] = dead[e] + 1]
    BY Zenon DEF ChildEnd
  <2>2. dead \in [Ends -> Nat] /\ UNCHANGED <<curprocs, stage, opt>>
    BY Zenon, <1>0 DEF ChildEnd, XargsTypeOK, poolVars
  <2>3. Unreaped' = Unreaped
    BY <1>0, <2>1, <2>2, DeadTypes DEF Ends, Unreaped
  <2>4. QED
    BY Zenon, <2>2, <2>3 DEF Pool
<1>5. Told'
  BY Zenon, <1>0, XargsTypes, XargsAssumption
     DEF ChildEnd, XargsTypeOK, Told, lineVars, poolVars
<1>6. QED
  BY <1>1, <1>2, <1>3, <1>4, <1>5

(* A child reaped leaves the pool; only one that ends well or with an error lets *)
(* xargs go on                                                               *)
LEMMA ReapKeeps ==
  ASSUME XargsInv, Reap
  PROVE  XargsInv'
<1> USE DEF XargsInv
<1>0. XargsTypeOK
  OBVIOUS
<1>1. PICK e \in Ends :
        /\ dead[e] > 0 /\ dead' = [dead EXCEPT ![e] = dead[e] - 1]
        /\ curprocs' = curprocs - 1 /\ seen' = seen \cup {e}
        /\ nerrors' = IF e = "error" THEN nerrors + 1 ELSE nerrors
        /\ IF Fatal(e) # 0 THEN exit(Fatal(e)) ELSE UNCHANGED <<stage, status>>
  BY Zenon DEF Reap
<1>2. /\ stage \in {"wait", "drain"}
      /\ UNCHANGED <<input, opt, at, arg, leftover, cmd, argsz, linecount, alive, passed>>
  BY Zenon DEF Reap, lineVars
<1>3. \/ Fatal(e) # 0 /\ stage' = "over" /\ status' = Fatal(e)
      \/ Fatal(e) = 0 /\ stage' = stage /\ status' = status
  BY Zenon, <1>1 DEF exit
<1>4. Fatal(e) \in {0, 124, 125, 126, 127} /\ (Fatal(e) = 0 => e \in {"ok", "error"})
  BY DEF Fatal, Ends
<1>5. XargsTypeOK'
  <2>1. dead' \in [Ends -> Nat]
    BY <1>0, <1>1 DEF XargsTypeOK
  <2>2. curprocs' \in Int /\ nerrors' \in Nat /\ seen' \subseteq Ends
    BY SMTT(30), <1>0, <1>1 DEF XargsTypeOK
  <2>3. stage' \in {"fill", "line", "wait", "drain", "over"} /\ status' \in Int
    BY SMTT(30), <1>0, <1>3, <1>4 DEF XargsTypeOK
  <2>4. QED
    BY Zenon, <1>0, <1>2, <2>1, <2>2, <2>3 DEF XargsTypeOK
<1>6. Order'
  <2>1. Held = 0 /\ Held' = 0
    BY Zenon, <1>2, <1>3 DEF Held
  <2>2. QED
    BY Zenon, <1>2, <1>3, <2>1 DEF Order
<1>7. Ended'
  <2>1. Held = 0 /\ Held' = 0
    BY Zenon, <1>2, <1>3 DEF Held
  <2>2. QED
    BY Zenon, <1>2, <1>3, <2>1 DEF Ended, Whole
<1>8. Pool'
  <2>1. Unreaped' = Unreaped - 1
    <3>1. dead \in [Ends -> Nat] /\ alive' = alive
      BY Zenon, <1>0, <1>2 DEF XargsTypeOK
    <3>2. QED
      BY SMTT(30), <1>0, <1>1, <3>1, DeadTypes DEF Ends, Unreaped
  <2>2. QED
    <3>1. curprocs \in Int /\ opt.P \in Nat /\ curprocs = Unreaped /\ curprocs <= opt.P
      BY Zenon, <1>0, DeadTypes, XargsTypes DEF Pool
    <3>2. curprocs' = Unreaped' /\ curprocs' <= opt.P
      BY <1>1, <2>1, <3>1
    <3>3. QED
      BY Zenon, <1>2, <1>3, <3>2 DEF Pool
<1>9. Told'
  <2>1. stage' # "over" => seen' \subseteq {"ok", "error"} /\ status' = -1
    BY Zenon, <1>1, <1>2, <1>3, <1>4 DEF Told
  <2>2. "error" \in seen' <=> nerrors' > 0
    BY <1>0, <1>1 DEF Told, XargsTypeOK
  <2>3. QED
    BY Zenon, <2>1, <2>2 DEF Told
<1>10. QED
  BY Zenon, <1>5, <1>6, <1>7, <1>8, <1>9

(* Every argument goes to exactly one command, in the order of the input, and   *)
(* there are never more children than -P allows                              *)
THEOREM XargsInvariant == XargsSpec => []XargsInv
<1>1. XargsInit => XargsInv
  <2> SUFFICES ASSUME XargsInit PROVE XargsInv
    BY Zenon
  <2>1. XargsTypeOK
    <3>1. dead \in [Ends -> Nat] /\ cmd \in Seq(Nat) /\ seen \subseteq Ends
      BY DEF XargsInit
    <3>2. argsz \in Nat /\ status \in Int
      BY XargsAssumption DEF XargsInit
    <3>3. at \in Nat /\ arg \in Nat /\ linecount \in Nat /\ curprocs \in Int
          /\ nerrors \in Nat /\ alive \in Nat /\ passed \in Nat
      BY DEF XargsInit
    <3>4. input \in Inputs /\ opt \in Options /\ leftover \in BOOLEAN /\ stage = "fill"
      BY Zenon DEF XargsInit
    <3>5. QED
      BY Zenon, <3>1, <3>2, <3>3, <3>4 DEF XargsTypeOK
  <2>2. Order /\ Ended
    BY <2>1, XargsTypes DEF XargsInit, Order, Ended, Held
  <2>3. Pool
    BY <2>1, XargsTypes DEF XargsInit, Pool, Unreaped, Ends
  <2>4. Told
    BY DEF XargsInit, Told
  <2>5. QED
    BY Zenon, <2>1, <2>2, <2>3, <2>4 DEF XargsInv
<1>2. XargsInv /\ [XargsNext]_xargsVars => XargsInv'
  <2> SUFFICES ASSUME XargsInv, [XargsNext]_xargsVars PROVE XargsInv'
    BY Zenon 
  <2>1. CASE UNCHANGED xargsVars
    BY Zenon, <2>1
       DEF xargsVars, lineVars, poolVars, XargsInv, XargsTypeOK, Order, Held, Ended,
                Whole, Pool, Unreaped, Told
  <2>2. CASE XargsNext
    BY Zenon, <2>2, PopEndKeeps, PopBadKeeps, KeepKeeps, TooLongKeeps, AddKeeps, NoSpawnKeeps,
       ForkKeeps, ForkFailsKeeps, ReapKeeps, WaitedKeeps, FinishKeeps, ChildEndKeeps
       DEF XargsNext, Step
  <2>3. QED
    BY Zenon, <2>1, <2>2
<1>3. QED
  BY <1>1, <1>2, PTL DEF XargsSpec

(* The end of the drain: everything was passed, every command reaped         *)
LEMMA FinishTells ==
  ASSUME XargsInv, Finish
  PROVE  StatusTells'
<1> USE DEF XargsInv
<1>1. XargsTypeOK
  OBVIOUS
<1>2. /\ stage = "drain" /\ NoneDead /\ alive = 0
      /\ status' \in {0, 123} /\ (nerrors > 0 => status' = 123)
      /\ UNCHANGED <<input, alive, dead, seen, passed>>
  BY Zenon DEF Finish, exit, lineVars, poolVars
<1>3. Held = 0 /\ arg = 0
  BY Zenon, <1>2 DEF Held, Ended
<1>4. Whole(passed)
  BY SMTT(30), <1>1, <1>2, <1>3 DEF Ended, XargsTypeOK
<1>5. Whole(passed)'
  BY Zenon, <1>2, <1>4 DEF Whole
<1>6. Unreaped' = 0
  BY <1>2 DEF Unreaped, NoneDead, Ends
<1>7. seen' \subseteq {"ok", "error"} /\ ("error" \in seen' => status' = 123)
  BY Zenon, <1>2 DEF Told
<1>8. QED
  BY <1>2, <1>5, <1>6, <1>7 DEF StatusTells

(* The exit status tells the truth: 0 and 123 only when every argument was passed *)
(* and every command reaped, 124 to 127 only after a command ended that way.     *)
THEOREM StatusTruthful == XargsSpec => []StatusTells
<1>1. XargsInit => StatusTells
  BY DEF XargsInit, StatusTells
<1>2. XargsInv /\ StatusTells /\ [XargsNext]_xargsVars => StatusTells'
  <2> SUFFICES ASSUME XargsInv, StatusTells, [XargsNext]_xargsVars PROVE StatusTells'
    BY Zenon
  <2>1. CASE UNCHANGED <<input, alive, dead, seen, passed, status>>
    BY Zenon, <2>1 DEF StatusTells, Whole, Unreaped
  <2>2. ASSUME status' \in {-1, 1} PROVE StatusTells'
    BY <2>2 DEF StatusTells
  <2>3. CASE PopEnd \/ Keep \/ Add \/ NoSpawn \/ Fork \/ Waited
    <3>1. status' = -1
      BY Zenon, <2>3 DEF XargsInv, Told, PopEnd, Keep, Add, NoSpawn, Fork, Waited
    <3>2. QED
      BY Zenon, <2>2, <3>1
  <2>4. CASE PopBad \/ TooLong \/ ForkFails
    BY Zenon, <2>2, <2>4 DEF PopBad, TooLong, ForkFails, exit
  <2>5. CASE Reap
    <3>1. PICK e \in Ends :
            /\ seen' = seen \cup {e}
            /\ IF Fatal(e) # 0 THEN exit(Fatal(e)) ELSE UNCHANGED <<stage, status>>
      BY Zenon, <2>5 DEF Reap
    <3>2. status = -1
      BY Zenon, <2>5 DEF XargsInv, Told, Reap
    <3>3. CASE Fatal(e) # 0
      <4>1. status' = Fatal(e) /\ e \in seen'
        BY Zenon, <3>1, <3>3 DEF exit
      <4>2. Fatal(e) \in {0, 124, 125, 126, 127}
        BY DEF Fatal, Ends
      <4>3. QED
        BY <3>3, <4>1, <4>2 DEF StatusTells
    <3>4. CASE Fatal(e) = 0
      BY Zenon, <2>2, <3>1, <3>2, <3>4
    <3>5. QED
      BY Zenon, <3>3, <3>4
  <2>6. CASE Finish
    BY Zenon, <2>6, FinishTells
  <2>7. CASE ChildEnd
    <3>1. UNCHANGED <<input, status, seen, passed>> /\ alive > 0
      BY Zenon, <2>7 DEF ChildEnd
    <3>2. Unreaped # 0
      BY <3>1, DeadTypes DEF Unreaped, XargsInv
    <3>3. status \notin {0, 123}
      BY Zenon, <3>2 DEF StatusTells
    <3>4. QED
      BY <3>1, <3>3 DEF StatusTells
  <2>8. CASE UNCHANGED xargsVars
    BY Zenon, <2>1, <2>8 DEF xargsVars, poolVars
  <2>9. QED
    BY Zenon, <2>3, <2>4, <2>5, <2>6, <2>7, <2>8 DEF XargsNext, Step
<1>3. QED
  BY <1>1, <1>2, XargsInvariant, PTL DEF XargsSpec

-----------------------------------------------------------------------------
(* sdhcp                                                                     *)

Timers == [0 .. 2 -> Nat \cup {Off}]

(* What the proofs need of the types                                         *)
TimerTypes ==
  /\ timer \in [Clients -> Timers]
  /\ pc \in [Clients -> {"Selecting", "Requesting", "exit"} \cup Holding]
  /\ forked \in [Clients -> BOOLEAN]
  /\ t \in [Clients -> Nat \ {0}]

HoldingHasForked == \A c \in Clients : pc[c] \in Holding => forked[c]

TimerInv == TimerTypes /\ HoldingHasForked /\ TimersRun /\ FirstLeaseAlive

(* The timers of a client that waits under a label, forked or not            *)
Good(label, tm, f) ==
  /\ label \in Holding => f /\ tm[2] # Off
  /\ label \in {"Bound", "Renewing"} => tm[1] # Off
  /\ label = "Bound" => tm[0] # Off
  /\ ~f => /\ tm[1] = Off /\ tm[2] = Off
           /\ label \in {"Selecting", "Requesting"} => tm[0] # Off

(* The three timers                                                          *)
LEMMA Slots ==
  /\ 0 \in 0 .. 2 /\ 1 \in 0 .. 2 /\ 2 \in 0 .. 2
  /\ \A i, j \in 0 .. 2 : j > i => ~(j <= i)
OBVIOUS

(* Each of the three is off or has a time left.                              *)
LEMMA SlotTypes ==
  \A tm \in Timers : /\ tm[0] \in Nat \cup {Off} /\ tm[1] \in Nat \cup {Off}
                     /\ tm[2] \in Nat \cup {Off}
BY Zenon, Slots DEF Timers

(* At the start the servers have the discovers of the clients.                 *)
LEMMA InitMessages ==
  ASSUME Init
  PROVE  toClient = {} /\ \A m \in toServer : m.src \in Clients /\ m.type = "DISCOVER"
BY DEF Init

(* A timer that is off is below every time, ...                               *)
LEMMA OffBelow ==
  /\ Off # 0 /\ ~(Off > 0) /\ Off \in Nat \cup {Off}
  /\ \A n \in Nat : Off # n /\ Off <= n /\ n >= n /\ n \in 0 .. n /\ (n # 0 => 2 * n \in Nat \ {0})
BY DEF Off

(* ... an armed one has its time, off if that is 0, ...                        *)
LEMMA ArmedIs ==
  \A n \in Nat : Armed(n) \in Nat \cup {Off} /\ Armed(n) # 0 /\ (n # 0 => Armed(n) = n)
BY DEF Armed, Off

(* ... and two that run keep their order over a tick.                          *)
LEMMA DownOrder ==
  ASSUME NEW m \in Nat \cup {Off}, NEW n \in Nat \cup {Off}, m # 0, 0 <= m, m < n
  PROVE  0 <= Down(m) /\ Down(m) < Down(n)
BY DEF Down, Off

(* The timers a client has once it is bound.                                 *)
LEMMA BoundSlots ==
  ASSUME NEW tm \in Timers, NEW t1 \in Nat, NEW t2 \in Nat
  PROVE  /\ BoundTimers(tm, t1, t2) \in Timers /\ BoundTimers(tm, t1, t2)[0] = Armed(t1)
         /\ BoundTimers(tm, t1, t2)[1] = Armed(t2) /\ BoundTimers(tm, t1, t2)[2] = Lease
<1>1. Lease \in Nat \ {0}
  BY Zenon, SdhcpAssumption
<1>2. /\ Armed(t1) \in Nat \cup {Off} /\ Armed(t2) \in Nat \cup {Off}
      /\ Armed(Lease) = Lease /\ Lease \in Nat \cup {Off}
  BY Zenon, <1>1, ArmedIs
<1> QED
  BY <1>2 DEF Timers, BoundTimers

(* The invariant speaks of each client by itself.                            *)
LEMMA PerClient ==
  TimerInv <=> TimerTypes /\ \A c \in Clients : Good(pc[c], timer[c], forked[c])
<1>1. HoldingHasForked /\ TimersRun /\ FirstLeaseAlive
        <=> \A c \in Clients : Good(pc[c], timer[c], forked[c])
  BY Zenon DEF HoldingHasForked, TimersRun, FirstLeaseAlive, Good, Holding
<1> QED
  BY Zenon, <1>1 DEF TimerInv

(* dhcprecv() returns a timer that has expired, and none after it has.        *)
LEMMA ReturnedLast ==
  ASSUME NEW c \in Clients, Expired(c) # {}
  PROVE  /\ Returned(c) \in 0 .. 2 /\ timer[c][Returned(c)] = 0
         /\ \A j \in 0 .. 2 : timer[c][j] = 0 => j <= Returned(c)
<1>1. \E i \in Expired(c) : \A j \in Expired(c) : j <= i
  <2>1. CASE 2 \in Expired(c)
    BY <2>1 DEF Expired
  <2>2. CASE 2 \notin Expired(c) /\ 1 \in Expired(c)
    BY <2>2 DEF Expired
  <2>3. CASE 2 \notin Expired(c) /\ 1 \notin Expired(c)
    BY <2>3 DEF Expired
  <2> QED
    BY Zenon, <2>1, <2>2, <2>3
<1>2. Returned(c) \in Expired(c) /\ \A j \in Expired(c) : j <= Returned(c)
  BY Zenon, <1>1 DEF Returned
<1> QED
  BY Zenon, <1>2 DEF Expired

(* Reading leaves the running timers alone.                                  *)
LEMMA ReadTimers ==
  ASSUME TimerTypes, NEW c \in Clients
  PROVE  /\ Read(c) \in Timers
         /\ \A i \in 0 .. 2 : Read(c)[i] = IF timer[c][i] = 0 THEN Off ELSE timer[c][i]
  BY DEF Read, Timers, TimerTypes

(* A client that goes to a label with timers fit for it keeps the invariant.   *)
LEMMA Update ==
  ASSUME TimerInv, NEW c \in Clients,
         NEW label \in {"Selecting", "Requesting", "exit"} \cup Holding,
         NEW tm \in Timers, NEW f \in BOOLEAN, Good(label, tm, f),
         Goto(c, label), SetTimer(c, tm), forked' = [forked EXCEPT ![c] = f],
         t' \in [Clients -> Nat \ {0}]
  PROVE  TimerInv'
<1>1. TimerTypes /\ \A d \in Clients : Good(pc[d], timer[d], forked[d])
  BY Zenon, PerClient
<1>2. /\ TimerTypes'
      /\ \A d \in Clients : /\ pc'[d] = IF d = c THEN label ELSE pc[d]
                            /\ timer'[d] = IF d = c THEN tm ELSE timer[d]
                            /\ forked'[d] = IF d = c THEN f ELSE forked[d]
  BY <1>1, Zenon DEF TimerTypes, Goto, SetTimer
<1>3. \A d \in Clients : Good(pc'[d], timer'[d], forked'[d])
  BY <1>1, <1>2, Zenon
<1>4. (HoldingHasForked /\ TimersRun /\ FirstLeaseAlive)'
  BY <1>3, Zenon DEF HoldingHasForked, TimersRun, FirstLeaseAlive, Good, Holding
<1> QED
  BY Zenon, <1>2, <1>4 DEF TimerInv

(* The same where forked is left alone                                       *)
LEMMA UpdateSame ==
  ASSUME TimerInv, NEW c \in Clients,
         NEW label \in {"Selecting", "Requesting", "exit"} \cup Holding,
         NEW tm \in Timers, Good(label, tm, forked[c]),
         Goto(c, label), SetTimer(c, tm), UNCHANGED forked,
         t' \in [Clients -> Nat \ {0}]
  PROVE  TimerInv'
<1>1. forked \in [Clients -> BOOLEAN]
  BY Zenon DEF TimerInv, TimerTypes
<1>2. forked[c] \in BOOLEAN /\ forked' = [forked EXCEPT ![c] = forked[c]]
  BY Zenon, <1>1
<1> QED
  BY Zenon, <1>2, Update

(* The invariant, of one client                                              *)
LEMMA OfClient ==
  ASSUME TimerInv, NEW c \in Clients
  PROVE  /\ TimerTypes /\ Good(pc[c], timer[c], forked[c])
         /\ timer[c] \in Timers /\ t[c] \in Nat \ {0}
         /\ pc[c] \in {"Selecting", "Requesting", "exit"} \cup Holding
  BY Zenon, PerClient DEF TimerTypes

(* A client without a lease asks again, and its timer runs.                   *)
LEMMA InitStep ==
  ASSUME TimerInv, NEW c \in Clients, NEW tm \in Timers, GotoInit(c, tm),
         ~forked[c] => tm[1] = Off /\ tm[2] = Off
  PROVE  TimerInv'
<1> DEFINE new == [tm EXCEPT ![0] = Discover]
<1>1. Discover \in Nat \ {0}
  BY Zenon, SdhcpAssumption
<1>2. new \in Timers /\ new[0] = Discover /\ new[1] = tm[1] /\ new[2] = tm[2]
  BY <1>1 DEF Timers
<1>3. new[0] # Off
  BY <1>1, <1>2 DEF Off
<1>4. Good("Selecting", new, forked[c])
  BY <1>2, <1>3, Zenon DEF Good, Holding
<1>5. t' \in [Clients -> Nat \ {0}]
  BY Zenon, OfClient DEF TimerTypes, GotoInit
<1> QED
  BY Zenon, <1>2, <1>4, <1>5, UpdateSame DEF GotoInit

(* A try of Requesting sets the timer that ends it.                          *)
LEMMA TryStep ==
  ASSUME TimerInv, NEW c \in Clients, NEW n \in Nat \ {0}, NEW tm \in Timers, Try(c, n, tm),
         ~forked[c] => tm[1] = Off /\ tm[2] = Off
  PROVE  TimerInv'
<1> DEFINE new == [tm EXCEPT ![0] = n]
<1>2. new \in Timers /\ new[0] = n /\ new[1] = tm[1] /\ new[2] = tm[2]
  BY DEF Timers
<1>3. new[0] # Off
  BY <1>2 DEF Off
<1>4. Good("Requesting", new, forked[c])
  BY <1>2, <1>3, Zenon DEF Good, Holding
<1>5. t' \in [Clients -> Nat \ {0}]
  BY Zenon, OfClient DEF TimerTypes, Try
<1> QED
  BY Zenon, <1>2, <1>4, <1>5, UpdateSame DEF Try

(* The lease of an ACK that has all its times starts the three timers.        *)
LEMMA BoundStep ==
  ASSUME ~Optional, TimerInv, NEW c \in Clients, GotoBound(c, timer[c])
  PROVE  TimerInv'
<1> DEFINE new == BoundTimers(timer[c], T1, T2)
<1>1. {T1, T2, Lease} \subseteq Nat \ {0}
  BY Zenon, SdhcpAssumption
<1>2. timer[c] \in Timers
  BY Zenon, OfClient
<1>3. /\ new \in Timers
      /\ new[0] = T1 /\ new[1] = T2 /\ new[2] = Lease
  <2>1. T1 \in Nat /\ T2 \in Nat /\ Armed(T1) = T1 /\ Armed(T2) = T2
    BY Zenon, <1>1, ArmedIs
  <2> QED
    BY Zenon, <1>2, <2>1, BoundSlots
<1>4. new[0] # Off /\ new[1] # Off /\ new[2] # Off
  BY Zenon, <1>1, <1>3, OffBelow
<1>5. Good("Bound", new, TRUE)
  BY <1>4, Zenon DEF Good, Holding
<1>6. t' \in [Clients -> Nat \ {0}]
  BY Zenon, OfClient DEF TimerTypes, GotoBound
<1>7. Goto(c, "Bound") /\ SetTimer(c, new) /\ forked' = [forked EXCEPT ![c] = TRUE]
  BY Zenon DEF GotoBound
<1> HIDE DEF new
<1> QED
  BY Zenon, <1>3, <1>5, <1>6, <1>7, Update DEF Holding

(* Asking to renew keeps the timers that end the asking.                      *)
LEMMA RenewStep ==
  ASSUME TimerInv, NEW c \in Clients, NEW tm \in Timers, NEW label \in {"Renewing", "Rebinding"},
         NEW h \in Nat \ {0}, Goto(c, label), SetTimer(c, [tm EXCEPT ![0] = h]),
         UNCHANGED <<t, forked>>, pc[c] \in Holding,
         tm[2] # Off, label = "Renewing" => tm[1] # Off
  PROVE  TimerInv'
<1> DEFINE new == [tm EXCEPT ![0] = h]
<1>1. new \in Timers /\ new[1] = tm[1] /\ new[2] = tm[2]
  BY DEF Timers
<1>2. forked[c]
  BY Zenon DEF TimerInv, HoldingHasForked
<1>3. Good(label, new, forked[c])
  BY <1>1, <1>2, Zenon DEF Good, Holding
<1>4. t' \in [Clients -> Nat \ {0}]
  BY Zenon, OfClient DEF TimerTypes
<1>5. SetTimer(c, new) /\ UNCHANGED forked
  BY Zenon
<1> HIDE DEF new
<1> QED
  BY Zenon, <1>1, <1>3, <1>4, <1>5, UpdateSame DEF Holding

(* calctimeout() returns at least MinRetry.                                   *)
LEMMA Retry ==
  ASSUME NEW tm \in Timers, NEW i \in 0 .. 2
  PROVE  calctimeout(tm, i) \subseteq Nat \ {0}
<1>1. MinRetry \in Nat \ {0}
  BY Zenon, SdhcpAssumption
<1>2. tm[i] \in Nat \cup {Off}
  BY Zenon DEF Timers
<1> QED
  BY <1>1, <1>2 DEF calctimeout, Off

(* Every packet dhcprecv() returns leaves the timers fit for the label.        *)
LEMMA PacketStep ==
  ASSUME ~Optional, TimerInv, NEW c \in Clients, Packet(c)
  PROVE  TimerInv'
<1>1. PICK m \in toClient : TakeOffer(c, m) \/ TakeAck(c, m) \/ TakeNak(c, m) \/ IgnorePacket(c, m)
  BY Zenon DEF Packet
<1>2. timer[c] \in Timers /\ Good(pc[c], timer[c], forked[c])
  BY Zenon, OfClient
<1>3. ~forked[c] => timer[c][1] = Off /\ timer[c][2] = Off
  BY Zenon, <1>2 DEF Good
<1>4. CASE TakeOffer(c, m)
  BY Zenon, <1>2, <1>3, <1>4, TryStep, SdhcpAssumption DEF TakeOffer
<1>5. CASE TakeAck(c, m)
  BY Zenon, <1>5, BoundStep DEF TakeAck
<1>6. CASE TakeNak(c, m)
  BY Zenon, <1>2, <1>3, <1>6, InitStep DEF TakeNak
<1>7. CASE IgnorePacket(c, m)
  <2>1. timer' = timer /\ UNCHANGED <<pc, forked, t>>
    BY Zenon, <1>7, OfClient DEF IgnorePacket, Ignore, SetTimer, TimerTypes
  <2> QED
    BY Zenon, <2>1 DEF TimerInv, TimerTypes, HoldingHasForked, TimersRun, FirstLeaseAlive
<1> QED
  BY Zenon, <1>1, <1>4, <1>5, <1>6, <1>7

(* Of timers that expired together the last one decides: the ones that the next *)
(* label needs come after it, and have not expired.                           *)
LEMMA TimeoutStep ==
  ASSUME TimerInv, NEW c \in Clients, Timeout(c)
  PROVE  TimerInv'
<1> DEFINE i == Returned(c)
           tm == Read(c)
<1>1. /\ TimerTypes /\ timer[c] \in Timers /\ t[c] \in Nat \ {0}
      /\ Good(pc[c], timer[c], forked[c])
  BY Zenon, OfClient
<1>2. i \in 0 .. 2 /\ timer[c][i] = 0 /\ \A j \in 0 .. 2 : timer[c][j] = 0 => j <= i
  BY Zenon, ReturnedLast DEF Timeout
<1>3. tm \in Timers /\ \A j \in 0 .. 2 : tm[j] = IF timer[c][j] = 0 THEN Off ELSE timer[c][j]
  BY Zenon, <1>1, ReadTimers
<1>4. ~forked[c] => tm[1] = Off /\ tm[2] = Off
  BY <1>1, <1>3 DEF Good
<1>5. \A j \in 0 .. 2 : j > i => tm[j] = timer[c][j]
  BY Zenon, <1>2, <1>3, Slots
<1>6. \/ pc[c] = "Selecting" /\ i = 0 /\ GotoInit(c, tm)
      \/ pc[c] = "Requesting" /\ i = 0 /\ NextTry(c)
      \/ pc[c] \in {"Bound", "Renewing"} /\ i = 0 /\ GotoRenewing(c, tm)
      \/ pc[c] \in {"Bound", "Renewing"} /\ i = 1 /\ GotoRebinding(c, tm)
      \/ pc[c] = "Rebinding" /\ i = 0 /\ GotoRebinding(c, tm)
      \/ pc[c] \in Holding /\ i = 2 /\ GotoInit(c, tm)
      \/ NoCase(pc[c], i) /\ Ignore(c, tm)
  BY Zenon DEF Timeout
<1> HIDE DEF i, tm
<1>7. CASE GotoInit(c, tm)
  BY Zenon, <1>3, <1>4, <1>7, InitStep
<1>8. CASE NextTry(c)
  <2>1. Read(c) = tm
    BY Zenon DEF tm
  <2>2. CASE Try(c, 2 * t[c], tm)
    <3>1. 2 * t[c] \in Nat \ {0}
      BY <1>1
    <3> QED
      BY Zenon, <1>3, <1>4, <2>2, <3>1, TryStep
  <2> QED
    BY Zenon, <1>7, <1>8, <2>1, <2>2 DEF NextTry
<1>9. CASE pc[c] \in {"Bound", "Renewing"} /\ i = 0 /\ GotoRenewing(c, tm)
  <2>1. tm[1] = timer[c][1] /\ tm[2] = timer[c][2]
    BY <1>5, <1>9
  <2>2. tm[1] # Off /\ tm[2] # Off /\ pc[c] \in Holding
    BY <1>1, <1>9, <2>1, Zenon DEF Good, Holding
  <2>3. PICK h \in Nat \ {0} :
          Goto(c, "Renewing") /\ SetTimer(c, [tm EXCEPT ![0] = h]) /\ UNCHANGED <<t, forked>>
    BY <1>3, <1>9, Retry DEF GotoRenewing
  <2> QED
    BY Zenon, <1>3, <2>2, <2>3, RenewStep
<1>10. CASE pc[c] \in Holding /\ i # 2 /\ GotoRebinding(c, tm)
  <2>1. tm[2] = timer[c][2]
    BY <1>2, <1>5, <1>10
  <2>2. tm[2] # Off
    BY <1>1, <1>10, <2>1, Zenon DEF Good
  <2>3. PICK h \in Nat \ {0} :
          Goto(c, "Rebinding") /\ SetTimer(c, [tm EXCEPT ![0] = h]) /\ UNCHANGED <<t, forked>>
    BY <1>3, <1>10, Retry DEF GotoRebinding
  <2> QED
    BY Zenon, <1>3, <1>10, <2>2, <2>3, RenewStep
<1>11. CASE NoCase(pc[c], i) /\ Ignore(c, tm)
  <2>1. Goto(c, pc[c]) /\ SetTimer(c, tm) /\ UNCHANGED <<forked, t>>
    BY Zenon, <1>1, <1>11 DEF Ignore, Goto, TimerTypes
  <2>2. CASE pc[c] \in {"Selecting", "Requesting"} /\ i # 0
    <3>1. timer[c][i] # Off /\ i \in {1, 2}
      BY <1>2, <2>2 DEF Off
    <3>2. forked[c]
      BY Zenon, <1>1, <3>1 DEF Good
    <3>3. Good(pc[c], tm, forked[c])
      BY <2>2, <3>2, Zenon DEF Good, Holding
    <3> QED
      BY Zenon, <1>1, <1>3, <2>1, <2>2, <3>3, UpdateSame DEF TimerTypes
  <2>3. CASE pc[c] = "Rebinding" /\ i = 1
    <3>1. tm[2] = timer[c][2]
      BY <1>5, <2>3
    <3>2. Good(pc[c], tm, forked[c])
      BY <1>1, <2>3, <3>1, Zenon DEF Good, Holding
    <3> QED
      BY Zenon, <1>1, <1>3, <2>1, <2>3, <3>2, UpdateSame DEF TimerTypes, Holding
  <2> QED
    BY Zenon, <1>11, <2>2, <2>3 DEF NoCase
<1> QED
  BY <1>6, <1>7, <1>8, <1>9, <1>10, <1>11 DEF Holding

(* A tick takes no timer away.                                               *)
LEMMA TickTimers ==
  ASSUME TimerTypes, Tick
  PROVE  /\ timer' \in [Clients -> Timers]
         /\ \A c \in Clients : \A i \in 0 .. 2 :
              /\ timer'[c][i] = Down(timer[c][i])
              /\ timer'[c][i] = Off <=> timer[c][i] = Off
<1>1. \A c \in Clients : \A i \in 0 .. 2 : timer[c][i] \in Nat \cup {Off}
  BY DEF TimerTypes, Timers
<1>2. \A n \in Nat \cup {Off} : Down(n) \in Nat \cup {Off} /\ (Down(n) = Off <=> n = Off)
  BY DEF Down, Off
<1>3. timer' = [c \in Clients |-> [i \in 0 .. 2 |-> Down(timer[c][i])]]
  BY Zenon DEF Tick
<1>4. \A c \in Clients : timer'[c] = [i \in 0 .. 2 |-> Down(timer[c][i])]
  BY Zenon, <1>3
<1>5. \A c \in Clients : \A i \in 0 .. 2 : timer'[c][i] = Down(timer[c][i])
  BY Zenon, <1>4
<1>6. \A c \in Clients : timer'[c] \in Timers
  BY <1>1, <1>2, <1>4, ZenonT(30) DEF Timers
<1>7. timer' \in [Clients -> Timers]
  BY Zenon, <1>3, <1>6
<1> QED
  BY Zenon, <1>1, <1>2, <1>5, <1>7

(* run() starts in Init with the timer of the first DISCOVER set.              *)
LEMMA TimerInit ==
  Init => TimerInv
<1> SUFFICES ASSUME Init PROVE TimerInv
  OBVIOUS
<1>1. Discover \in Nat \ {0} /\ FirstTry \in Nat \ {0}
  BY Zenon, SdhcpAssumption
<1>2. TimerTypes
  BY Zenon, <1>1 DEF Init, TimerTypes, Timers, Off
<1>3. \A c \in Clients : /\ pc[c] = "Selecting" /\ ~forked[c]
                         /\ timer[c][0] = Discover /\ timer[c][1] = Off /\ timer[c][2] = Off
  BY DEF Init
<1>4. Discover # Off
  BY <1>1 DEF Off
<1> QED
  BY Zenon, <1>2, <1>3, <1>4 DEF TimerInv, HoldingHasForked, TimersRun, FirstLeaseAlive, Holding

(* Every step keeps the invariant when the servers send all the times.        *)
LEMMA TimerStep ==
  ASSUME ~Optional
  PROVE  TimerInv /\ [Next]_sdhcpVars => TimerInv'
<1> SUFFICES ASSUME TimerInv, [Next]_sdhcpVars PROVE TimerInv'
  BY Zenon
<1>1. ASSUME NEW c \in Clients, Packet(c) PROVE TimerInv'
  BY Zenon, <1>1, PacketStep
<1>2. ASSUME NEW c \in Clients, Timeout(c) PROVE TimerInv'
  BY Zenon, <1>2, TimeoutStep
<1>3. ASSUME NEW c \in Clients, Terminate(c) PROVE TimerInv'
  <2>1. timer[c] \in Timers /\ Good(pc[c], timer[c], forked[c]) /\ TimerTypes
    BY Zenon, OfClient
  <2>2. Good("exit", timer[c], forked[c])
    BY <2>1, Zenon DEF Good, Holding
  <2>3. Goto(c, "exit") /\ SetTimer(c, timer[c]) /\ UNCHANGED <<forked, t>>
    BY Zenon, <1>3, <2>1 DEF Terminate, SetTimer, TimerTypes
  <2> QED
    BY Zenon, <2>1, <2>2, <2>3, UpdateSame DEF TimerTypes
<1>4. ASSUME Tick PROVE TimerInv'
  <2>1. UNCHANGED <<pc, forked, t>>
    BY Zenon, <1>4 DEF Tick
  <2>2. /\ timer' \in [Clients -> Timers]
        /\ \A c \in Clients : \A i \in 0 .. 2 : timer'[c][i] = Off <=> timer[c][i] = Off
    BY Zenon, <1>4, TickTimers DEF TimerInv
  <2>3. \A c \in Clients : /\ timer'[c][0] = Off <=> timer[c][0] = Off
                           /\ timer'[c][1] = Off <=> timer[c][1] = Off
                           /\ timer'[c][2] = Off <=> timer[c][2] = Off
    BY <2>2
  <2> QED
    BY Zenon, <2>1, <2>2, <2>3 DEF TimerInv, TimerTypes, HoldingHasForked, TimersRun, FirstLeaseAlive
<1>5. ASSUME Server \/ Lose \/ UNCHANGED sdhcpVars PROVE TimerInv'
  <2>1. UNCHANGED <<pc, timer, forked, t>>
    BY Zenon, <1>5 DEF Server, Offer, Grant, Refuse, Note, Serve, Lose, local, sdhcpVars
  <2> QED
    BY Zenon, <2>1 DEF TimerInv, TimerTypes, HoldingHasForked, TimersRun, FirstLeaseAlive
<1> QED
  BY Zenon, <1>1, <1>2, <1>3, <1>4, <1>5 DEF Next

(* dhcprecv() reads all expired timers and returns only the last: in no state    *)
(* that holds a lease is a timer lost that would end it, and before its first    *)
(* lease no client is without a timeout, whatever the timeouts, the number of    *)
(* clients and what the network does.                                         *)
THEOREM TimersNeverLost ==
  ASSUME ~Optional
  PROVE  Spec => []TimersRun /\ []FirstLeaseAlive
<1>1. Init => TimerInv
  BY Zenon, TimerInit
<1>2. TimerInv /\ [Next]_sdhcpVars => TimerInv'
  BY Zenon, TimerStep
<1>3. TimerInv => TimersRun /\ FirstLeaseAlive
  BY Zenon DEF TimerInv
<1> QED
  BY <1>1, <1>2, <1>3, PTL DEF Spec

-----------------------------------------------------------------------------
(* Bound ends before the lease does.                                         *)
RenewalFirst ==
  \A c \in Clients : pc[c] = "Bound" => 0 <= timer[c][0] /\ timer[c][0] < timer[c][2]

(* Without delays the renewal timer of Bound is seen before the lease's.        *)
LEMMA RenewalFirstStep ==
  ASSUME ~Optional, ~Late, T1 < Lease
  PROVE  TimerInv /\ RenewalFirst /\ [Next]_sdhcpVars => RenewalFirst'
<1> SUFFICES ASSUME TimerInv, RenewalFirst, [Next]_sdhcpVars,
                    NEW d \in Clients, pc'[d] = "Bound"
             PROVE  0 <= timer'[d][0] /\ timer'[d][0] < timer'[d][2]
  BY Zenon DEF RenewalFirst
<1> USE DEF RenewalFirst
<1>1. TimerTypes /\ timer[d] \in Timers
  BY Zenon, OfClient
<1>2. ASSUME NEW c \in Clients, c # d, Packet(c) \/ Timeout(c) \/ Terminate(c)
      PROVE  UNCHANGED <<pc[d], timer[d]>>
  <2>1. \E label : Goto(c, label) \/ UNCHANGED pc
    BY Zenon, <1>2 DEF Packet, Timeout, Terminate, TakeOffer, TakeAck, TakeNak, IgnorePacket, Try,
         GotoInit, GotoBound, GotoRenewing, GotoRebinding, NextTry, Ignore
  <2>2. \E tm : SetTimer(c, tm) \/ UNCHANGED timer
    BY Zenon, <1>2 DEF Packet, Timeout, Terminate, TakeOffer, TakeAck, TakeNak, IgnorePacket, Try,
         GotoInit, GotoBound, GotoRenewing, GotoRebinding, NextTry, Ignore
  <2> QED
    BY Zenon, <1>1, <1>2, <2>1, <2>2 DEF Goto, SetTimer, TimerTypes
<1>3. ASSUME Packet(d) PROVE 0 <= timer'[d][0] /\ timer'[d][0] < timer'[d][2]
  <2>1. PICK m \in toClient : TakeOffer(d, m) \/ TakeAck(d, m) \/ TakeNak(d, m) \/ IgnorePacket(d, m)
    BY Zenon, <1>3 DEF Packet
  <2>2. CASE TakeAck(d, m)
    <3>1. timer' = [timer EXCEPT ![d] = BoundTimers(timer[d], T1, T2)]
      BY Zenon, <2>2 DEF TakeAck, GotoBound, SetTimer
    <3>2. timer'[d] = BoundTimers(timer[d], T1, T2)
      BY Zenon, <1>1, <3>1 DEF TimerTypes
    <3>3. {T1, T2, Lease} \subseteq Nat \ {0}
      BY Zenon, SdhcpAssumption
    <3>4. timer'[d][0] = T1 /\ timer'[d][2] = Lease
      <4>1. T1 \in Nat /\ T2 \in Nat /\ Armed(T1) = T1
        BY Zenon, <3>3, ArmedIs
      <4>2. BoundTimers(timer[d], T1, T2)[0] = T1 /\ BoundTimers(timer[d], T1, T2)[2] = Lease
        BY Zenon, <1>1, <4>1, BoundSlots
      <4> QED
        BY Zenon, <3>2, <4>2
    <3> QED
      BY <3>3, <3>4
  <2>3. CASE TakeOffer(d, m) \/ TakeNak(d, m)
    BY Zenon, <1>1, <2>3 DEF TakeOffer, TakeNak, Try, GotoInit, Goto, TimerTypes
  <2>4. CASE IgnorePacket(d, m)
    BY Zenon, <1>1, <2>4 DEF IgnorePacket, Ignore, SetTimer, TimerTypes
  <2> QED
    BY Zenon, <2>1, <2>2, <2>3, <2>4
<1>4. ASSUME Timeout(d) PROVE FALSE
  <2>1. CASE Ignore(d, Read(d)) /\ NoCase(pc[d], Returned(d))
    BY Zenon, <2>1 DEF Ignore, NoCase
  <2>2. CASE ~(Ignore(d, Read(d)) /\ NoCase(pc[d], Returned(d)))
    BY Zenon, <1>1, <1>4, <2>2 DEF Timeout, GotoInit, NextTry, Try, GotoRenewing, GotoRebinding, Goto, TimerTypes
  <2> QED
    BY Zenon, <2>1, <2>2
<1>5. ASSUME Terminate(d) PROVE FALSE
  BY Zenon, <1>1, <1>5 DEF Terminate, Goto, TimerTypes
<1>6. ASSUME Tick PROVE 0 <= timer'[d][0] /\ timer'[d][0] < timer'[d][2]
  <2>1. pc[d] = "Bound" /\ Expired(d) = {}
    BY Zenon, <1>6 DEF Tick, Waiting
  <2>2. timer[d][0] # 0 /\ timer[d][0] \in Nat \cup {Off} /\ timer[d][2] \in Nat \cup {Off}
    BY Zenon, <1>1, <2>1, Slots, SlotTypes DEF Expired
  <2>3. timer'[d][0] = Down(timer[d][0]) /\ timer'[d][2] = Down(timer[d][2])
    BY Zenon, <1>1, <1>6, TickTimers, Slots
  <2> QED
    BY Zenon, <2>1, <2>2, <2>3, DownOrder
<1>7. ASSUME Server \/ Lose \/ UNCHANGED sdhcpVars PROVE UNCHANGED <<pc, timer>>
  BY Zenon, <1>7 DEF Server, Offer, Grant, Refuse, Note, Serve, Lose, local, sdhcpVars
<1> QED
  BY Zenon, <1>2, <1>3, <1>4, <1>5, <1>6, <1>7 DEF Next

(* A step out of Bound does not give the lease up.                            *)
LEMMA BoundExit ==
  TimerInv /\ RenewalFirst /\ [Next]_sdhcpVars
    => [\A c \in Clients : pc[c] = "Bound" => pc'[c] # "Selecting"]_sdhcpVars
<1> SUFFICES ASSUME TimerInv, RenewalFirst, Next, NEW d \in Clients, pc[d] = "Bound"
             PROVE  pc'[d] # "Selecting"
  BY Zenon
<1>1. TimerTypes /\ timer[d] \in Timers
  BY Zenon, OfClient
<1>2. ASSUME NEW c \in Clients, Packet(c) \/ Timeout(c) \/ Terminate(c), c # d
      PROVE  pc'[d] = pc[d]
  <2>1. \E label : Goto(c, label) \/ UNCHANGED pc
    BY Zenon, <1>2 DEF Packet, Timeout, Terminate, TakeOffer, TakeAck, TakeNak, IgnorePacket, Try,
         GotoInit, GotoBound, GotoRenewing, GotoRebinding, NextTry, Ignore
  <2> QED
    BY Zenon, <1>1, <1>2, <2>1 DEF Goto, TimerTypes
<1>3. ASSUME Packet(d) PROVE pc'[d] = pc[d]
  BY Zenon, <1>3 DEF Packet, TakeOffer, TakeAck, TakeNak, IgnorePacket, Ignore
<1>4. ASSUME Timeout(d) PROVE pc'[d] # "Selecting"
  <2>1. Returned(d) # 2
    <3>1. timer[d][Returned(d)] = 0
      BY Zenon, <1>4, ReturnedLast DEF Timeout
    <3>2. timer[d][2] # 0
      BY <1>1 DEF RenewalFirst, Timers, Off
    <3> QED
      BY Zenon, <3>1, <3>2
  <2> QED
    BY Zenon, <1>1, <1>4, <2>1 DEF Timeout, NoCase, GotoRenewing, GotoRebinding, Goto, TimerTypes
<1>5. ASSUME Terminate(d) PROVE pc'[d] # "Selecting"
  BY Zenon, <1>1, <1>5 DEF Terminate, Goto, TimerTypes
<1>6. ASSUME Server \/ Lose \/ Tick PROVE pc' = pc
  BY Zenon, <1>6 DEF Server, Offer, Grant, Refuse, Note, Serve, Lose, Tick, local
<1> QED
  BY Zenon, <1>2, <1>3, <1>4, <1>5, <1>6 DEF Next

(* "t1: enter renewing": when the servers send T1 < Lease and timers are seen    *)
(* on time, no client goes from Bound back to Selecting.                       *)
THEOREM RenewalTried ==
  ASSUME ~Optional, ~Late, T1 < Lease
  PROVE  Spec => TriesBeforeLosing
<1>1. Init => TimerInv /\ RenewalFirst
  <2> SUFFICES ASSUME Init PROVE TimerInv /\ RenewalFirst
    BY Zenon
  <2>1. \A c \in Clients : pc[c] = "Selecting"
    BY Zenon DEF Init
  <2> QED
    BY Zenon, <2>1, TimerInit DEF RenewalFirst
<1>2. TimerInv /\ [Next]_sdhcpVars => TimerInv'
  BY Zenon, TimerStep
<1>3. TimerInv /\ RenewalFirst /\ [Next]_sdhcpVars => RenewalFirst'
  BY Zenon, RenewalFirstStep
<1>4. TimerInv /\ RenewalFirst /\ [Next]_sdhcpVars
        => [\A c \in Clients : pc[c] = "Bound" => pc'[c] # "Selecting"]_sdhcpVars
  BY Zenon, BoundExit
<1> QED
  BY <1>1, <1>2, <1>3, <1>4, PTL DEF Spec, TriesBeforeLosing

-----------------------------------------------------------------------------
(* A segment with one client, where packets arrive before the next tick.       *)

Asking == {"Requesting", "Renewing", "Rebinding"}

(* The requests that a server will grant or refuse, and its answers to them    *)
Requests == {m \in toServer : m.type = "REQUEST" /\ m.sid = m.dst}

Answers == {m \in toClient : m.type \in {"ACK", "NAK"}}

CoverTypes ==
  /\ TimerTypes
  /\ client \in [Clients -> Addr \cup {None}]
  /\ lease \in [Addr -> [who : Clients \cup {None}, left : 0 .. Lease]]
  /\ \A m \in toServer : m.src \in Clients
  /\ \A m \in toClient : m.type = "OFFER" => m.yiaddr \in Addr
  /\ \A c \in Clients : timer[c][2] <= Lease

(* A request is answered, or lost, before there is another: what the client asks *)
(* for is what the answer to it is about.                                     *)
Exchange(c) ==
  /\ pc[c] \in {"Requesting"} \cup Holding => client[c] \in Addr
  /\ \A m \in toServer : m.type # "RELEASE"
  /\ Requests # {} \/ Answers # {} => pc[c] \in Asking
  /\ Requests = {} \/ Answers = {}
  /\ \A m \in Requests : m.addr = client[c] /\ \A n \in Requests : m = n
  /\ \A m \in Answers : /\ m.type = "ACK" => lease[client[c]] = [who |-> c, left |-> Lease]
                        /\ \A n \in Answers : m = n

(* Timers are seen before packets, and while the lease timer runs the server     *)
(* holds the address at least as long.                                        *)
Covered(c) ==
  /\ Expired(c) # {} => toServer = {} /\ toClient = {}
  /\ pc[c] \in Holding /\ timer[c][2] > 0 =>
       lease[client[c]].who = c /\ lease[client[c]].left >= timer[c][2]

CoverInv == CoverTypes /\ \A c \in Clients : pc[c] # "exit" => Exchange(c) /\ Covered(c)

(* An address nobody holds is a lease too.                                    *)
LEMMA FreeTyped == Free \in [who : Clients \cup {None}, left : 0 .. Lease]
<1>1. None \in Clients \cup {None}
  BY Zenon
<1>2. 0 \in 0 .. Lease
  BY SdhcpAssumption
<1> QED
  BY <1>1, <1>2, Zenon DEF Free

(* Timers none of which has expired                                           *)
Fit(tm) == tm \in Timers /\ tm[2] <= Lease /\ \A i \in 0 .. 2 : tm[i] # 0

(* Setting a timer keeps them so, ...                                         *)
LEMMA FitSet ==
  ASSUME NEW tm, Fit(tm), NEW n \in Nat \ {0}
  PROVE  Fit([tm EXCEPT ![0] = n]) /\ [tm EXCEPT ![0] = n][2] = tm[2]
BY DEF Fit, Timers

(* ... so does a new lease, ...                                               *)
LEMMA FitBound ==
  ASSUME NEW tm, Fit(tm), NEW t1 \in Nat, NEW t2 \in Nat
  PROVE  Fit(BoundTimers(tm, t1, t2)) /\ BoundTimers(tm, t1, t2)[2] = Lease
<1>1. tm \in Timers /\ Lease \in Nat \ {0}
  BY Zenon, SdhcpAssumption DEF Fit
<1>2. /\ BoundTimers(tm, t1, t2) \in Timers /\ BoundTimers(tm, t1, t2)[0] # 0
      /\ BoundTimers(tm, t1, t2)[1] # 0 /\ BoundTimers(tm, t1, t2)[2] = Lease
  <2>1. Armed(t1) # 0 /\ Armed(t2) # 0
    BY Zenon, ArmedIs
  <2> QED
    BY Zenon, <1>1, <2>1, BoundSlots
<1>3. \A i \in 0 .. 2 : i = 0 \/ i = 1 \/ i = 2
  OBVIOUS
<1>4. Lease <= Lease
  BY <1>1
<1> QED
  BY Zenon, <1>1, <1>2, <1>3, <1>4 DEF Fit

(* ... and reading the timers that have expired makes them so.                *)
LEMMA FitRead ==
  ASSUME CoverTypes, NEW c \in Clients
  PROVE  /\ Fit(Read(c)) /\ (Read(c)[2] > 0 => timer[c][2] = Read(c)[2])
         /\ Expired(c) = {} => Fit(timer[c])
<1>1. TimerTypes /\ timer[c] \in Timers /\ timer[c][2] <= Lease /\ Lease \in Nat
  BY Zenon, SdhcpAssumption DEF CoverTypes, TimerTypes
<1>2. Read(c) \in Timers /\ \A i \in 0 .. 2 :
        Read(c)[i] = IF timer[c][i] = 0 THEN Off ELSE timer[c][i]
  BY Zenon, <1>1, ReadTimers
<1>3. Off # 0 /\ Off <= Lease /\ ~(Off > 0)
  BY Zenon, <1>1, OffBelow
<1>4. Fit(Read(c)) /\ (Read(c)[2] > 0 => timer[c][2] = Read(c)[2])
  BY Zenon, <1>1, <1>2, <1>3, Slots DEF Fit
<1>5. Expired(c) = {} => Fit(timer[c])
  BY Zenon, <1>1 DEF Fit, Expired
<1> QED
  BY Zenon, <1>4, <1>5

(* The client goes to a label with timers that have not expired.               *)
Moves(c, label, tm) ==
  /\ label \in {"Selecting", "Requesting"} \cup Holding /\ Fit(tm)
  /\ Goto(c, label) /\ SetTimer(c, tm)

(* What it sends then; only a client that asks requests something.            *)
Sends(c, label) ==
  \/ toServer' = toServer
  \/ dhcpsend(c, "DISCOVER", Servers)
  \/ label \in Asking /\ \E dsts : dhcpsend(c, "REQUEST", dsts)

(* The packets a client sends are all alike, but for the server they go to.     *)
LEMMA Sent ==
  ASSUME NEW c, NEW type, NEW dsts, dhcpsend(c, type, dsts)
  PROVE  /\ toServer \subseteq toServer'
         /\ \A m \in toServer' \ toServer :
              /\ m.src = c /\ m.type = type /\ m.addr = client'[c] /\ m.sid = server'[c]
              /\ \A n \in toServer' \ toServer : m.dst = n.dst => m = n
<1>1. toServer' = toServer \cup ToServer(c, type, dsts)
  BY Zenon DEF dhcpsend
<1>2. \A m \in ToServer(c, type, dsts) : \E s \in dsts :
        m = [src |-> c, dst |-> s, type |-> type, addr |-> client'[c], sid |-> server'[c]]
  BY Zenon DEF ToServer
<1>3. \A m \in ToServer(c, type, dsts) :
        /\ m.src = c /\ m.type = type /\ m.addr = client'[c] /\ m.sid = server'[c]
        /\ m = [src |-> c, dst |-> m.dst, type |-> type, addr |-> client'[c], sid |-> server'[c]]
  BY <1>2
<1>4. \A m, n \in ToServer(c, type, dsts) : m.dst = n.dst => m = n
  BY <1>3, Zenon
<1> QED
  BY Zenon, <1>1, <1>3, <1>4

(* A client that had no request under way has at most the one it sends.        *)
LEMMA SentRequests ==
  ASSUME NEW c, NEW label, Requests = {}, Sends(c, label)
  PROVE  /\ \A m \in toServer' \ toServer : m.src = c /\ m.type # "RELEASE"
         /\ Requests' # {} => label \in Asking
         /\ \A m \in Requests' : m.addr = client'[c] /\ \A n \in Requests' : m = n
<1>1. CASE toServer' = toServer
  BY Zenon, <1>1 DEF Requests
<1>2. CASE dhcpsend(c, "DISCOVER", Servers)
  <2>1. \A m \in toServer' \ toServer : m.src = c /\ m.type = "DISCOVER"
    BY <1>2, Sent, Zenon
  <2>2. Requests' = {}
    BY Zenon, <2>1 DEF Requests
  <2> QED
    BY Zenon, <2>1, <2>2
<1>3. ASSUME label \in Asking, NEW dsts, dhcpsend(c, "REQUEST", dsts)
      PROVE  /\ \A m \in toServer' \ toServer : m.src = c /\ m.type # "RELEASE"
             /\ \A m \in Requests' : m.addr = client'[c] /\ \A n \in Requests' : m = n
  <2>1. \A m \in toServer' \ toServer :
              /\ m.src = c /\ m.type = "REQUEST" /\ m.addr = client'[c] /\ m.sid = server'[c]
              /\ \A n \in toServer' \ toServer : m.dst = n.dst => m = n
    BY <1>3, Sent, Zenon
  <2>2. \A m \in Requests' : m \in toServer' \ toServer /\ m.sid = m.dst
    BY Zenon DEF Requests
  <2> QED
    BY Zenon, <2>1, <2>2
<1> QED
  BY Zenon, <1>1, <1>2, <1>3 DEF Sends

(* A client that has nothing under way when it goes to a label, and whose lease   *)
(* there is covered, keeps the invariant.                                     *)
LEMMA MoveCovers ==
  ASSUME NEW c, Clients = {c}, CoverInv, NEW label, NEW tm, Moves(c, label, tm),
         Sends(c, label), Requests = {}, Answers' = {},
         t' \in [Clients -> Nat \ {0}], forked' \in [Clients -> BOOLEAN],
         client' \in [Clients -> Addr \cup {None}],
         UNCHANGED lease, toClient' \subseteq toClient, \A m \in toServer : m.type # "RELEASE",
         label \in {"Requesting"} \cup Holding => client'[c] \in Addr,
         label \in Holding /\ tm[2] > 0 =>
           lease[client'[c]].who = c /\ lease[client'[c]].left >= tm[2]
  PROVE  CoverInv'
<1>1. CoverTypes /\ TimerTypes
  BY Zenon DEF CoverInv, CoverTypes
<1>2. /\ pc' = [pc EXCEPT ![c] = label] /\ timer' = [timer EXCEPT ![c] = tm]
      /\ tm \in Timers /\ tm[2] <= Lease /\ \A i \in 0 .. 2 : tm[i] # 0
      /\ label \in {"Selecting", "Requesting"} \cup Holding
  BY Zenon DEF Moves, Goto, SetTimer, Fit
<1>3. pc'[c] = label /\ timer'[c] = tm
  BY <1>1, <1>2, Zenon DEF TimerTypes
<1>4. TimerTypes'
  BY <1>1, <1>2, Zenon DEF TimerTypes
<1>5. /\ \A m \in toServer' \ toServer : m.src = c /\ m.type # "RELEASE"
      /\ Requests' # {} => label \in Asking
      /\ \A m \in Requests' : m.addr = client'[c] /\ \A n \in Requests' : m = n
  BY SentRequests, Zenon
<1>6. CoverTypes'
  <2>1. \A m \in toServer' : m.src \in Clients
    BY Zenon, <1>1, <1>5 DEF CoverTypes
  <2>2. \A m \in toClient' : m.type = "OFFER" => m.yiaddr \in Addr
    BY Zenon, <1>1 DEF CoverTypes
  <2>3. \A d \in Clients : timer'[d][2] <= Lease
    BY Zenon, <1>2, <1>3
  <2>4. lease' \in [Addr -> [who : Clients \cup {None}, left : 0 .. Lease]]
    BY <1>1, Zenon DEF CoverTypes
  <2> QED
    BY <1>4, <2>1, <2>2, <2>3, <2>4, Zenon DEF CoverTypes
<1>7. Exchange(c)'
  <2>1. \A m \in toServer' : m.type # "RELEASE"
    BY Zenon, <1>5
  <2> QED
    BY Zenon, <1>3, <1>5, <2>1 DEF Exchange
<1>8. Covered(c)'
  <2>1. Expired(c)' = {}
    BY Zenon, <1>2, <1>3 DEF Expired
  <2> QED
    BY Zenon, <1>3, <2>1 DEF Covered
<1> QED
  BY Zenon, <1>6, <1>7, <1>8 DEF CoverInv

(* What the invariant says of the only client                                 *)
LEMMA OfOnly ==
  ASSUME NEW c, Clients = {c}, CoverInv
  PROVE  /\ c \in Clients /\ CoverTypes /\ TimerTypes /\ timer[c] \in Timers
         /\ client \in [Clients -> Addr \cup {None}]
         /\ t \in [Clients -> Nat \ {0}] /\ forked \in [Clients -> BOOLEAN]
         /\ pc[c] # "exit" => Exchange(c) /\ Covered(c)
<1>1. c \in Clients /\ CoverTypes /\ TimerTypes
  BY Zenon DEF CoverInv, CoverTypes
<1> QED
  BY <1>1, Zenon DEF CoverInv, CoverTypes, TimerTypes

(* A timeout: nothing is under way when it is seen.                           *)
LEMMA TimeoutCovers ==
  ASSUME NEW c, Clients = {c}, CoverInv, Timeout(c)
  PROVE  CoverInv'
<1>1. /\ c \in Clients /\ CoverTypes /\ TimerTypes /\ Exchange(c) /\ Covered(c)
      /\ pc[c] # "exit" /\ Expired(c) # {} /\ UNCHANGED <<toClient, lease>>
      /\ client \in [Clients -> Addr \cup {None}]
      /\ t \in [Clients -> Nat \ {0}] /\ forked \in [Clients -> BOOLEAN]
  BY OfOnly, Zenon DEF Timeout
<1>2. toServer = {} /\ toClient = {}
  BY Zenon, <1>1 DEF Covered
<1>3. Requests = {} /\ Answers' = {}
  BY Zenon, <1>1, <1>2 DEF Requests, Answers
<1>4. Fit(Read(c)) /\ Read(c) \in Timers /\ (Read(c)[2] > 0 => timer[c][2] = Read(c)[2])
  BY Zenon, <1>1, FitRead DEF Fit
<1>5. t[c] \in Nat \ {0}
  BY Zenon, <1>1
<1>6. \E label, tm : /\ Moves(c, label, tm) /\ Sends(c, label) /\ tm[2] = Read(c)[2]
                     /\ label \in Holding => pc[c] \in Holding
                     /\ label = "Requesting" => pc[c] = "Requesting"
                     /\ UNCHANGED <<client, server, forked>>
                     /\ t' \in [Clients -> Nat \ {0}]
  <2>1. CASE GotoInit(c, Read(c))
    <3>1. Discover \in Nat \ {0}
      BY Zenon, SdhcpAssumption
    <3>2. /\ Moves(c, "Selecting", [Read(c) EXCEPT ![0] = Discover])
          /\ [Read(c) EXCEPT ![0] = Discover][2] = Read(c)[2]
      BY Zenon, <1>4, <2>1, <3>1, FitSet DEF Moves, GotoInit
    <3>3. Sends(c, "Selecting") /\ UNCHANGED <<client, server, forked, t>>
      BY Zenon, <2>1 DEF Sends, GotoInit
    <3> QED
      BY Zenon, <1>1, <3>2, <3>3 DEF Holding
  <2>2. CASE pc[c] = "Requesting" /\ Try(c, 2 * t[c], Read(c)) /\ UNCHANGED <<client, server>>
    <3>1. 2 * t[c] \in Nat \ {0}
      BY Zenon, <1>5, OffBelow
    <3>2. /\ Moves(c, "Requesting", [Read(c) EXCEPT ![0] = 2 * t[c]])
          /\ [Read(c) EXCEPT ![0] = 2 * t[c]][2] = Read(c)[2]
      BY Zenon, <1>4, <2>2, <3>1, FitSet DEF Moves, Try
    <3>3. Sends(c, "Requesting") /\ UNCHANGED <<client, server, forked>>
      BY Zenon, <2>2 DEF Sends, Try, Asking
    <3>4. t' \in [Clients -> Nat \ {0}]
      BY <1>1, <2>2, <3>1, Zenon DEF Try
    <3> QED
      BY Zenon, <2>2, <3>2, <3>3, <3>4 DEF Holding
  <2>3. ASSUME NEW i \in {1, 2}, NEW label \in {"Renewing", "Rebinding"}, pc[c] \in Holding,
               NEW h \in calctimeout(Read(c), i), Goto(c, label),
               SetTimer(c, [Read(c) EXCEPT ![0] = h]),
               UNCHANGED <<client, server, t, forked>>, NEW dsts, dhcpsend(c, "REQUEST", dsts)
        PROVE  <1>6!:
    <3>1. h \in Nat \ {0}
      BY Zenon, <1>4, Retry, Slots
    <3>2. /\ Moves(c, label, [Read(c) EXCEPT ![0] = h])
          /\ [Read(c) EXCEPT ![0] = h][2] = Read(c)[2]
      BY Zenon, <1>4, <2>3, <3>1, FitSet DEF Moves, Holding
    <3>3. Sends(c, label)
      BY <2>3, Zenon DEF Sends, Asking
    <3> QED
      BY <1>1, <2>3, <3>2, <3>3, Zenon
  <2>4. CASE Ignore(c, Read(c))
    <3>1. Goto(c, pc[c]) /\ SetTimer(c, Read(c)) /\ Sends(c, pc[c])
          /\ UNCHANGED <<client, server, forked, t>>
      BY <1>1, <2>4, Zenon DEF Ignore, Goto, TimerTypes, Sends
    <3>2. pc[c] \in {"Selecting", "Requesting"} \cup Holding
      BY Zenon, <1>1 DEF TimerTypes
    <3>3. Moves(c, pc[c], Read(c))
      BY <1>4, <3>1, <3>2, Zenon DEF Moves
    <3> QED
      BY <1>1, <3>1, <3>3, Zenon
  <2>5. CASE GotoRenewing(c, Read(c)) /\ pc[c] \in Holding
    BY Zenon, <2>3, <2>5 DEF GotoRenewing
  <2>6. CASE GotoRebinding(c, Read(c)) /\ pc[c] \in Holding
    BY Zenon, <2>3, <2>6 DEF GotoRebinding
  <2> QED
    BY Zenon, <2>1, <2>2, <2>4, <2>5, <2>6 DEF Timeout, NextTry, Holding
<1>7. PICK label, tm : /\ Moves(c, label, tm) /\ Sends(c, label) /\ tm[2] = Read(c)[2]
                       /\ label \in Holding => pc[c] \in Holding
                       /\ label = "Requesting" => pc[c] = "Requesting"
                       /\ UNCHANGED <<client, server, forked>>
                       /\ t' \in [Clients -> Nat \ {0}]
  BY Zenon, <1>6
<1>8. label \in {"Requesting"} \cup Holding => client'[c] \in Addr
  BY Zenon, <1>1, <1>7 DEF Exchange
<1>9. label \in Holding /\ tm[2] > 0 =>
           lease[client'[c]].who = c /\ lease[client'[c]].left >= tm[2]
  BY Zenon, <1>1, <1>4, <1>7 DEF Covered
<1>10. UNCHANGED lease /\ toClient' \subseteq toClient /\ \A m \in toServer : m.type # "RELEASE"
  BY Zenon, <1>1, <1>2
<1> QED
  BY Zenon, <1>1, <1>3, <1>7, <1>8, <1>9, <1>10, MoveCovers

(* A packet: an answer is to the only request, and the client takes an offer only *)
(* when no request is under way.                                              *)
LEMMA PacketCovers ==
  ASSUME ~Late, NEW c, Clients = {c}, CoverInv, Packet(c)
  PROVE  CoverInv'
<1>1. PICK m \in toClient :
        TakeOffer(c, m) \/ TakeAck(c, m) \/ TakeNak(c, m) \/ IgnorePacket(c, m)
  BY Zenon DEF Packet
<1>2. pc[c] # "exit" /\ toClient' = toClient \ {m} /\ UNCHANGED lease
  BY Zenon, <1>1 DEF TakeOffer, TakeAck, TakeNak, IgnorePacket, Receive
<1>3. /\ c \in Clients /\ CoverTypes /\ TimerTypes /\ Exchange(c) /\ Covered(c)
      /\ client \in [Clients -> Addr \cup {None}]
      /\ t \in [Clients -> Nat \ {0}] /\ forked \in [Clients -> BOOLEAN]
  BY <1>2, OfOnly, Zenon
<1>4. Expired(c) = {} /\ Fit(timer[c])
  BY Zenon, <1>3, FitRead DEF Covered
<1>5. toClient' \subseteq toClient /\ \A n \in toServer : n.type # "RELEASE"
  BY Zenon, <1>2, <1>3 DEF Exchange
<1>6. CASE TakeOffer(c, m)
  <2>1. FirstTry \in Nat \ {0} /\ m.yiaddr \in Addr
    BY Zenon, <1>3, <1>6, SdhcpAssumption DEF TakeOffer, CoverTypes
  <2>2. Requests = {} /\ Answers' = {}
    BY Zenon, <1>2, <1>3, <1>6 DEF TakeOffer, Exchange, Asking, Answers
  <2>3. /\ client' \in [Clients -> Addr \cup {None}] /\ client'[c] = m.yiaddr
        /\ Try(c, FirstTry, timer[c]) /\ m.type = "OFFER"
    BY Zenon, <1>3, <1>6, <2>1 DEF TakeOffer
  <2>4. Moves(c, "Requesting", [timer[c] EXCEPT ![0] = FirstTry])
    BY Zenon, <1>4, <2>1, <2>3, FitSet DEF Moves, Try
  <2>5. Sends(c, "Requesting") /\ forked' = forked /\ t' \in [Clients -> Nat \ {0}]
    BY Zenon, <1>3, <2>1, <2>3 DEF Sends, Try, Asking
  <2>6. "Requesting" \notin Holding
    BY Zenon DEF Holding
  <2> QED
    BY Zenon, <1>2, <1>3, <1>5, <2>1, <2>2, <2>3, <2>4, <2>5, <2>6, MoveCovers
<1>7. CASE TakeAck(c, m) \/ TakeNak(c, m)
  <2>1. m \in Answers /\ pc[c] \in Asking /\ client[c] \in Addr
    BY Zenon, <1>1, <1>3, <1>7 DEF TakeAck, TakeNak, Answers, Asking, Exchange, Holding
  <2>2. Requests = {} /\ Answers' = {}
    BY Zenon, <1>2, <1>3, <2>1 DEF Exchange, Answers
  <2>3. CASE TakeNak(c, m)
    <3>1. Discover \in Nat \ {0} /\ GotoInit(c, timer[c])
      BY Zenon, <2>3, SdhcpAssumption DEF TakeNak
    <3>2. Moves(c, "Selecting", [timer[c] EXCEPT ![0] = Discover])
      BY Zenon, <1>4, <3>1, FitSet DEF Moves, GotoInit
    <3>3. Sends(c, "Selecting") /\ UNCHANGED <<client, server, forked, t>>
      BY Zenon, <3>1 DEF Sends, GotoInit
    <3>4. "Selecting" \notin {"Requesting"} \cup Holding
      BY Zenon DEF Holding
    <3> QED
      BY Zenon, <1>2, <1>3, <1>5, <2>2, <3>2, <3>3, <3>4, MoveCovers
  <2>4. CASE TakeAck(c, m)
    <3>1. lease[client[c]] = [who |-> c, left |-> Lease]
      BY Zenon, <1>3, <2>1, <2>4 DEF Exchange, TakeAck
    <3>2. PICK t1 \in Nat, t2 \in Nat :
            /\ Goto(c, "Bound") /\ SetTimer(c, BoundTimers(timer[c], t1, t2))
            /\ forked' = [forked EXCEPT ![c] = TRUE]
            /\ UNCHANGED <<client, server, t, toServer>>
      BY Zenon, <2>4, SdhcpAssumption DEF TakeAck, GotoBound
    <3>3. /\ Moves(c, "Bound", BoundTimers(timer[c], t1, t2))
          /\ BoundTimers(timer[c], t1, t2)[2] = Lease
      BY Zenon, <1>4, <3>2, FitBound DEF Moves, Holding
    <3>4. Sends(c, "Bound") /\ forked' \in [Clients -> BOOLEAN]
      BY Zenon, <1>3, <3>2 DEF Sends
    <3>5. lease[client[c]].who = c /\ lease[client[c]].left = Lease /\ Lease >= Lease
      <4>1. /\ [who |-> c, left |-> Lease].who = c /\ [who |-> c, left |-> Lease].left = Lease
            /\ Lease \in Nat
        BY Zenon, SdhcpAssumption
      <4> QED
        BY Zenon, <3>1, <4>1, OffBelow
    <3> QED
      BY Zenon, <1>2, <1>3, <1>5, <2>1, <2>2, <3>2, <3>3, <3>4, <3>5, MoveCovers
  <2> QED
    BY Zenon, <1>7, <2>3, <2>4
<1>8. CASE IgnorePacket(c, m)
  <2>1. timer' = timer /\ UNCHANGED <<pc, client, server, t, forked, toServer>>
    BY Zenon, <1>3, <1>8 DEF IgnorePacket, Ignore, SetTimer, TimerTypes
  <2>2. Requests' = Requests /\ Answers' \subseteq Answers /\ Expired(c)' = {}
    BY Zenon, <1>2, <1>4, <2>1 DEF Requests, Answers, Expired
  <2>3. CoverTypes'
    BY <1>2, <1>3, <1>5, <2>1, Zenon DEF CoverTypes, TimerTypes
  <2>4. Exchange(c)'
    BY Zenon, <1>2, <1>3, <2>1, <2>2 DEF Exchange
  <2>5. Covered(c)'
    BY Zenon, <1>2, <1>3, <2>1, <2>2 DEF Covered
  <2> QED
    BY Zenon, <2>3, <2>4, <2>5 DEF CoverInv
<1> QED
  BY Zenon, <1>1, <1>6, <1>7, <1>8

(* A client that exits leaves the types alone.                                *)
LEMMA TerminateCovers ==
  ASSUME NEW c, Clients = {c}, CoverInv, Terminate(c)
  PROVE  CoverInv'
<1>1. c \in Clients /\ CoverTypes /\ TimerTypes
  BY OfOnly, Zenon
<1>2. /\ pc' = [pc EXCEPT ![c] = "exit"] /\ dhcpsend(c, "RELEASE", Unicast(c))
      /\ UNCHANGED <<client, server, t, timer, forked, toClient, lease>>
  BY Zenon DEF Terminate, Goto
<1>3. TimerTypes' /\ pc'[c] = "exit"
  BY <1>1, <1>2, Zenon DEF TimerTypes
<1>4. \A m \in toServer' \ toServer : m.src = c
  BY <1>2, Sent, Zenon
<1>5. \A m \in toServer' : m.src \in Clients
  BY Zenon, <1>1, <1>4 DEF CoverTypes
<1>6. CoverTypes'
  BY <1>1, <1>2, <1>3, <1>5, Zenon DEF CoverTypes
<1> QED
  BY Zenon, <1>3, <1>6 DEF CoverInv

(* The answer of a server to the only client is one packet.                     *)
LEMMA Answered ==
  ASSUME NEW c, Clients = {c}, NEW type, NEW a, NEW s, Answer(type, a, s)
  PROVE  \A n \in toClient' : \/ n \in toClient
                              \/ /\ n = [dst |-> c, type |-> type, yiaddr |-> a, sid |-> s]
                                 /\ n.type = type /\ n.yiaddr = a
BY DEF Answer

(* A server takes a packet: the client's request is answered once.             *)
LEMMA ServerCovers ==
  ASSUME ~Late, NEW c, Clients = {c}, CoverInv, Server
  PROVE  CoverInv'
<1>1. PICK m \in toServer : Offer(m) \/ Grant(m) \/ Refuse(m) \/ Note(m)
  BY Zenon DEF Server
<1>2. /\ toServer' = toServer \ {m} /\ UNCHANGED <<pc, client, server, t, timer, forked>>
  BY Zenon, <1>1 DEF Offer, Grant, Refuse, Note, Serve, local
<1>3. /\ c \in Clients /\ CoverTypes /\ TimerTypes
      /\ pc[c] # "exit" => Exchange(c) /\ Covered(c)
      /\ lease \in [Addr -> [who : Clients \cup {None}, left : 0 .. Lease]]
  BY OfOnly, Zenon DEF CoverTypes
<1>4. /\ TimerTypes' /\ \A d \in Clients : timer'[d][2] <= Lease
      /\ client' \in [Clients -> Addr \cup {None}]
      /\ \A n \in toServer' : n.src \in Clients
  BY <1>2, <1>3, Zenon DEF CoverTypes, TimerTypes
<1>5. Lease \in Nat \ {0} /\ m.src = c
  BY Zenon, <1>3, SdhcpAssumption DEF CoverTypes
<1>6. \A d \in Clients : Expired(d)' = Expired(d)
  BY Zenon, <1>2 DEF Expired
<1>7. pc[c] # "exit" => Expired(c)' = {}
  BY Zenon, <1>1, <1>3, <1>6 DEF Covered
<1>8. CASE Offer(m)
  <2>1. /\ lease' = lease /\ m.type = "DISCOVER"
        /\ \A n \in toClient' : n \in toClient \/ (n.type = "OFFER" /\ n.yiaddr \in Addr)
    <3>1. CASE UNCHANGED toClient
      BY Zenon, <1>8, <3>1 DEF Offer
    <3>2. ASSUME NEW a \in Available(m.src, m.dst), Answer("OFFER", a, m.dst)
          PROVE  \A n \in toClient' : n \in toClient \/ (n.type = "OFFER" /\ n.yiaddr \in Addr)
      <4>1. a \in Addr
        BY Zenon DEF Available
      <4> QED
        BY <3>2, <4>1, Answered, Zenon
    <3> QED
      BY Zenon, <1>8, <3>1, <3>2 DEF Offer
  <2>2. Requests' = Requests /\ Answers' \subseteq Answers
    BY Zenon, <1>2, <2>1 DEF Requests, Answers
  <2>3. CoverTypes'
    <3>1. \A n \in toClient' : n.type = "OFFER" => n.yiaddr \in Addr
      BY Zenon, <1>3, <2>1 DEF CoverTypes
    <3> QED
      BY <1>3, <1>4, <2>1, <3>1, Zenon DEF CoverTypes
  <2>4. pc[c] # "exit" => Exchange(c)'
    BY Zenon, <1>2, <1>3, <2>1, <2>2 DEF Exchange
  <2>5. pc[c] # "exit" => Covered(c)'
    BY Zenon, <1>2, <1>3, <1>7, <2>1 DEF Covered
  <2> QED
    BY Zenon, <1>2, <2>3, <2>4, <2>5 DEF CoverInv
<1>9. CASE Grant(m) \/ Refuse(m)
  <2>1. m \in Requests
    BY Zenon, <1>1, <1>9 DEF Grant, Refuse, Requests
  <2>2. \E type, a : /\ Answer(type, a, m.dst)
                     /\ (type = "ACK" /\ Grant(m)) \/ (type = "NAK" /\ Refuse(m))
    BY Zenon, <1>9 DEF Grant, Refuse
  <2>3. PICK type, a : /\ Answer(type, a, m.dst)
                       /\ (type = "ACK" /\ Grant(m)) \/ (type = "NAK" /\ Refuse(m))
    BY Zenon, <2>2
  <2>4. type \in {"ACK", "NAK"} /\ (type = "ACK" => Grant(m)) /\ (type = "NAK" => Refuse(m))
    BY Zenon, <2>3
  <2>5. \A n \in toClient' : \/ n \in toClient
                             \/ /\ n = [dst |-> c, type |-> type, yiaddr |-> a, sid |-> m.dst]
                                /\ n.type = type
    <3>1. Answer(type, a, m.dst)
      BY Zenon, <2>3
    <3> QED
      BY <3>1, Answered
  <2>6. /\ lease' \in [Addr -> [who : Clients \cup {None}, left : 0 .. Lease]]
        /\ type = "ACK" => lease' = [lease EXCEPT ![m.addr] = [who |-> c, left |-> Lease]]
        /\ type = "NAK" => lease' = lease
    <3>1. [who |-> c, left |-> Lease] \in [who : Clients \cup {None}, left : 0 .. Lease]
      BY Zenon, <1>3, <1>5, SdhcpAssumption, OffBelow
    <3>2. CASE type = "ACK"
      <4>1. lease' = [lease EXCEPT ![m.addr] = [who |-> c, left |-> Lease]]
        BY Zenon, <1>5, <2>4, <3>2 DEF Grant
      <4> QED
        BY Zenon, <1>3, <3>1, <3>2, <4>1
    <3>3. CASE type = "NAK"
      BY Zenon, <1>3, <2>4, <3>3 DEF Refuse
    <3> QED
      BY Zenon, <2>4, <3>2, <3>3
  <2>7. CoverTypes'
    <3>1. \A n \in toClient' : n.type = "OFFER" => n.yiaddr \in Addr
      BY Zenon, <1>3, <2>4, <2>5 DEF CoverTypes
    <3> QED
      BY <1>4, <2>6, <3>1, Zenon DEF CoverTypes
  <2>8. ASSUME pc[c] # "exit" PROVE Exchange(c)' /\ Covered(c)'
    <3>1. /\ Exchange(c) /\ Covered(c) /\ pc[c] \in Asking /\ m.addr = client[c]
          /\ client[c] \in Addr /\ Answers = {}
      BY Zenon, <1>3, <2>1, <2>8 DEF Exchange, Asking, Holding
    <3>2. Requests' = {} /\ \A n \in toServer' : n.type # "RELEASE"
      BY Zenon, <1>2, <2>1, <3>1 DEF Exchange, Requests
    <3>3. \A n \in Answers' : /\ n = [dst |-> c, type |-> type, yiaddr |-> a, sid |-> m.dst]
                              /\ n.type = type
      BY Zenon, <2>5, <3>1 DEF Answers
    <3>4. type = "ACK" => lease'[client[c]] = [who |-> c, left |-> Lease]
      BY Zenon, <1>3, <2>6, <3>1
    <3>5. pc' = pc /\ client' = client
      BY Zenon, <1>2
    <3>6. Exchange(c)'
      BY Zenon, <3>1, <3>2, <3>3, <3>4, <3>5 DEF Exchange
    <3>7. Covered(c)'
      <4>1. CASE type = "NAK"
        BY Zenon, <1>2, <1>7, <2>6, <2>8, <3>1, <4>1 DEF Covered
      <4>2. CASE type = "ACK"
        <5>1. lease'[client'[c]].who = c /\ lease'[client'[c]].left = Lease
          <6>1. [who |-> c, left |-> Lease].who = c /\ [who |-> c, left |-> Lease].left = Lease
            BY Zenon
          <6> QED
            BY Zenon, <3>4, <3>5, <4>2, <6>1
        <5>2. timer'[c][2] <= Lease /\ timer'[c][2] \in Nat \cup {Off}
          BY Zenon, <1>3, <1>4, SlotTypes DEF TimerTypes
        <5>3. Lease >= timer'[c][2]
          BY Zenon, <1>5, <5>2 DEF Off
        <5> QED
          BY <1>7, <2>8, <5>1, <5>3, Zenon DEF Covered
      <4> QED
        BY Zenon, <2>4, <4>1, <4>2
    <3> QED
      BY Zenon, <3>6, <3>7
  <2> QED
    BY Zenon, <1>2, <2>7, <2>8 DEF CoverInv
<1>10. CASE Note(m)
  <2>1. toClient' = toClient /\ Answers' = Answers /\ Requests' \subseteq Requests
    BY Zenon, <1>2, <1>10 DEF Note, Answers, Requests
  <2>2. lease' \in [Addr -> [who : Clients \cup {None}, left : 0 .. Lease]]
    <3>1. Free \in [who : Clients \cup {None}, left : 0 .. Lease]
      BY <1>5 DEF Free
    <3> QED
      BY Zenon, <1>3, <1>10, <3>1 DEF Note
  <2>3. CoverTypes'
    BY <1>3, <1>4, <2>1, <2>2, Zenon DEF CoverTypes
  <2>4. ASSUME pc[c] # "exit" PROVE Exchange(c)' /\ Covered(c)'
    <3>1. Exchange(c) /\ Covered(c) /\ m.type # "RELEASE"
      BY Zenon, <1>3, <2>4 DEF Exchange
    <3>2. lease' = lease
      BY Zenon, <1>10, <3>1 DEF Note
    <3>3. Exchange(c)'
      BY Zenon, <1>2, <2>1, <3>1, <3>2 DEF Exchange
    <3>4. Covered(c)'
      BY Zenon, <1>2, <1>7, <2>4, <3>1, <3>2 DEF Covered
    <3> QED
      BY <3>3, <3>4
  <2> QED
    BY <1>2, <2>3, <2>4 DEF CoverInv
<1> QED
  BY Zenon, <1>1, <1>8, <1>9, <1>10

(* A packet that is lost is not answered.                                      *)
LEMMA LoseCovers ==
  ASSUME NEW c, Clients = {c}, CoverInv, Lose
  PROVE  CoverInv'
<1>1. /\ c \in Clients /\ CoverTypes /\ TimerTypes
      /\ pc[c] # "exit" => Exchange(c) /\ Covered(c)
  BY OfOnly, Zenon
<1>2. /\ toServer' \subseteq toServer /\ toClient' \subseteq toClient
      /\ UNCHANGED <<pc, client, server, t, timer, forked, lease>>
  BY Zenon DEF Lose, local
<1>3. /\ Requests' \subseteq Requests /\ Answers' \subseteq Answers
      /\ Expired(c)' = Expired(c)
  BY Zenon, <1>2 DEF Requests, Answers, Expired
<1>4. CoverTypes'
  BY <1>1, <1>2, Zenon DEF CoverTypes, TimerTypes
<1>5. pc[c] # "exit" => Exchange(c)'
  BY Zenon, <1>1, <1>2, <1>3 DEF Exchange
<1>6. pc[c] # "exit" => Covered(c)'
  BY Zenon, <1>1, <1>2, <1>3 DEF Covered
<1> QED
  BY Zenon, <1>2, <1>4, <1>5, <1>6 DEF CoverInv

(* A tick takes as much from the server's lease as from the client's timer.     *)
LEMMA TickCovers ==
  ASSUME ~Late, NEW c, Clients = {c}, CoverInv, Tick
  PROVE  CoverInv'
<1>1. /\ c \in Clients /\ CoverTypes /\ TimerTypes
      /\ pc[c] # "exit" => Exchange(c) /\ Covered(c)
      /\ lease \in [Addr -> [who : Clients \cup {None}, left : 0 .. Lease]]
  BY OfOnly, Zenon DEF CoverTypes
<1>2. /\ toServer = {} /\ toClient = {}
      /\ UNCHANGED <<pc, client, server, t, forked, toServer, toClient>>
  BY Zenon DEF Tick
<1>3. /\ timer' \in [Clients -> Timers]
      /\ \A i \in 0 .. 2 : timer'[c][i] = Down(timer[c][i])
  BY Zenon, <1>1, TickTimers
<1>4. timer[c][2] \in Nat \cup {Off} /\ timer[c][2] <= Lease /\ Lease \in Nat \ {0}
  BY Zenon, <1>1, SdhcpAssumption, SlotTypes DEF CoverTypes, TimerTypes
<1>5. /\ timer'[c][2] <= Lease
      /\ timer'[c][2] > 0 => timer[c][2] > 1 /\ timer'[c][2] = timer[c][2] - 1
  BY <1>3, <1>4 DEF Down, Off
<1>6. \A a \in Addr : /\ lease'[a] = IF lease[a].left <= 1 THEN Free
                                      ELSE [lease[a] EXCEPT !.left = @ - 1]
                      /\ lease[a].left \in 0 .. Lease /\ lease[a].who \in Clients \cup {None}
  BY Zenon, <1>1 DEF Tick
<1>7. lease' \in [Addr -> [who : Clients \cup {None}, left : 0 .. Lease]]
  <2>1. Free \in [who : Clients \cup {None}, left : 0 .. Lease]
    BY Zenon, FreeTyped
  <2>2. \A l \in [who : Clients \cup {None}, left : 0 .. Lease] : l.left > 1 =>
          [l EXCEPT !.left = @ - 1] \in [who : Clients \cup {None}, left : 0 .. Lease]
    BY <1>4
  <2> QED
    BY <1>1, <1>4, <2>1, <2>2 DEF Tick
<1>8. CoverTypes'
  <2>1. TimerTypes' /\ \A d \in Clients : timer'[d][2] <= Lease
    BY Zenon, <1>1, <1>2, <1>3, <1>5 DEF TimerTypes
  <2> QED
    BY <1>1, <1>2, <1>7, <2>1, Zenon DEF CoverTypes
<1>9. ASSUME pc[c] # "exit" PROVE Exchange(c)' /\ Covered(c)'
  <2>1. Exchange(c) /\ Covered(c) /\ Requests' = {} /\ Answers' = {}
    BY Zenon, <1>1, <1>2, <1>9 DEF Requests, Answers
  <2>2. Exchange(c)'
    BY Zenon, <1>2, <2>1 DEF Exchange
  <2>3. ASSUME pc[c] \in Holding, timer'[c][2] > 0
        PROVE  lease'[client[c]].who = c /\ lease'[client[c]].left >= timer'[c][2]
    <3>1. /\ client[c] \in Addr /\ lease[client[c]].who = c
          /\ lease[client[c]].left >= timer[c][2] /\ timer[c][2] > 1
          /\ timer'[c][2] = timer[c][2] - 1
      <4>1. timer[c][2] > 1 /\ timer'[c][2] = timer[c][2] - 1
        BY Zenon, <1>5, <2>3
      <4>2. timer[c][2] > 0
        BY <1>4, <4>1 DEF Off
      <4>3. client[c] \in Addr
        BY <2>1, <2>3, Zenon DEF Exchange
      <4>4. lease[client[c]].who = c /\ lease[client[c]].left >= timer[c][2]
        BY <2>1, <2>3, <4>2, Zenon DEF Covered
      <4> QED
        BY <4>1, <4>3, <4>4, Zenon
    <3>2. lease[client[c]] \in [who : Clients \cup {None}, left : 0 .. Lease]
      BY Zenon, <1>1, <3>1
    <3>3. lease'[client[c]] = [lease[client[c]] EXCEPT !.left = @ - 1]
      BY <1>4, <1>6, <3>1, <3>2 DEF Off
    <3> QED
      BY <1>4, <3>1, <3>2, <3>3 DEF Off
  <2> QED
    BY Zenon, <1>2, <2>2, <2>3 DEF Covered
<1> QED
  BY Zenon, <1>2, <1>8, <1>9 DEF CoverInv

(* As long as the client's lease timer runs, the server holds the address for it *)
(* and at least as long: on a segment with one client, where packets arrive or    *)
(* are lost before the next tick, for every server, every length of the timeouts   *)
(* and every loss.                                                           *)
THEOREM LeaseHeld ==
  ASSUME ~Late, NEW c, Clients = {c}
  PROVE  Spec => []LeaseCovered
<1>1. Init => CoverInv
  <2> SUFFICES ASSUME Init PROVE CoverInv
    BY Zenon
  <2>1. TimerTypes
    BY Zenon, TimerInit DEF TimerInv
  <2>2. Lease \in Nat \ {0} /\ Discover \in Nat \ {0}
    BY Zenon, SdhcpAssumption
  <2>3. /\ pc[c] = "Selecting" /\ timer[c][0] = Discover /\ timer[c][1] = Off
        /\ timer[c][2] = Off
    <3>1. 0 \in 0 .. 2 /\ 1 \in 0 .. 2 /\ 2 \in 0 .. 2 /\ 1 # 0 /\ 2 # 0
      OBVIOUS
    <3>2. /\ timer[c] = [i \in 0 .. 2 |-> IF i = 0 THEN Discover ELSE Off]
          /\ pc[c] = "Selecting"
      BY Zenon DEF Init
    <3> QED
      BY Zenon, <3>1, <3>2
  <2>8. toClient = {} /\ \A m \in toServer : m.src \in Clients /\ m.type = "DISCOVER"
    BY Zenon, InitMessages
  <2>4. CoverTypes
    <3>1. lease \in [Addr -> [who : Clients \cup {None}, left : 0 .. Lease]]
      <4>1. lease = [a \in Addr |-> Free]
        BY Zenon DEF Init
      <4> QED
        BY <4>1, FreeTyped, Zenon
    <3>2. client \in [Clients -> Addr \cup {None}]
      BY Zenon DEF Init
    <3>3. \A d \in Clients : timer[d][2] <= Lease
      BY Zenon, <2>2, <2>3, OffBelow
    <3>4. (\A m \in toServer : m.src \in Clients)
          /\ \A m \in toClient : m.type = "OFFER" => m.yiaddr \in Addr
      BY Zenon, <2>8
    <3> QED
      BY Zenon, <2>1, <3>1, <3>2, <3>3, <3>4 DEF CoverTypes
  <2>5. Requests = {} /\ Answers = {} /\ \A m \in toServer : m.type # "RELEASE"
    BY Zenon, <2>8 DEF Requests, Answers
  <2>6. Exchange(c)
    BY Zenon, <2>3, <2>5 DEF Exchange, Holding
  <2>7. Covered(c)
    <3>1. \A i \in 0 .. 2 : i = 0 \/ i = 1 \/ i = 2
      OBVIOUS
    <3>2. Expired(c) = {}
      BY Zenon, <2>2, <2>3, <3>1, OffBelow DEF Expired
    <3> QED
      BY Zenon, <2>3, <3>2, OffBelow DEF Covered
  <2> QED
    BY Zenon, <2>4, <2>6, <2>7 DEF CoverInv
<1>2. CoverInv /\ [Next]_sdhcpVars => CoverInv'
  <2> SUFFICES ASSUME CoverInv, [Next]_sdhcpVars PROVE CoverInv'
    BY Zenon
  <2>1. CASE UNCHANGED sdhcpVars
    <3>1. /\ pc' = pc /\ client' = client /\ t' = t /\ timer' = timer /\ forked' = forked
          /\ toServer' = toServer /\ toClient' = toClient /\ lease' = lease
      BY Zenon, <2>1 DEF sdhcpVars, local
    <3>2. CoverTypes'
      <4>1. CoverTypes
        BY Zenon DEF CoverInv
      <4> QED
        BY <3>1, <4>1, Zenon DEF CoverTypes, TimerTypes
    <3>3. ASSUME NEW d \in Clients, pc'[d] # "exit" PROVE Exchange(d)' /\ Covered(d)'
      <4>1. Exchange(d) /\ Covered(d)
        BY Zenon, <3>1, <3>3 DEF CoverInv
      <4>2. Requests' = Requests /\ Answers' = Answers
        BY Zenon, <3>1 DEF Requests, Answers
      <4>3. Expired(d)' = Expired(d)
        BY Zenon, <3>1 DEF Expired
      <4>4. Exchange(d)'
        BY <3>1, <4>1, <4>2, Zenon DEF Exchange
      <4>5. Covered(d)'
        BY <3>1, <4>1, <4>3, Zenon DEF Covered
      <4> QED
        BY Zenon, <4>4, <4>5
    <3> QED
      BY <3>2, <3>3, Zenon DEF CoverInv
  <2>2. CASE Next
    BY Zenon, <2>2, PacketCovers, TimeoutCovers, TerminateCovers, ServerCovers, LoseCovers, TickCovers
       DEF Next
  <2> QED
    BY Zenon, <2>1, <2>2
<1>3. CoverInv => LeaseCovered
  BY Zenon DEF CoverInv, Covered, LeaseCovered, Holding
<1> QED
  BY <1>1, <1>2, <1>3, PTL DEF Spec

-----------------------------------------------------------------------------
(* xargs: what fits on a command line.                                       *)

INSTANCE FiniteSetTheorems

(* The positions of a command line at which another line of the input starts  *)
Breaks(c) == {j \in 2 .. Len(c) : input[c[j]].nl}

(* An argument that starts a line, and is not the first, makes one line more.  *)
LEMMA LinesAppend ==
  ASSUME NEW c \in Seq(Nat), NEW k \in Nat
  PROVE  /\ LinesOf(c) \in Nat \ {0} /\ LinesOf(<<>>) = 1
         /\ LinesOf(Append(c, k)) =
              IF c # <<>> /\ input[k].nl THEN LinesOf(c) + 1 ELSE LinesOf(c)
<1> DEFINE n == Len(c)
<1>1. /\ Len(Append(c, k)) = n + 1 /\ Append(c, k)[n + 1] = k /\ n \in Nat
      /\ \A j \in 1 .. n : Append(c, k)[j] = c[j]
  BY Zenon, Longer
<1>2. c # <<>> <=> n > 0
  OBVIOUS
<1>3. /\ n + 1 \notin 2 .. n
      /\ \A j : j \in 2 .. n + 1 <=> j \in 2 .. n \/ (j = n + 1 /\ n > 0)
      /\ \A j \in 2 .. n : Append(c, k)[j] = c[j]
  BY Zenon, <1>1, AfterFirst
<1>4. \A j : j \in Breaks(Append(c, k)) <=>
              j \in Breaks(c) \/ (j = n + 1 /\ n > 0 /\ input[k].nl)
  <2>1. \A j : j \in Breaks(Append(c, k)) <=> j \in 2 .. n + 1 /\ input[Append(c, k)[j]].nl
    BY Zenon, <1>1 DEF Breaks
  <2>2. \A j : j \in Breaks(c) <=> j \in 2 .. n /\ input[c[j]].nl
    BY Zenon DEF Breaks
  <2> QED
    BY Zenon, <1>1, <1>3, <2>1, <2>2
<1>5. Breaks(Append(c, k)) =
        IF c # <<>> /\ input[k].nl THEN Breaks(c) \cup {n + 1} ELSE Breaks(c)
  BY Zenon, <1>2, <1>4
<1>6. IsFiniteSet(Breaks(c)) /\ Cardinality(Breaks(c)) \in Nat
  <2>1. IsFiniteSet(2 .. n)
    BY <1>1, FS_Interval
  <2>2. Breaks(c) \subseteq 2 .. n
    BY Zenon DEF Breaks
  <2> QED
    BY Zenon, <2>1, <2>2, FS_Subset, FS_CardinalityType
<1>7. Cardinality(Breaks(c) \cup {n + 1}) = Cardinality(Breaks(c)) + 1
  <2>1. n + 1 \notin Breaks(c)
    BY Zenon, <1>3 DEF Breaks
  <2> QED
    BY Zenon, <1>6, <2>1, FS_AddElement
<1>8. LinesOf(c) = 1 + Cardinality(Breaks(c))
      /\ LinesOf(Append(c, k)) = 1 + Cardinality(Breaks(Append(c, k)))
  BY Zenon DEF LinesOf, Breaks
<1>9. LinesOf(<<>>) = 1
  <2>1. {j \in 2 .. Len(<<>>) : input[<<>>[j]].nl} = {}
    OBVIOUS
  <2>2. 1 + Cardinality({}) = 1
    BY FS_EmptySet
  <2> QED
    BY Zenon, <2>1, <2>2 DEF LinesOf
<1>10. LinesOf(c) \in Nat \ {0} /\ 1 + (Cardinality(Breaks(c)) + 1) = LinesOf(c) + 1
  <2>1. LET x == Cardinality(Breaks(c)) IN 1 + x \in Nat \ {0} /\ 1 + (x + 1) = (1 + x) + 1
    BY Zenon, <1>6, AfterFirst
  <2> QED
    BY Zenon, <1>8, <2>1
<1> QED
  BY Zenon, <1>5, <1>7, <1>8, <1>9, <1>10

(* What a command line that is not filled any more cannot break               *)
LEMMA FillingElsewhere ==
  ASSUME stage' \notin {"fill", "line"}
  PROVE  Filling'
BY Zenon DEF Filling

(* Another turn of the outer loop starts an empty line with linecount 0       *)
LEMMA FillingAgain ==
  ASSUME Again
  PROVE  Filling'
BY Zenon DEF Again, Filling

(* The end of the input leaves the line as it is.                             *)
LEMMA FillingPopEnd ==
  ASSUME XargsInv, Filling, PopEnd
  PROVE  Filling'
<1>1. /\ stage = "fill" /\ stage' = "line" /\ ~leftover /\ ~leftover'
      /\ UNCHANGED <<input, opt, cmd, argsz, linecount>>
  BY Zenon DEF PopEnd
<1>2. LinesOf(cmd)' = LinesOf(cmd)
  BY Zenon, <1>1 DEF LinesOf
<1> QED
  BY Zenon, <1>1, <1>2 DEF Filling

(* An argument kept for the next command is counted in linecount already.     *)
LEMMA FillingKeep ==
  ASSUME XargsInv, Filling, Keep
  PROVE  Filling'
<1>1. PICK k \in 1 .. Len(input) :
        /\ stage = "fill" /\ stage' = "line" /\ arg' = k /\ linecount' = Lines(k) /\ leftover'
        /\ UNCHANGED <<input, opt, cmd, argsz>>
  BY Zenon DEF Keep
<1>2. LinesOf(cmd)' = LinesOf(cmd)
  BY Zenon, <1>1 DEF LinesOf
<1>3. cmd \in Seq(Nat)
  BY Zenon DEF XargsInv, XargsTypeOK
<1>4. LinesOf(cmd) \in Nat \ {0}
  BY Zenon, <1>3, LinesAppend
<1>5. cmd # <<>> => linecount = LinesOf(cmd) /\ ~leftover
  BY Zenon, <1>1 DEF Filling
<1>6. cmd # <<>> => Lines(k) = IF input[k].nl THEN LinesOf(cmd) + 1 ELSE LinesOf(cmd)
  BY Zenon, <1>4, <1>5 DEF Lines
<1> QED
  BY Zenon, <1>1, <1>2, <1>6 DEF Filling

(* An argument is added within the limits.                                    *)
LEMMA FillingAdd ==
  ASSUME XargsInv, Filling, Add
  PROVE  Filling'
<1>1. PICK k \in 1 .. Len(input) :
        /\ stage = "fill" /\ ~OverLines(k) /\ ~OverSize(k)
        /\ cmd' = Append(cmd, k) /\ argsz' = argsz + input[k].len + 1
        /\ arg' = k /\ linecount' = Lines(k) /\ ~leftover'
        /\ stage' = IF opt.n > 0 /\ Len(cmd) + 1 >= opt.n THEN "line" ELSE "fill"
        /\ UNCHANGED <<input, opt>>
  BY Zenon DEF Add
<1>2. /\ cmd \in Seq(Nat) /\ argsz \in Nat /\ input[k].len \in Nat /\ k \in Nat
      /\ opt.n \in Nat /\ opt.L \in Nat /\ opt.s \in Nat /\ input[k].nl \in BOOLEAN
  <2>1. k \in Nat
    BY <1>1
  <2> QED
    BY Zenon, <2>1, XargsTypes DEF XargsInv, XargsTypeOK
<1>3. Lines(k) = LinesOf(Append(cmd, k))
  <2>1. CASE cmd = <<>>
    <3>1. Lines(k) = 1
      BY Zenon, <1>1, <2>1 DEF Filling, Lines
    <3> QED
      BY Zenon, <1>2, <2>1, <3>1, LinesAppend
  <2>2. CASE cmd # <<>>
    <3>1. linecount = LinesOf(cmd) /\ LinesOf(cmd) \in Nat \ {0}
      BY Zenon, <1>1, <1>2, <2>2, LinesAppend DEF Filling
    <3> QED
      BY Zenon, <1>2, <2>2, <3>1, LinesAppend DEF Lines
  <2> QED
    BY Zenon, <2>1, <2>2
<1>4. LinesOf(cmd)' = LinesOf(Append(cmd, k))
  BY Zenon, <1>1 DEF LinesOf
<1>5. opt.n > 0 => Len(cmd') <= opt.n /\ (stage' = "fill" => Len(cmd') < opt.n)
  <2>1. Len(cmd') = Len(cmd) + 1 /\ Len(cmd) \in Nat
    BY Zenon, <1>1, <1>2, Longer
  <2>2. opt.n > 0 => Len(cmd) < opt.n
    BY Zenon, <1>1, <1>2 DEF Filling
  <2> QED
    <3>1. /\ Len(cmd) < opt.n => Len(cmd) + 1 <= opt.n
          /\ ~(Len(cmd) + 1 >= opt.n) => Len(cmd) + 1 < opt.n
      BY Zenon, <1>2, <2>1, Limits
    <3>2. stage' = "fill" => ~(opt.n > 0 /\ Len(cmd) + 1 >= opt.n)
      BY Zenon, <1>1
    <3> QED
      BY Zenon, <2>1, <2>2, <3>1, <3>2
<1>6. opt.L > 0 => LinesOf(cmd)' <= opt.L
  <2>1. LinesOf(Append(cmd, k)) \in Nat
    BY Zenon, <1>2, LinesAppend, Longer
  <2> QED
    <3>1. opt.L > 0 => ~(Lines(k) > opt.L)
      BY Zenon, <1>1 DEF OverLines
    <3>2. ~(Lines(k) > opt.L) => Lines(k) <= opt.L
      BY Zenon, <1>2, <1>3, <2>1, Limits
    <3> QED
      BY Zenon, <1>3, <1>4, <3>1, <3>2
<1>7. argsz' <= opt.s
  BY Zenon, <1>1, <1>2, Limits DEF OverSize
<1>8. cmd' # <<>> /\ linecount' = LinesOf(cmd)' /\ opt' = opt
  BY Zenon, <1>1, <1>2, <1>3, <1>4, Longer
<1> QED
  BY Zenon, <1>1, <1>5, <1>6, <1>7, <1>8 DEF Filling

(* While it is filled, a command line keeps to its limits and linecount is what *)
(* it should be.                                                             *)
LEMMA AlwaysFilling == XargsSpec => []Filling
<1>1. XargsInit => Filling
  BY Zenon DEF XargsInit, Filling
<1>2. XargsInv /\ Filling /\ [XargsNext]_xargsVars => Filling'
  <2> SUFFICES ASSUME XargsInv, Filling, [XargsNext]_xargsVars PROVE Filling'
    OBVIOUS
  <2>1. CASE PopEnd \/ Keep \/ Add
    BY Zenon, <2>1, FillingPopEnd, FillingKeep, FillingAdd
  <2>2. CASE NoSpawn \/ Waited
    BY Zenon, <2>2, FillingAgain DEF NoSpawn, Waited
  <2>3. CASE PopBad \/ TooLong \/ Fork \/ ForkFails \/ Reap \/ Finish
    <3>1. stage' \notin {"fill", "line"}
      BY Zenon, <2>3 DEF PopBad, TooLong, Fork, ForkFails, Reap, Finish, exit
    <3> QED
      BY Zenon, <3>1, FillingElsewhere
  <2>4. CASE ChildEnd \/ UNCHANGED xargsVars
    <3>1. UNCHANGED <<input, opt, arg, leftover, cmd, argsz, linecount, stage>>
      BY Zenon, <2>4 DEF ChildEnd, xargsVars, lineVars
    <3>2. LinesOf(cmd)' = LinesOf(cmd)
      BY Zenon, <3>1 DEF LinesOf
    <3> QED
      BY Zenon, <3>1, <3>2 DEF Filling
  <2> QED
    BY Zenon, <2>1, <2>2, <2>3, <2>4 DEF XargsNext, Step
<1> QED
  BY <1>1, <1>2, XargsInvariant, PTL DEF XargsSpec

(* A command that is run is within -n, -L and -s, and where -L cut it off it has *)
(* exactly that many lines and the argument kept for the next command starts     *)
(* another (the loop of main() that fills a command line).                     *)
THEOREM CommandsFit == XargsSpec => []CommandFits
<1>1. XargsInv /\ Filling => CommandFits
  <2> SUFFICES ASSUME XargsInv, Filling, stage = "line", cmd # <<>>
               PROVE  /\ opt.n > 0 => Len(cmd) <= opt.n
                      /\ opt.L > 0 => /\ LinesOf(cmd) <= opt.L
                                      /\ leftover /\ linecount > opt.L =>
                                           LinesOf(cmd) = opt.L /\ input[arg].nl
                      /\ argsz <= opt.s
    BY Zenon DEF CommandFits
  <2>1. cmd \in Seq(Nat) /\ opt.L \in Nat
    BY Zenon, XargsTypes DEF XargsInv, XargsTypeOK
  <2>2. LinesOf(cmd) \in Nat
    BY Zenon, <2>1, LinesAppend
  <2> QED
    BY <2>1, <2>2 DEF Filling
<1> QED
  BY <1>1, XargsInvariant, AlwaysFilling, PTL
=============================================================================
