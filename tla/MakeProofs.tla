----------------------------- MODULE MakeProofs -----------------------------
(***************************************************************************)
(* For every makefile, every set of options and any number of signals: the    *)
(* walk of Make keeps MakeInv, and from it no recipe starts after the signal   *)
(* or above a failed prerequisite, and no failure is lost from the exit        *)
(* status.  Where inference rules are no goals or prerequisites, no half-       *)
(* written target is left after a signal.                                    *)
(***************************************************************************)
EXTENDS Make, TLAPS

(* The positions of a sequence                                               *)
LEMMA SeqDomain ==
  ASSUME NEW S, NEW q \in Seq(S)
  PROVE  DOMAIN q = 1 .. Len(q) /\ Len(q) \in Nat /\ \A n \in 1 .. Len(q) : q[n] \in S
OBVIOUS

(* The empty sequence has none                                               *)
LEMMA NoPositions == 1 .. Len(<<>>) = {} /\ DOMAIN <<>> = {} /\ 1 # 0
OBVIOUS

(* A sequence with a position is not empty                                   *)
LEMMA NotEmpty ==
  ASSUME NEW q, Len(q) = 1
  PROVE  q # <<>>
OBVIOUS

(* The positions of a sequence one longer, and of one shorter                *)
LEMMA Positions ==
  ASSUME NEW n \in Nat
  PROVE  /\ n + 1 \in 1 .. n + 1
         /\ \A k \in 1 .. n + 1 : k # n + 1 => k \in 1 .. n
         /\ \A k \in 1 .. n - 1 : k \in 1 .. n /\ (k # n - 1 => k \in 1 .. n - 2)
OBVIOUS

(* What the assumption says of the makefile in use                           *)
LEMMA MakefileType ==
  ASSUME mk \in Makefiles
  PROVE  /\ mk.edges \in Seq(Target \X Target)
         /\ mk.lines \in [Target -> Nat]
         /\ mk.suffixes \in Seq(Target \ {Default})
         /\ mk.source \in [Target -> [Target -> Target \cup {None}]]
         /\ mk.goals \in Seq(Target)
BY Zenon, MakeAssumption

(* The innermost activation is a frame                                       *)
LEMMA TopType ==
  ASSUME MakeTypeOK, stack # <<>>
  PROVE  /\ Len(stack) \in Nat \ {0}
         /\ Len(stack) \in 1 .. Len(stack)
         /\ Top \in Frames
         /\ Top.t \in Target /\ Top.i \in Nat \ {0}
         /\ deps[Top.t] \in Seq(Target)
         /\ Len(deps[Top.t]) \in Nat
<1>1. stack \in Seq(Frames)
  BY Zenon DEF MakeTypeOK
<1>2. Len(stack) \in Nat \ {0} /\ Top \in Frames
  BY <1>1 DEF Top
<1>3. Top.t \in Target /\ Top.i \in Nat \ {0}
  BY Zenon, <1>2 DEF Frames
<1>4. deps[Top.t] \in Seq(Target)
  BY Zenon, <1>3 DEF MakeTypeOK
<1> QED BY <1>2, <1>3, <1>4

(* First() picks an element                                                  *)
LEMMA FirstIn ==
  ASSUME NEW U, U # {}
  PROVE  First(U) \in U
<1>1. PICK n \in U : (\E m \in U : \A k \in U : m <= k) => \A k \in U : n <= k
  <2>1. CASE \E m \in U : \A k \in U : m <= k
    BY Zenon, <2>1
  <2>2. CASE ~ \E m \in U : \A k \in U : m <= k
    BY Zenon, <2>2
  <2> QED BY Zenon, <2>1, <2>2
<1> QED BY Zenon, <1>1 DEF First

(* inference() depends on the makefile and on the usable suffixes            *)
LEMMA InferenceKept ==
  ASSUME UNCHANGED mk, NEW t, NEW force, Usable(t, force)' = Usable(t, force)
  PROVE  inference(t, force)' = inference(t, force)
<1> DEFINE Found(U) == IF U = {} THEN None ELSE mk.suffixes[First(U)]
<1>1. inference(t, force) = Found(Usable(t, force))
  BY Zenon DEF inference
<1>2. inference(t, force)' = Found(Usable(t, force)')
  BY DEF inference, First
<1> HIDE DEF Found
<1> QED BY Zenon, <1>1, <1>2

(* inference() returns a rule other than .DEFAULT, or nothing                *)
LEMMA InferenceType ==
  ASSUME MakeTypeOK, NEW t \in Target, NEW force \in BOOLEAN
  PROVE  inference(t, force) \in Target \cup {None}
<1>1. CASE Usable(t, force) = {}
  BY Zenon, <1>1 DEF inference
<1>2. CASE Usable(t, force) # {}
  <2>1. Usable(t, force) \subseteq DOMAIN mk.suffixes
    BY Zenon DEF Usable
  <2>2. mk.suffixes \in Seq(Target \ {Default})
    BY Zenon, MakefileType DEF MakeTypeOK
  <2>3. First(Usable(t, force)) \in DOMAIN mk.suffixes
    BY Zenon, <1>2, <2>1, FirstIn
  <2> QED BY <1>2, <2>2, <2>3 DEF inference
<1> QED BY Zenon, <1>1, <1>2

(* update() runs the actions of a target, or finds none                      *)
LEMMA RuleForType ==
  ASSUME MakeTypeOK, NEW t \in Target
  PROVE  /\ RuleFor(t) \in Target \cup {None}
         /\ Newer(t) \in Target \cup {None}
         /\ BoundFor(t) \in [Target -> Target]
         /\ Bound(bind, Newer(t), t) \in [Target -> Target]
<1>1. /\ inference(t, TRUE) \in Target \cup {None}
      /\ inference(t, FALSE) \in Target \cup {None}
  BY Zenon, InferenceType
<1>2. Newer(t) \in Target \cup {None}
  BY Zenon, <1>1 DEF Newer
<1>3. ASSUME NEW b \in [Target -> Target], NEW r \in Target \cup {None}
      PROVE  Bound(b, r, t) \in [Target -> Target]
  BY Zenon, MakeAssumption DEF Bound
<1>4. bind \in [Target -> Target]
  BY Zenon DEF MakeTypeOK
<1>5. Bound(bind, Newer(t), t) \in [Target -> Target]
  BY Zenon, <1>2, <1>3, <1>4
<1>6. BoundFor(t) \in [Target -> Target]
  BY Zenon, <1>1, <1>3, <1>5 DEF BoundFor
<1>7. RuleFor(t) \in Target \cup {None}
  BY Zenon, <1>1, MakeAssumption DEF RuleFor
<1> QED BY Zenon, <1>2, <1>5, <1>6, <1>7

-----------------------------------------------------------------------------
(* The stack.                                                                *)

(* A call of rebuild() puts a new frame on the stack                         *)
LEMMA EnterStack ==
  ASSUME MakeTypeOK, NEW t \in Target, Enter(t)
  PROVE  /\ stack' \in Seq(Frames) /\ stack' # <<>>
         /\ Len(stack') = Len(stack) + 1 /\ Len(stack) \in Nat
         /\ \A k \in 1 .. Len(stack) : stack'[k] = stack[k]
         /\ stack'[Len(stack) + 1] = Frame(t)
         /\ stamp' \in [Target -> Int]
<1>1. stack \in Seq(Frames) /\ Frame(t) \in Frames
  BY DEF MakeTypeOK, Frame, Frames
<1>2. stack' = Append(stack, Frame(t))
  BY Zenon DEF Enter
<1>3. stamp' \in [Target -> Int]
  <2>1. stamp \in [Target -> Int] /\ file \in [Target -> Int]
    BY Zenon DEF MakeTypeOK
  <2>2. (IF t \in mk.phony THEN -1 ELSE file[t]) \in Int
    BY <2>1
  <2> QED BY Zenon, <2>1, <2>2 DEF Enter, Stamped
<1> QED BY <1>1, <1>2, <1>3

(* The caller's frame when a call of it returns                              *)
LEMMA ReturnedFrame ==
  ASSUME NEW f \in Frames, NEW t, NEW r, NEW built \in BOOLEAN
  PROVE  /\ Returned(f, t, r, built) \in Frames
         /\ Returned(f, t, r, built).t = f.t
         /\ Returned(f, t, r, built).i = f.i + 1
         /\ Returned(f, t, r, built).err = (f.err \/ r # 0)
BY DEF Returned, Frames

(* and stays that of the same target                                         *)
LEMMA ReturnedTarget ==
  ASSUME NEW f \in Frames, NEW t, NEW r, NEW built \in BOOLEAN
  PROVE  Returned(f, t, r, built).t = f.t
BY ReturnedFrame

(* A return of rebuild() takes its frame off                                 *)
LEMMA ReturnStack ==
  ASSUME MakeTypeOK, stack # <<>>, NEW r, NEW built \in BOOLEAN,
         Return(r, built)
  PROVE  /\ stack' \in Seq(Frames)
         /\ Len(stack) \in Nat \ {0} /\ Len(stack') = Len(stack) - 1
         /\ \A k \in 1 .. Len(stack) - 2 : stack'[k] = stack[k]
         /\ Len(stack) > 1 =>
              /\ stack[Len(stack) - 1] \in Frames
              /\ stack'[Len(stack) - 1] =
                   Returned(stack[Len(stack) - 1], Top.t, r, built)
<1> DEFINE n == Len(stack)
           popped == [k \in 1 .. n - 1 |->
                        IF k = n - 1 THEN Returned(stack[k], Top.t, r, built)
                                     ELSE stack[k]]
<1>1. stack \in Seq(Frames) /\ n \in Nat \ {0}
  BY Zenon, TopType DEF MakeTypeOK
<1>2. CASE n = 1
  <2>1. stack' = <<>>
    BY Zenon, <1>2 DEF Return
  <2> QED BY <1>1, <1>2, <2>1
<1>3. CASE n > 1
  <2>1. stack' = popped
    BY <1>1, <1>3 DEF Return
  <2>2. \A k \in 1 .. n - 1 : stack[k] \in Frames
    BY <1>1
  <2>3. \A k \in 1 .. n - 1 : popped[k] \in Frames
    BY Zenon, <2>2, ReturnedFrame
  <2>4. popped \in Seq(Frames) /\ Len(popped) = n - 1
    BY <1>1, <1>3, <2>3
  <2> QED BY <1>1, <1>3, <2>1, <2>2, <2>4
<1>4. n = 1 \/ n > 1
  <2>1. n \in Nat \ {0}
    BY Zenon, <1>1
  <2> HIDE DEF n
  <2> QED BY <2>1
<1> QED BY Zenon, <1>2, <1>3, <1>4

-----------------------------------------------------------------------------
(* What the walk keeps true.                                                 *)

WalkInv == Chain /\ BadSeen /\ ErrTold

(* Steps that leave the stack alone                                          *)
LEMMA FramesKept ==
  ASSUME WalkInv, UNCHANGED <<stack, deps, bad>>,
         exitstatus' = exitstatus \/ exitstatus' = 1
  PROVE  WalkInv'
<1>1. Chain'
  BY Zenon DEF WalkInv, Chain
<1>2. BadSeen'
  BY Zenon DEF WalkInv, BadSeen
<1>3. ErrTold'
  BY Zenon DEF WalkInv, ErrTold
<1> QED BY Zenon, <1>1, <1>2, <1>3 DEF WalkInv

(* A call: the new activation has seen nothing yet                           *)
LEMMA EnterKeeps ==
  ASSUME MakeTypeOK, WalkInv, NEW t \in Target, Enter(t),
         UNCHANGED <<deps, bad, exitstatus>>,
         stack # <<>> => Top.i <= Len(deps[Top.t]) /\ t = deps[Top.t][Top.i]
  PROVE  WalkInv'
<1> DEFINE n == Len(stack)
<1>1. /\ Len(stack') = n + 1 /\ n \in Nat
      /\ \A k \in 1 .. n : stack'[k] = stack[k]
      /\ stack'[n + 1] = Frame(t)
  BY Zenon, EnterStack
<1>2. Frame(t).t = t /\ Frame(t).i = 1 /\ ~Frame(t).err
  BY Zenon DEF Frame
<1>3. ASSUME NEW k \in 1 .. Len(stack') - 1
      PROVE  /\ stack'[k].i <= Len(deps'[stack'[k].t])
             /\ stack'[k + 1].t = deps'[stack'[k].t][stack'[k].i]
  <2>1. CASE k = n
    <3>1. stack # <<>> /\ stack'[k] = Top
      BY <1>1, <2>1 DEF Top
    <3> QED BY Zenon, <1>1, <1>2, <2>1, <3>1
  <2>2. CASE k # n
    <3>1. k \in 1 .. n - 1 /\ k \in 1 .. n /\ k + 1 \in 1 .. n
      BY <1>1, <2>2
    <3>2. stack'[k] = stack[k] /\ stack'[k + 1] = stack[k + 1]
      BY Zenon, <1>1, <3>1
    <3> QED BY Zenon, <3>1, <3>2 DEF WalkInv, Chain
  <2> QED BY Zenon, <2>1, <2>2
<1>4. ASSUME NEW k \in 1 .. Len(stack'), NEW m \in 1 .. Len(deps'[stack'[k].t]),
             m < stack'[k].i, deps'[stack'[k].t][m] \in bad'
      PROVE  \E j \in k .. Len(stack') : stack'[j].err
  <2>1. k # n + 1
    BY <1>1, <1>2, <1>4
  <2>2. k \in 1 .. n /\ stack'[k] = stack[k]
    BY <1>1, <2>1
  <2>3. PICK j \in k .. n : stack[j].err
    BY Zenon, <1>4, <2>2 DEF WalkInv, BadSeen
  <2>4. j \in 1 .. n /\ j \in k .. Len(stack')
    BY <1>1, <2>2
  <2>5. stack'[j].err
    BY Zenon, <1>1, <2>3, <2>4
  <2> QED BY Zenon, <2>4, <2>5
<1>5. ASSUME bad' # {} \/ (\E k \in 1 .. Len(stack') : stack'[k].err)
      PROVE  exitstatus' = 1
  <2>1. ASSUME NEW k \in 1 .. Len(stack'), stack'[k].err
        PROVE  exitstatus' = 1
    <3>1. k \in 1 .. n /\ stack'[k] = stack[k]
      BY <1>1, <1>2, <2>1
    <3> QED BY Zenon, <2>1, <3>1 DEF WalkInv, ErrTold
  <2>2. CASE bad' # {}
    BY Zenon, <2>2 DEF WalkInv, ErrTold
  <2> QED BY Zenon, <1>5, <2>1, <2>2
<1> QED BY Zenon, <1>3, <1>4, <1>5 DEF WalkInv, Chain, BadSeen, ErrTold

(* A return: a failure goes to the caller's err; a success takes the target    *)
(* off bad, and the returning activation is not the one that holds an err     *)
LEMMA ReturnKeeps ==
  ASSUME MakeTypeOK, WalkInv, stack # <<>>, NEW r, NEW built \in BOOLEAN,
         Return(r, built), r # 0 => exitstatus' = 1,
         r = 0 => ~Top.err /\ exitstatus' = exitstatus
  PROVE  WalkInv'
<1> DEFINE n == Len(stack)
<1>0. deps' = deps /\ bad' = IF r = 0 THEN bad \ {Top.t} ELSE bad \cup {Top.t}
  BY Zenon DEF Return
<1>1. /\ n \in Nat \ {0} /\ Len(stack') = n - 1
      /\ \A k \in 1 .. n - 2 : stack'[k] = stack[k]
      /\ n > 1 => /\ stack[n - 1] \in Frames
                  /\ stack'[n - 1] = Returned(stack[n - 1], Top.t, r, built)
  BY Zenon, ReturnStack
<1>2. ASSUME NEW k \in 1 .. n - 1
      PROVE  /\ stack'[k].t = stack[k].t
             /\ stack[k].err => stack'[k].err
             /\ k # n - 1 => stack'[k] = stack[k]
             /\ k = n - 1 => /\ stack'[k].i = stack[k].i + 1
                             /\ stack'[k].err = (stack[k].err \/ r # 0)
                             /\ stack[k].i \in Nat
  <2>1. CASE k = n - 1
    <3>1. n > 1
      BY <1>1
    <3>2. stack[k] \in Frames /\ stack'[k] = Returned(stack[k], Top.t, r, built)
      BY Zenon, <1>1, <2>1, <3>1
    <3> QED BY <2>1, <3>2, ReturnedFrame DEF Frames
  <2>2. CASE k # n - 1
    <3>1. k \in 1 .. n - 2
      BY <1>1, <2>2
    <3> QED BY Zenon, <1>1, <2>2, <3>1
  <2> QED BY Zenon, <2>1, <2>2
<1>3. ASSUME NEW k \in 1 .. Len(stack') - 1
      PROVE  /\ stack'[k].i <= Len(deps'[stack'[k].t])
             /\ stack'[k + 1].t = deps'[stack'[k].t][stack'[k].i]
  <2>1. k \in 1 .. n - 1 /\ k + 1 \in 1 .. n - 1 /\ k # n - 1
    BY <1>1
  <2>2. stack'[k] = stack[k] /\ stack'[k + 1].t = stack[k + 1].t
    BY Zenon, <1>2, <2>1
  <2> QED BY Zenon, <1>0, <2>1, <2>2 DEF WalkInv, Chain
<1>4. ASSUME NEW k \in 1 .. Len(stack'), NEW m \in 1 .. Len(deps'[stack'[k].t]),
             m < stack'[k].i, deps'[stack'[k].t][m] \in bad'
      PROVE  \E j \in k .. Len(stack') : stack'[j].err
  <2>1. k \in 1 .. n - 1 /\ n - 1 \in 1 .. n - 1 /\ n - 1 \in k .. Len(stack')
    BY <1>1
  <2>2. CASE r # 0
    <3>1. stack'[n - 1].err
      BY Zenon, <1>2, <2>1, <2>2
    <3> QED BY Zenon, <2>1, <3>1
  <2>3. CASE r = 0
    <3>1. deps'[stack'[k].t] = deps[stack[k].t]
      BY Zenon, <1>0, <1>2, <2>1
    <3>2. deps[stack[k].t][m] \in bad /\ deps[stack[k].t][m] # Top.t
      BY Zenon, <1>0, <1>4, <2>3, <3>1
    <3>3. m < stack[k].i
      <4>1. CASE k = n - 1
        <5>1. deps[stack[k].t][stack[k].i] = stack[n].t
          BY <1>1, <2>1, <4>1 DEF WalkInv, Chain
        <5>2. m # stack[k].i
          BY Zenon, <3>2, <5>1 DEF Top
        <5>3. stack'[k].i = stack[k].i + 1 /\ stack[k].i \in Nat /\ m \in Nat
          BY <1>2, <2>1, <4>1
        <5> QED BY <1>4, <5>2, <5>3
      <4>2. CASE k # n - 1
        BY Zenon, <1>2, <1>4, <2>1, <4>2
      <4> QED BY Zenon, <4>1, <4>2
    <3>4. PICK j \in k .. n : stack[j].err
      BY <1>1, <2>1, <3>1, <3>2, <3>3 DEF WalkInv, BadSeen
    <3>5. j # n
      BY Zenon, <2>3, <3>4 DEF Top
    <3>6. j \in 1 .. n - 1 /\ j \in k .. Len(stack')
      BY <1>1, <2>1, <3>5
    <3> QED BY Zenon, <1>2, <3>4, <3>6
  <2> QED BY Zenon, <2>2, <2>3
<1>5. ASSUME bad' # {} \/ (\E k \in 1 .. Len(stack') : stack'[k].err)
      PROVE  exitstatus' = 1
  <2>1. CASE r # 0
    BY Zenon, <2>1
  <2>2. CASE r = 0
    <3>1. bad # {} \/ (\E k \in 1 .. n : stack[k].err)
      <4>1. ASSUME NEW k \in 1 .. Len(stack'), stack'[k].err
            PROVE  k \in 1 .. n /\ stack[k].err
        <5>1. k \in 1 .. n - 1 /\ k \in 1 .. n
          BY <1>1
        <5> QED BY Zenon, <1>2, <2>2, <4>1, <5>1
      <4> QED BY Zenon, <1>0, <1>5, <2>2, <4>1
    <3> QED BY Zenon, <2>2, <3>1 DEF WalkInv, ErrTold
  <2> QED BY Zenon, <2>1, <2>2
<1> QED BY Zenon, <1>3, <1>4, <1>5 DEF WalkInv, Chain, BadSeen, ErrTold

-----------------------------------------------------------------------------
(* One lemma per kind of step.                                               *)

(* Reading the makefile                                                      *)
LEMMA ParseKeeps ==
  ASSUME MakeInv, AddDep \/ Parsed
  PROVE  MakeInv'
<1> USE DEF MakeInv
<1>1. CASE AddDep
  <2>1. edges' \in Seq(Target \X Target) /\ deps' \in [Target -> Seq(Target)]
    <3>1. edges \in Seq(Target \X Target) /\ edges # <<>>
      BY Zenon, <1>1 DEF AddDep, MakeTypeOK
    <3>2. Head(edges) \in Target \X Target /\ Tail(edges) \in Seq(Target \X Target)
      BY <3>1
    <3>3. Head(edges)[1] \in Target /\ Head(edges)[2] \in Target
      BY Zenon, <3>2
    <3>4. ASSUME NEW t \in Target, NEW d \in Target
          PROVE  adddep(t, d) \in [Target -> Seq(Target)]
      <4>1. deps \in [Target -> Seq(Target)] /\ deps[t] \in Seq(Target)
        BY Zenon DEF MakeTypeOK
      <4>2. Append(deps[t], d) \in Seq(Target)
        BY <4>1
      <4> QED BY Zenon, <4>1, <4>2 DEF adddep
    <3> QED BY Zenon, <1>1, <3>2, <3>3, <3>4 DEF AddDep
  <2>2. stack = <<>>
    BY Zenon, <1>1 DEF AddDep, Placed
  <2>3. MakeTypeOK'
    <3>1. UNCHANGED <<mk, goals, stack, pc, rule, line, ret, stamp, bind,
                     exitstatus, status, stop, pend, signals, child,
                     file, torn, clock, bad, made, failed, lost>>
      BY Zenon, <1>1 DEF AddDep, running, signalVars, disk, history
    <3> QED BY <2>1, <3>1 DEF MakeTypeOK
  <2>4. Placed'
    BY Zenon, <1>1, <2>2 DEF AddDep, Placed, running, InRun
  <2>5. Chain' /\ BadSeen' /\ ErrTold'
    BY <1>1, <2>2 DEF AddDep, Chain, BadSeen, ErrTold, history
  <2> QED BY Zenon, <2>3, <2>4, <2>5
<1>2. CASE Parsed
  <2>1. MakeTypeOK'
    BY Zenon, <1>2 DEF Parsed, MakeTypeOK, walk, signalVars, disk, history
  <2>2. Placed'
    BY Zenon, <1>2 DEF Parsed, Placed, walk, InRun
  <2>3. WalkInv'
    BY Zenon, <1>2, FramesKept DEF Parsed, WalkInv, walk, history
  <2> QED BY Zenon, <2>1, <2>2, <2>3 DEF WalkInv
<1> QED BY Zenon, <1>1, <1>2

(* The goals of main()                                                       *)
LEMMA GoalKeeps ==
  ASSUME MakeInv, Goal \/ AllDone
  PROVE  MakeInv'
<1> USE DEF MakeInv
<1>1. CASE Goal
  <2>1. goals \in Seq(Target) /\ goals # <<>>
    BY Zenon, <1>1 DEF Goal, MakeTypeOK
  <2>2. Head(goals) \in Target /\ Tail(goals) \in Seq(Target)
    BY <2>1
  <2>3. Enter(Head(goals)) /\ stack = <<>>
    BY Zenon, <1>1 DEF Goal, Placed
  <2>4. stack' \in Seq(Frames) /\ Len(stack') = 1 /\ stamp' \in [Target -> Int]
    BY <2>2, <2>3, EnterStack
  <2>5. MakeTypeOK'
    <3>1. UNCHANGED <<mk, edges, deps, rule, line, ret, bind, exitstatus,
                     status, stop, pend, signals, child, file, torn,
                     clock, bad, made, failed, lost>>
      BY Zenon, <1>1 DEF Goal, signalVars, disk, history
    <3>2. goals' \in Seq(Target) /\ pc' = "rebuild"
      BY Zenon, <1>1, <2>2 DEF Goal
    <3> QED BY Zenon, <2>4, <3>1, <3>2 DEF MakeTypeOK
  <2>6. Placed'
    <3>1. pc' = "rebuild" /\ status' = status /\ pc = "main"
      BY Zenon, <1>1 DEF Goal
    <3>2. stack' # <<>>
      BY Zenon, <2>2, <2>3, EnterStack
    <3> QED BY Zenon, <3>1, <3>2 DEF Placed, InRun
  <2>7. WalkInv'
    BY Zenon, <1>1, <2>2, <2>3, EnterKeeps DEF Goal, WalkInv, history
  <2> QED BY <2>5, <2>6, <2>7 DEF WalkInv
<1>2. CASE AllDone
  <2>1. MakeTypeOK'
    BY Zenon, <1>2 DEF AllDone, exit, MakeTypeOK, walk, signalVars, disk, history
  <2>2. Placed'
    BY Zenon, <1>2 DEF AllDone, exit, Placed, walk, InRun
  <2>3. WalkInv'
    BY Zenon, <1>2, FramesKept DEF AllDone, exit, WalkInv, walk, history
  <2> QED BY <2>1, <2>2, <2>3 DEF WalkInv
<1> QED BY <1>1, <1>2

(* rebuild() calls itself for a prerequisite                                 *)
LEMMA VisitKeeps ==
  ASSUME MakeInv, VisitDep
  PROVE  MakeInv'
<1> USE DEF MakeInv
<1> DEFINE t == deps[Top.t][Top.i]
<1>1. stack # <<>>
  BY Zenon DEF VisitDep, InLoop, Placed
<1>2. t \in Target
  BY <1>1, TopType, SMTT(30) DEF VisitDep, InLoop
<1>3. Enter(t)
  BY Zenon DEF VisitDep
<1> HIDE DEF t
<1>4. stack' \in Seq(Frames) /\ Len(stack') # 0 /\ stamp' \in [Target -> Int]
  BY <1>2, <1>3, EnterStack
<1>5. MakeTypeOK'
  <2>1. UNCHANGED <<mk, edges, deps, goals, pc, rule, line, ret, bind,
                     exitstatus, status, stop, pend, signals, child,
                     file, torn, clock, bad, made, failed, lost>>
    BY Zenon DEF VisitDep, running, signalVars, disk, history
  <2> QED BY SMTT(30), <1>4, <2>1 DEF MakeTypeOK
<1>6. Placed'
  BY <1>4 DEF VisitDep, InLoop, Placed, InRun, running
<1>7. WalkInv'
  BY Zenon, <1>2, <1>3, EnterKeeps DEF VisitDep, InLoop, WalkInv, history, t
<1> QED BY Zenon, <1>5, <1>6, <1>7 DEF WalkInv

(* cleanup() touches the disk and ends make                                  *)
LEMMA CleanupKeeps ==
  ASSUME MakeInv, NEW t, cleanup(t)
  PROVE  MakeInv'
<1> USE DEF MakeInv
<1>1. file' \in [Target -> Int] /\ torn' \subseteq Target
  <2>1. file \in [Target -> Int] /\ torn \subseteq Target
    BY Zenon DEF MakeTypeOK
  <2>2. [file EXCEPT ![t] = -1] \in [Target -> Int]
    <3>1. -1 \in Int
      OBVIOUS
    <3> QED BY <2>1, <3>1, Zenon
  <2> QED BY Zenon, <2>1, <2>2 DEF cleanup
<1>2. MakeTypeOK'
  BY Zenon, <1>1 DEF cleanup, MakeTypeOK, walk, signalVars, history
<1>3. Placed'
  BY Zenon DEF cleanup, Placed, walk, InRun
<1>4. WalkInv'
  BY Zenon, FramesKept DEF cleanup, WalkInv, walk, history
<1> QED BY Zenon, <1>2, <1>3, <1>4 DEF WalkInv

(* rebuild() returns                                                         *)
LEMMA ReturnInv ==
  ASSUME MakeInv, stack # <<>>, pc \in {"rebuild", "ret"},
         NEW r, NEW built \in BOOLEAN, Return(r, built),
         r # 0 => exitstatus' = 1,
         r = 0 => ~Top.err /\ exitstatus' = exitstatus,
         bind' \in [Target -> Target], made' \subseteq Target,
         failed' \subseteq Target,
         UNCHANGED <<mk, flags, rule, line, ret, status, signalVars, child,
                     disk, lost>>
  PROVE  MakeInv'
<1> USE DEF MakeInv
<1>1. /\ stack' \in Seq(Frames) /\ Len(stack) \in Nat \ {0}
      /\ Len(stack') = Len(stack) - 1
  BY Zenon, ReturnStack
<1>2. exitstatus' \in {0, 1}
  BY Zenon DEF MakeTypeOK
<1>3. bad' \subseteq Target
  BY Zenon, TopType DEF Return, MakeTypeOK
<1>4. MakeTypeOK'
  BY Zenon, <1>1, <1>2, <1>3 DEF Return, MakeTypeOK, signalVars, disk
<1>5. Placed'
  <2>1. pc' = IF Len(stack) = 1 THEN "main" ELSE "rebuild"
    BY Zenon DEF Return
  <2>2. Len(stack) = 1 => stack' = <<>>
    BY Zenon DEF Return
  <2>3. Len(stack) # 1 => stack' # <<>>
    BY <1>1
  <2> QED BY Zenon, <2>1, <2>2, <2>3 DEF Placed, InRun
<1>6. WalkInv'
  BY Zenon, ReturnKeeps DEF WalkInv
<1> QED BY Zenon, <1>4, <1>5, <1>6 DEF WalkInv

(* A step that leaves the walk, the recipes and the errors where they are:     *)
(* what remains to be shown is the type of what it changes                   *)
LEMMA QuietKeeps ==
  ASSUME MakeInv, MakeTypeOK',
         UNCHANGED <<walk, rule, bad, status>>,
         exitstatus' = exitstatus \/ exitstatus' = 1,
         (pc \in InRun /\ pc' \in InRun) \/ pc' = pc
  PROVE  MakeInv'
<1> USE DEF MakeInv
<1>1. Placed'
  BY Zenon DEF Placed, InRun, walk, Top
<1>2. WalkInv'
  BY Zenon, FramesKept DEF WalkInv, walk
<1> QED BY Zenon, <1>1, <1>2 DEF WalkInv

(* The decisions of rebuild() after its loop, and the result of update()       *)
LEMMA DecideKeeps ==
  ASSUME MakeInv, NotRemade \/ NotNeeded \/ NoRule \/ Succeeded \/ Failed
  PROVE  MakeInv'
<1> USE DEF MakeInv
<1>1. stack # <<>>
  BY Zenon DEF NotRemade, NotNeeded, NoRule, Updating, AfterLoop, Succeeded, Failed,
         Placed, InRun
<1>2. Top.t \in Target
  BY Zenon, <1>1, TopType
<1>3. /\ made \subseteq Target /\ failed \subseteq Target
      /\ made \cup {Top.t} \subseteq Target /\ failed \cup {Top.t} \subseteq Target
      /\ bind \in [Target -> Target]
  BY Zenon, <1>2 DEF MakeTypeOK
<1>4. CASE NotRemade
  <2>1. bind' \in [Target -> Target]
    BY Zenon, <1>2, <1>4, RuleForType DEF NotRemade
  <2>2. exitstatus = 1 /\ exitstatus' = exitstatus
    <3>1. Top.err /\ Len(stack) \in 1 .. Len(stack)
      BY Zenon, <1>1, <1>4, TopType DEF NotRemade
    <3>2. exitstatus = 1
      BY Zenon, <3>1 DEF ErrTold, Top
    <3> QED BY Zenon, <1>4, <3>2 DEF NotRemade
  <2>3. Return(1, FALSE) /\ pc = "rebuild"
    BY Zenon, <1>4 DEF NotRemade, AfterLoop
  <2>4. UNCHANGED <<mk, flags, rule, line, ret, status, signalVars, child,
                    disk, made, failed, lost>>
    BY Zenon, <1>4 DEF NotRemade
  <2>5. 1 # 0
    OBVIOUS
  <2> QED BY Zenon, <1>1, <1>3, <2>1, <2>2, <2>3, <2>4, <2>5, ReturnInv
<1>5. CASE NotNeeded
  <2>1. Return(0, FALSE) /\ pc = "rebuild" /\ ~Top.err
    BY Zenon, <1>5 DEF NotNeeded, AfterLoop
  <2>2. UNCHANGED <<mk, flags, rule, line, ret, bind, exitstatus, status,
                    signalVars, child, disk, made, failed, lost>>
    BY Zenon, <1>5 DEF NotNeeded
  <2> QED BY Zenon, <1>1, <1>3, <2>1, <2>2, ReturnInv
<1>6. CASE NoRule
  <2>1. bind' \in [Target -> Target]
    BY Zenon, <1>2, <1>6, RuleForType DEF NoRule
  <2>2. UNCHANGED <<mk, flags, rule, line, ret, signalVars, child, disk, made,
                    failed, lost>>
    BY Zenon, <1>6 DEF NoRule
  <2>3. CASE Top.t \in mk.defined
    <3>1. Return(0, TRUE) /\ pc = "rebuild" /\ ~Top.err
      BY Zenon, <1>6, <2>3 DEF NoRule, Updating, AfterLoop
    <3>2. UNCHANGED <<exitstatus, status>>
      BY Zenon, <1>6, <2>3 DEF NoRule
    <3> QED BY Zenon, <1>1, <1>3, <2>1, <2>2, <3>1, <3>2, ReturnInv
  <2>4. CASE Top.t \notin mk.defined
    <3>1. exit(1) /\ UNCHANGED <<walk, bad>>
      BY Zenon, <1>6, <2>4 DEF NoRule
    <3>2. MakeTypeOK'
      BY Zenon, <2>1, <2>2, <3>1 DEF exit, MakeTypeOK, walk, signalVars, disk
    <3>3. Placed'
      BY Zenon, <3>1 DEF exit, Placed, InRun
    <3>4. WalkInv'
      BY Zenon, <3>1, FramesKept DEF exit, WalkInv, walk
    <3> QED BY Zenon, <3>2, <3>3, <3>4 DEF WalkInv
  <2> QED BY Zenon, <2>3, <2>4
<1>7. CASE Succeeded
  <2>1. Return(0, TRUE) /\ pc = "ret" /\ ~Top.err
    BY Zenon, <1>7 DEF Succeeded, Placed, InRun
  <2>2. UNCHANGED <<mk, flags, rule, line, ret, bind, exitstatus, status,
                    signalVars, child, disk, failed, lost>>
    BY Zenon, <1>7 DEF Succeeded
  <2>3. made' \subseteq Target
    BY Zenon, <1>3, <1>7 DEF Succeeded
  <2> QED BY Zenon, <1>1, <1>3, <2>1, <2>2, <2>3, ReturnInv
<1>8. CASE Failed
  <2>1. UNCHANGED <<mk, flags, rule, line, ret, bind, signalVars, child, disk,
                    made, lost>>
    BY Zenon, <1>8 DEF Failed
  <2>2. failed' \subseteq Target
    BY Zenon, <1>3, <1>8 DEF Failed
  <2>3. CASE Flag("k")
    <3>1. exitstatus' = 1 /\ Return(ret, TRUE) /\ ret # 0 /\ UNCHANGED status
          /\ pc = "ret"
      BY Zenon, <1>8, <2>3 DEF Failed
    <3> QED BY Zenon, <1>1, <1>3, <2>1, <2>2, <3>1, ReturnInv
  <2>4. CASE ~Flag("k")
    <3>1. exit(1) /\ UNCHANGED <<walk, bad>>
      BY Zenon, <1>8, <2>4 DEF Failed
    <3>2. MakeTypeOK'
      BY Zenon, <2>1, <2>2, <3>1 DEF exit, MakeTypeOK, walk, signalVars, disk
    <3>3. Placed'
      BY <3>1 DEF exit, Placed, InRun
    <3>4. WalkInv'
      BY <3>1, FramesKept DEF exit, WalkInv, walk
    <3> QED BY <3>2, <3>3, <3>4 DEF WalkInv
  <2> QED BY Zenon, <2>3, <2>4
<1> QED BY Zenon, <1>4, <1>5, <1>6, <1>7, <1>8

(* rebuild() calls update() and update() calls run(): only after the loop, and  *)
(* with no error                                                             *)
LEMMA StartKeeps ==
  ASSUME MakeInv, StartRun
  PROVE  MakeInv'
<1> USE DEF MakeInv
<1>1. stack # <<>> /\ pc = "rebuild" /\ ~Top.err /\ Top.i > Len(deps[Top.t])
  BY Zenon DEF StartRun, Updating, AfterLoop, Placed
<1>2. /\ bind' \in [Target -> Target] /\ rule' \in Target \cup {None}
      /\ rule' # None /\ pc' \in {"touchdeps", "run"} /\ line' = 1
  BY Zenon, <1>1, TopType, RuleForType DEF StartRun
<1>3. UNCHANGED <<mk, flags, walk, ret, exitstatus, status, signalVars, child,
                  disk, history>>
  BY Zenon DEF StartRun
<1>4. MakeTypeOK'
  BY Zenon, <1>2, <1>3 DEF MakeTypeOK, InRun, walk, signalVars, disk, history
<1>5. Placed'
  BY Zenon, <1>1, <1>2, <1>3 DEF Placed, InRun, walk, Top
<1>6. WalkInv'
  BY Zenon, <1>3, FramesKept DEF WalkInv, walk, history
<1> QED BY <1>4, <1>5, <1>6 DEF WalkInv

(* The result of a line                                                      *)
LEMMA LineReturnsType ==
  ASSUME MakeTypeOK, NEW r \in Int, LineReturns(r)
  PROVE  pc' \in {"run", "ret"} /\ line' \in Nat /\ ret' \in Int
BY DEF LineReturns, MakeTypeOK

(* The steps inside run() that touch no file                                 *)
LEMMA RunKeeps ==
  ASSUME MakeInv,
         DryLine \/ RunLine \/ Block \/ Fork \/ NotForked \/ Wait \/ Reap
  PROVE  MakeInv'
<1>1. MakeTypeOK
  BY Zenon DEF MakeInv
<1>2. CASE DryLine
  <2>1. MakeTypeOK'
    <3>1. line' \in Nat
      <4>1. line \in Nat /\ line' = line + 1
        BY <1>1, <1>2, Zenon DEF DryLine, MakeTypeOK
      <4> QED BY <4>1
    <3>2. exitstatus' \in {0, 1}
      BY <1>1, <1>2, Zenon DEF DryLine, MakeTypeOK
    <3>3. UNCHANGED <<mk, walk, pc, rule, ret, bind, status, signalVars, child,
                      disk, history>>
      BY <1>2, Zenon DEF DryLine
    <3> QED BY <1>1, <3>1, <3>2, <3>3, ZenonT(30)
            DEF MakeTypeOK, walk, signalVars, disk, history
  <2> QED BY Zenon, <1>2, <2>1, QuietKeeps DEF DryLine, history
<1>3. CASE RunLine
  <2>1. MakeTypeOK'
    BY Zenon, <1>1, <1>3 DEF RunLine, MakeTypeOK, InRun, walk, signalVars, disk, history
  <2> QED BY Zenon, <1>3, <2>1, QuietKeeps DEF RunLine, InRun, history
<1>4. CASE Block
  <2>1. MakeTypeOK'
    BY Zenon, <1>1, <1>4 DEF Block, launched, MakeTypeOK, InRun, walk, signalVars, disk
  <2> QED BY Zenon, <1>4, <2>1, QuietKeeps DEF Block, launched, InRun
<1>5. CASE Fork
  <2>1. child' \in Children
    <3>0. bind \in [Target -> Target] /\ rule \in Target
      BY Zenon, <1>5 DEF Fork, MakeInv, MakeTypeOK, Placed, InRun
    <3>1. bind[rule] \in Target
      BY Zenon, <3>0
    <3> QED BY Zenon, <1>5, <3>1 DEF Fork, Children
  <2>2. MakeTypeOK'
    BY Zenon, <1>1, <1>5, <2>1 DEF Fork, launched, MakeTypeOK, InRun, walk, signalVars,
                            disk
  <2> QED BY Zenon, <1>5, <2>2, QuietKeeps DEF Fork, launched, InRun
<1>6. CASE NotForked
  <2>1. pc' \in {"run", "ret"} /\ line' \in Nat /\ ret' \in Int
    BY <1>1, <1>6, LineReturnsType DEF NotForked
  <2>2. MakeTypeOK'
    BY <1>1, <1>6, <2>1 DEF NotForked, launched, MakeTypeOK, InRun, walk,
                            signalVars, disk
  <2> QED BY Zenon, <1>6, <2>1, <2>2, QuietKeeps DEF NotForked, launched, InRun
<1>7. CASE Wait
  <2>1. MakeTypeOK'
    BY Zenon, <1>1, <1>7 DEF Wait, launched, MakeTypeOK, InRun, walk, signalVars, disk
  <2> QED BY Zenon, <1>7, <2>1, QuietKeeps DEF Wait, launched, InRun
<1>8. CASE Reap
  <2>1. child.code \in Int
    BY <1>1 DEF MakeTypeOK, NoChild, Children
  <2>2. pc' \in {"run", "ret"} /\ line' \in Nat /\ ret' \in Int
    BY Zenon, <1>1, <1>8, <2>1, LineReturnsType DEF Reap
  <2>3. MakeTypeOK'
    BY Zenon, <1>1, <1>8, <2>2 DEF Reap, NoChild, launched, MakeTypeOK, InRun, walk,
                            signalVars, disk
  <2> QED BY Zenon, <1>8, <2>2, <2>3, QuietKeeps DEF Reap, launched, InRun
<1> QED BY Zenon, <1>2, <1>3, <1>4, <1>5, <1>6, <1>7, <1>8

(* touch()                                                                   *)
LEMMA TouchKeeps ==
  ASSUME MakeInv, TouchDeps \/ RunDone
  PROVE  MakeInv'
<1>1. MakeTypeOK
  BY Zenon DEF MakeInv
<1>2. \A c \in Now : c \in Int
  BY <1>1 DEF Now, MakeTypeOK
<1>3. CASE TouchDeps
  <2>1. PICK n \in 0 .. Len(Touched(rule)), c \in Now :
          LET done == {Touched(rule)[k] : k \in 1 .. n} IN
          /\ file' = [t \in Target |-> IF t \in done THEN c ELSE file[t]]
          /\ clock' = c
          /\ IF n = Len(Touched(rule)) \/ Flag("i")
               THEN pc' = "run" /\ ret' = ret
               ELSE pc' = "ret" /\ ret' = 1
    BY Zenon, <1>3 DEF TouchDeps
  <2>2. file' \in [Target -> Int] /\ clock' \in Int
    <3> DEFINE done == {Touched(rule)[k] : k \in 1 .. n}
    <3>1. c \in Int /\ file \in [Target -> Int]
      BY Zenon, <1>1, <1>2 DEF MakeTypeOK
    <3>2. file' = [t \in Target |-> IF t \in done THEN c ELSE file[t]]
      BY Zenon, <2>1
    <3> HIDE DEF done
    <3> QED BY Zenon, <2>1, <3>1, <3>2
  <2>3. pc' \in {"run", "ret"} /\ ret' \in Int
    <3>1. \/ pc' = "run" /\ ret' = ret
          \/ pc' = "ret" /\ ret' = 1
      BY Zenon, <2>1
    <3>2. ret \in Int
      BY ZenonT(30), <1>1 DEF MakeTypeOK
    <3> QED BY <3>1, <3>2
  <2>4. UNCHANGED <<mk, flags, walk, rule, line, bind, exitstatus, status,
                    signalVars, child, torn, history>> /\ pc = "touchdeps"
    BY Zenon, <1>3 DEF TouchDeps
  <2>5. MakeTypeOK'
    BY ZenonT(30), <1>1, <2>2, <2>3, <2>4 DEF MakeTypeOK, InRun, walk, signalVars, history
  <2> QED BY Zenon, <2>3, <2>4, <2>5, QuietKeeps DEF InRun, history
<1>4. CASE RunDone
  <2>1. file' \in [Target -> Int] /\ clock' \in Int /\ ret' \in Int
    <3>1. file \in [Target -> Int] /\ clock \in Int
      BY Zenon, <1>1 DEF MakeTypeOK
    <3>2. CASE Flag("t")
      <4>1. PICK ok \in BOOLEAN, c \in Now :
              /\ file' = IF ok THEN [file EXCEPT ![bind[rule]] = c] ELSE file
              /\ clock' = c
              /\ ret' = IF ok \/ Flag("i") THEN 0 ELSE 1
        BY Zenon, <1>4, <3>2 DEF RunDone
      <4>2. [file EXCEPT ![bind[rule]] = c] \in [Target -> Int]
        BY <1>2, <3>1, Zenon
      <4> QED BY <1>2, <3>1, <4>1, <4>2
    <3>3. CASE ~Flag("t")
      <4>1. file' = file /\ clock' = clock /\ ret' = 0
        BY <1>4, <3>3, ZenonT(30) DEF RunDone
      <4> QED BY <3>1, <4>1
    <3> QED BY Zenon, <3>2, <3>3
  <2>2. UNCHANGED <<mk, flags, walk, rule, line, bind, exitstatus, status,
                    signalVars, child, torn, history>>
        /\ pc = "run" /\ pc' = "ret"
    BY Zenon, <1>4 DEF RunDone
  <2>3. MakeTypeOK'
    BY Zenon, <1>1, <2>1, <2>2 DEF MakeTypeOK, InRun, walk, signalVars, history
  <2> QED BY Zenon, <2>2, <2>3, QuietKeeps DEF InRun, history
<1> QED BY Zenon, <1>3, <1>4

(* A recipe line ends, a signal arrives or the mask is lifted                *)
LEMMA EnvironmentKeeps ==
  ASSUME MakeInv, ChildEnd \/ Signal \/ Deliver
  PROVE  MakeInv'
<1>1. MakeTypeOK
  BY Zenon DEF MakeInv
<1>2. CASE ChildEnd
  <2>0. child \in Children
    <3>1. child \in {NoChild} \cup Children
      BY Zenon, <1>1 DEF MakeTypeOK
    <3>2. child.st = "run" /\ NoChild.st = "none"
      BY Zenon, <1>2 DEF ChildEnd, NoChild
    <3> QED BY Zenon, <3>1, <3>2
  <2>1. child' \in Children
    BY Zenon, <1>2, <2>0 DEF ChildEnd, Children
  <2>2. file' \in [Target -> Int] /\ clock' \in Int
    <3>1. file \in [Target -> Int] /\ \A c \in Now : c \in Int
      BY SMTT(30), <1>1 DEF MakeTypeOK, Now
    <3>2. PICK c \in Now :
            /\ clock' = c
            /\ file' = [file EXCEPT ![child.target] = c] \/ file' = file
      BY Zenon, <1>2 DEF ChildEnd
    <3>3. [file EXCEPT ![child.target] = c] \in [Target -> Int]
      BY <3>1, Zenon
    <3> QED BY Zenon, <3>1, <3>2, <3>3
  <2>3. torn' \subseteq Target
    <3>1. child.target \in Target
      BY Zenon, <2>0 DEF Children
    <3>2. torn' = torn \/ torn' = torn \ {child.target}
            \/ torn' = torn \cup {child.target}
      BY Zenon, <1>2 DEF ChildEnd
    <3> QED BY Zenon, <1>1, <3>1, <3>2 DEF MakeTypeOK
  <2>4. UNCHANGED <<mk, flags, walk, running, exitstatus, status, signalVars,
                    history>>
    BY Zenon, <1>2 DEF ChildEnd
  <2>5. MakeTypeOK'
    BY <1>1, <2>1, <2>2, <2>3, <2>4 DEF MakeTypeOK, walk, running, signalVars,
                                        history
  <2> QED BY Zenon, <2>4, <2>5, QuietKeeps DEF running, history
<1>3. CASE Signal
  <2>1. /\ pc' = pc \/ (pc = "wait" /\ pc' \in {"run", "ret"})
        /\ line' \in Nat /\ ret' \in Int /\ lost' \in BOOLEAN
    <3>1. line \in Nat /\ ret \in Int /\ lost \in BOOLEAN
      BY Zenon, <1>1 DEF MakeTypeOK
    <3>2. \/ UNCHANGED <<pc, line, ret, lost>>
          \/ pc = "wait" /\ lost' = TRUE /\ \E r \in {0, 1} : LineReturns(r)
      BY Zenon, <1>3 DEF Signal, Interrupted
    <3>3. ASSUME NEW r \in {0, 1}, LineReturns(r)
          PROVE  pc' \in {"run", "ret"} /\ line' \in Nat /\ ret' \in Int
      <4>1. r \in Int
        OBVIOUS
      <4> QED BY Zenon, <1>1, <3>3, <4>1, LineReturnsType
    <3> QED BY Zenon, <3>1, <3>2, <3>3
  <2>2. stop' \in BOOLEAN /\ pend' \in BOOLEAN /\ signals' \in Nat
    <3>1. stop \in BOOLEAN /\ pend \in BOOLEAN /\ signals \in Nat
      BY Zenon, <1>1 DEF MakeTypeOK
    <3>2. signals' = signals + 1
      BY Zenon, <1>3 DEF Signal
    <3>3. signals' \in Nat
      BY <3>1, <3>2
    <3>4. stop' \in BOOLEAN /\ pend' \in BOOLEAN
      BY <1>3, <3>1, Zenon DEF Signal
    <3> QED BY Zenon, <3>3, <3>4
  <2>3. UNCHANGED <<launched, child>>
    BY Zenon, <1>3 DEF Signal
  <2>4. MakeTypeOK'
    BY Zenon, <1>1, <2>1, <2>2, <2>3 DEF MakeTypeOK, InRun, launched, walk, disk
  <2> QED BY Zenon, <2>1, <2>3, <2>4, QuietKeeps DEF launched, InRun
<1>4. CASE Deliver
  <2>1. MakeTypeOK'
    BY ZenonT(30), <1>1, <1>4 DEF Deliver, launched, MakeTypeOK, walk, disk
  <2> QED BY Zenon, <1>4, <2>1, QuietKeeps DEF Deliver, launched
<1> QED BY Zenon, <1>2, <1>3, <1>4

-----------------------------------------------------------------------------
(* The theorems.                                                             *)

(* No recipe has run and nothing has failed when make starts                  *)
LEMMA InitMakeInv == Init => MakeInv
<1> SUFFICES ASSUME Init PROVE MakeInv
  BY Zenon
<1>1. mk \in Makefiles
  BY Zenon DEF Init, Makefiles
<1>2. mk.edges \in Seq(Target \X Target) /\ mk.goals \in Seq(Target)
  BY Zenon, <1>1, MakefileType
<1>3. MakeTypeOK
  <2>0. /\ deps = [t \in Target |-> <<>>] /\ stack = <<>>
        /\ stamp = [t \in Target |-> -1] /\ bind = [t \in Target |-> t]
        /\ file \in [Target -> -1 .. StartClock] /\ clock = StartClock
    BY Zenon DEF Init
  <2>a. deps \in [Target -> Seq(Target)]
    BY <2>0
  <2>b. stack \in Seq(Frames)
    BY <2>0
  <2>c. stamp \in [Target -> Int]
    BY <2>0
  <2>d. bind \in [Target -> Target]
    BY Zenon, <2>0
  <2>1. /\ deps \in [Target -> Seq(Target)] /\ stack \in Seq(Frames)
        /\ stamp \in [Target -> Int] /\ bind \in [Target -> Target]
    BY Zenon, <2>a, <2>b, <2>c, <2>d
  <2>2. file \in [Target -> Int] /\ clock \in Int
    <3>0. StartClock \in Nat
      BY MakeAssumption, Zenon
    <3>1. -1 .. StartClock \subseteq Int /\ StartClock \in Int
      BY <3>0
    <3> QED BY Zenon, <2>0, <3>1
  <2>3. /\ edges \in Seq(Target \X Target) /\ goals \in Seq(Target)
        /\ child \in {NoChild} \cup Children
    BY Zenon, <1>2 DEF Init
  <2>4. /\ pc = "parse" /\ rule = None /\ line = 1 /\ ret = 0
        /\ exitstatus = 0 /\ status = "run" /\ signals = 0
        /\ torn = {} /\ bad = {} /\ made = {} /\ failed = {}
    BY Zenon DEF Init
  <2>5. stop \in BOOLEAN /\ pend \in BOOLEAN
        /\ lost \in BOOLEAN
    BY Zenon DEF Init
  <2> QED BY <1>1, <2>1, <2>2, <2>3, <2>4, <2>5 DEF MakeTypeOK
<1>4. Placed
  BY Zenon DEF Init, Placed, InRun
<1>5. Chain /\ BadSeen /\ ErrTold
  BY SMTT(30) DEF Init, Chain, BadSeen, ErrTold
<1> QED BY Zenon, <1>3, <1>4, <1>5 DEF MakeInv

(* One step of make, of a recipe or of the signals                           *)
LEMMA NextMakeInv == MakeInv /\ [Next]_makeVars => MakeInv'
<1> SUFFICES ASSUME MakeInv, [Next]_makeVars PROVE MakeInv'
  BY Zenon
<1>1. CASE Step
  <2>1. CASE StopInLoop \/ StopInRun \/ StopAfterRun
    BY Zenon, <2>1, CleanupKeeps DEF StopInLoop, StopInRun, StopAfterRun
  <2> QED BY Zenon, <1>1, <2>1, ParseKeeps, GoalKeeps, VisitKeeps, DecideKeeps,
             StartKeeps, RunKeeps, TouchKeeps DEF Step
<1>2. CASE Deliver \/ ChildEnd \/ Signal
  BY Zenon, <1>2, EnvironmentKeeps
<1>3. CASE UNCHANGED makeVars
  <2>1. MakeTypeOK'
    BY <1>3, ZenonT(30) DEF makeVars, MakeInv, MakeTypeOK, walk, running, signalVars, disk,
                history
  <2> QED BY Zenon, <1>3, <2>1, QuietKeeps DEF makeVars, running, history
<1> QED BY Zenon, <1>1, <1>2, <1>3 DEF Next

(* MakeInv holds in every state of every invocation: the activations of        *)
(* rebuild() call each other along the prerequisites, and an error below is    *)
(* known above.                                                              *)
THEOREM MakeInvariant == Spec => []MakeInv
<1> QED BY InitMakeInv, NextMakeInv, PTL DEF Spec

(* A recipe line starts only in launch(), after rebuild()'s loop and without   *)
(* an error in it                                                            *)
LEMMA ForksOnlyInFork ==
  ASSUME MakeInv, [Next]_makeVars, Forks
  PROVE  Fork
<1>1. CASE Step
  <2>1. AddDep \/ Parsed \/ Goal \/ AllDone \/ VisitDep \/ NotRemade
          \/ NotNeeded \/ StartRun => child' = child
    BY Zenon DEF AddDep, Parsed, Goal, AllDone, VisitDep, NotRemade, NotNeeded, StartRun
  <2>2. StopInLoop \/ StopInRun \/ StopAfterRun => child' = child
    BY Zenon DEF StopInLoop, StopInRun, StopAfterRun, cleanup
  <2>3. NoRule => child' = child
    BY Zenon DEF NoRule
  <2>4. TouchDeps \/ DryLine \/ RunLine \/ RunDone => child' = child
    BY Zenon DEF TouchDeps, DryLine, RunLine, RunDone
  <2>5. Succeeded => child' = child
    BY Zenon DEF Succeeded
  <2>6. Failed => child' = child
    BY Zenon DEF Failed
  <2>7. Block \/ NotForked \/ Wait => child' = child
    BY Zenon DEF Block, NotForked, Wait
  <2>8. Reap => child'.st # "run"
    BY DEF Reap, NoChild
  <2>9. child' # child /\ child'.st = "run"
    BY Zenon DEF Forks
  <2> QED BY Zenon, <1>1, <2>1, <2>2, <2>3, <2>4, <2>5, <2>6, <2>7, <2>8, <2>9 DEF Step
<1>2. CASE ChildEnd
  BY Zenon, <1>2 DEF Forks, ChildEnd
<1>3. CASE Signal \/ Deliver
  BY Zenon, <1>3 DEF Forks, Signal, Deliver
<1>4. CASE UNCHANGED makeVars
  BY Zenon, <1>4 DEF Forks, makeVars
<1> QED BY Zenon, <1>1, <1>2, <1>3, <1>4 DEF Next

(* No recipe line starts once a signal has been taken, at whatever point it    *)
(* came: the mask of launch() closes the gap after run()'s own test.          *)
THEOREM NoRecipeAfterSignal == Spec => NoForkAfterSignal
<1>1. Init => Noticed
  BY DEF Init, Noticed
<1>2. MakeInv /\ Noticed /\ [Next]_makeVars => Noticed'
  <2> SUFFICES ASSUME Noticed, [Next]_makeVars PROVE Noticed'
    BY Zenon
  <2>1. CASE UNCHANGED signalVars
    BY Zenon, <2>1 DEF signalVars, Noticed
  <2>2. CASE Step
    <3>1. UNCHANGED signalVars
      BY Zenon, <2>2 DEF Step, AddDep, Parsed, Goal, AllDone, VisitDep, StopInLoop, NotRemade,
                  NotNeeded, NoRule, StartRun, TouchDeps, StopInRun, DryLine, RunLine,
                  RunDone, Succeeded, StopAfterRun, Failed, Block, Fork, NotForked, Wait,
                  Reap, cleanup
    <3>2. QED
      BY Zenon, <2>1, <3>1
  <2>3. CASE Deliver
    BY Zenon, <2>3 DEF Deliver, Noticed
  <2>4. CASE ChildEnd
    BY Zenon, <2>1, <2>4 DEF ChildEnd
  <2>5. CASE Signal
    BY Zenon, <2>5 DEF Signal, Noticed
  <2>6. CASE UNCHANGED makeVars
    BY Zenon, <2>1, <2>6 DEF makeVars
  <2>7. QED
    BY Zenon, <2>2, <2>3, <2>4, <2>5, <2>6 DEF Next
<1>3. ASSUME MakeInv, Noticed, [Next]_makeVars, Forks PROVE signals = 0 \/ pend
  <2>1. ~stop
    BY Zenon, <1>3, ForksOnlyInFork DEF Fork
  <2>2. signals \in Nat
    BY Zenon, <1>3 DEF MakeInv, MakeTypeOK
  <2>3. QED
    BY SMTT(30), <1>3, <2>1, <2>2 DEF Noticed
<1>4. MakeInv /\ Noticed /\ [Next]_makeVars => [Forks => signals = 0 \/ pend]_makeVars
  BY Zenon, <1>3
<1> QED BY <1>1, <1>2, <1>4, MakeInvariant, PTL DEF Spec, NoForkAfterSignal

(* No recipe starts while a prerequisite of its target is known to have failed, *)
(* whichever activation met the failure and however often the prerequisite has  *)
(* been visited since.                                                       *)
THEOREM NoRecipeAfterError == Spec => NotMadeAfterError
<1>1. ASSUME MakeInv, [Next]_makeVars, Forks
      PROVE  SeqElems(deps[Top.t]) \cap bad = {}
  <2>1. pc = "masked"
    BY Zenon, <1>1, ForksOnlyInFork DEF Fork
  <2>2. stack # <<>> /\ ~Top.err /\ Top.i > Len(deps[Top.t])
    BY Zenon, <1>1, <2>1 DEF MakeInv, Placed, InRun
  <2>3. /\ Len(stack) \in Nat \ {0} /\ Top.i \in Nat
        /\ deps[Top.t] \in Seq(Target) /\ Len(deps[Top.t]) \in Nat
    BY Zenon, <1>1, <2>2, TopType DEF MakeInv
  <2>4. SUFFICES ASSUME NEW n \in 1 .. Len(deps[Top.t]), deps[Top.t][n] \in bad
                 PROVE  FALSE
    BY <2>3 DEF SeqElems
  <2>5. n < Top.i
    BY <2>2, <2>3
  <2>6. PICK m \in Len(stack) .. Len(stack) : stack[m].err
    BY <1>1, <2>3, <2>4, <2>5, SMTT(30) DEF MakeInv, BadSeen, Top
  <2>7. m = Len(stack)
    BY <2>3
  <2> QED BY Zenon, <2>2, <2>6, <2>7 DEF Top
<1>2. MakeInv /\ [Next]_makeVars =>
        [Forks => SeqElems(deps[Top.t]) \cap bad = {}]_makeVars
  BY Zenon, <1>1
<1> QED BY <1>2, MakeInvariant, PTL DEF Spec, NotMadeAfterError

(* A failure met anywhere in the walk reaches the exit status.                *)
THEOREM FailureReachesExit == Spec => []ExitHonest
<1>1. MakeInv => ExitHonest
  BY Zenon DEF MakeInv, ErrTold, ExitHonest
<1> QED BY <1>1, MakeInvariant, PTL

-----------------------------------------------------------------------------
(* What is left half written, of makefiles in which no rule of .SUFFIXES is a   *)
(* goal or a prerequisite.                                                   *)

Plain == Target \ SeqElems(mk.suffixes)

PlainMakefile(m) ==
  LET plain == Target \ SeqElems(m.suffixes) IN
  m.edges \in Seq(Target \X plain) /\ m.goals \in Seq(plain)

Met == SeqElems(mk.goals) \cup {e[2] : e \in SeqElems(mk.edges)}

(* The walk meets goals and prerequisites only, and only an inference rule is   *)
(* bound to another target                                                   *)
PlainWalk ==
  /\ edges \in Seq(Target \X Met) /\ goals \in Seq(Met)
  /\ deps \in [Target -> Seq(Met)]
  /\ \A k \in 1 .. Len(stack) : stack[k].t \in Met
  /\ \A r \in Plain : bind[r] = r

InLaunch == {"launch", "masked", "forked", "wait"}

(* run() is given the target itself, or a rule that writes a target without     *)
(* actions                                                                   *)
Writes ==
  pc \in InRun =>
    \/ rule = Top.t /\ bind[rule] = Top.t
    \/ ~HasActions(bind[rule])
    \/ bind[rule] = Default

(* The child is the line that run() is at                                    *)
Waited ==
  child # NoChild =>
    /\ pc \in {"forked", "wait"}
    /\ child.target = bind[rule]
    /\ child.last <=> line = mk.lines[rule]
    /\ child.st = "exited" /\ child.code = 0 /\ child.last => child.target \notin torn

Tidy(t) == t \in mk.precious \cup failed \/ ~HasActions(t)

Untidy == {t \in torn : ~Tidy(t)}

(* Only the target that run() works on is half written, and not when its lines  *)
(* have all succeeded                                                        *)
OneTorn ==
  /\ torn \cap (mk.phony \cup {Default}) = {}
  /\ Untidy # {} => pc \in InRun /\ rule = Top.t /\ Untidy \subseteq {rule}
  /\ pc = "touchdeps" => Untidy = {}
  /\ pc = "run" /\ line > mk.lines[rule] => Untidy = {}
  /\ pc = "ret" /\ ret = 0 => Untidy = {}
  /\ status = "killed" => Untidy = {}
  /\ Dry => torn = {} /\ pc \notin InLaunch
  /\ pc \in InLaunch => line <= mk.lines[rule]

Clean == Writes /\ Waited /\ OneTorn

Followed == ~lost /\ ~Flag("i")

TornInv == PlainWalk /\ Met \subseteq Plain /\ (Followed => Clean)

(* inference() finds a rule of .SUFFIXES                                     *)
LEMMA InferenceRule ==
  ASSUME MakeTypeOK, NEW t \in Target, NEW force \in BOOLEAN,
         inference(t, force) # None
  PROVE  inference(t, force) \in SeqElems(mk.suffixes)
<1>1. Usable(t, force) # {}
  BY Zenon DEF inference
<1>2. Usable(t, force) \subseteq DOMAIN mk.suffixes
  BY Zenon DEF Usable
<1>3. First(Usable(t, force)) \in DOMAIN mk.suffixes
  BY Zenon, <1>1, <1>2, FirstIn
<1> QED BY Zenon, <1>1, <1>3 DEF inference, SeqElems

(* Only a rule of .SUFFIXES is bound to a target                             *)
LEMMA PlainBound ==
  ASSUME MakeTypeOK, PlainWalk, NEW t \in Target
  PROVE  /\ \A r \in Plain : Bound(bind, Newer(t), t)[r] = r
         /\ \A r \in Plain : BoundFor(t)[r] = r
<1>1. ASSUME NEW b \in [Target -> Target], \A r \in Plain : b[r] = r,
             NEW x, x = None \/ x \in SeqElems(mk.suffixes)
      PROVE  \A r \in Plain : Bound(b, x, t)[r] = r
  BY Zenon, <1>1 DEF Bound, Plain
<1>2. bind \in [Target -> Target] /\ \A r \in Plain : bind[r] = r
  BY Zenon DEF MakeTypeOK, PlainWalk
<1>3. Newer(t) = None \/ Newer(t) \in SeqElems(mk.suffixes)
  BY Zenon, InferenceRule DEF Newer
<1>4. inference(t, TRUE) = None \/ inference(t, TRUE) \in SeqElems(mk.suffixes)
  BY Zenon, InferenceRule
<1>5. \A r \in Plain : Bound(bind, Newer(t), t)[r] = r
  BY Zenon, <1>1, <1>2, <1>3
<1>6. Bound(bind, Newer(t), t) \in [Target -> Target]
  BY Zenon, RuleForType
<1>7. \A r \in Plain : BoundFor(t)[r] = r
  BY Zenon, <1>1, <1>4, <1>5, <1>6 DEF BoundFor
<1> QED BY Zenon, <1>5, <1>7

(* Goals and prerequisites are targets                                       *)
LEMMA MetType ==
  ASSUME MakeTypeOK
  PROVE  Met \subseteq Target
<1>1. mk.goals \in Seq(Target) /\ mk.edges \in Seq(Target \X Target)
  BY Zenon, MakefileType DEF MakeTypeOK
<1> QED BY SMTT(30), <1>1 DEF Met, SeqElems

(* Steps that leave the walk alone                                           *)
LEMMA PlainSame ==
  ASSUME PlainWalk, UNCHANGED <<mk, walk>>,
         bind' = bind \/ \A r \in Plain : bind'[r] = r
  PROVE  PlainWalk'
<1>1. Plain' = Plain /\ Met' = Met
  BY Zenon DEF Plain, Met
<1> QED BY Zenon, <1>1 DEF PlainWalk, walk

(* A return of rebuild()                                                     *)
LEMMA PlainReturn ==
  ASSUME MakeInv, PlainWalk, stack # <<>>, NEW r, NEW built \in BOOLEAN,
         Return(r, built), mk' = mk,
         bind' = bind \/ \A x \in Plain : bind'[x] = x
  PROVE  PlainWalk'
<1>1. Plain' = Plain /\ Met' = Met
  BY Zenon DEF Plain, Met
<1>2. /\ Len(stack) \in Nat \ {0} /\ Len(stack') = Len(stack) - 1
      /\ \A k \in 1 .. Len(stack) - 2 : stack'[k] = stack[k]
      /\ Len(stack) > 1 =>
           /\ stack[Len(stack) - 1] \in Frames
           /\ stack'[Len(stack) - 1] =
                Returned(stack[Len(stack) - 1], Top.t, r, built)
  BY Zenon, ReturnStack DEF MakeInv
<1>3. ASSUME NEW k \in 1 .. Len(stack') PROVE stack'[k].t \in Met
  <2>0. k \in 1 .. Len(stack) - 1 /\ Len(stack) \in Nat
    BY Zenon, <1>2, <1>3
  <2>1. k \in 1 .. Len(stack) /\ (k # Len(stack) - 1 => k \in 1 .. Len(stack) - 2)
    BY Zenon, <2>0, Positions
  <2>2. stack[k].t \in Met
    BY Zenon, <2>1 DEF PlainWalk
  <2>3. CASE k = Len(stack) - 1
    <3>1. Len(stack) > 1
      BY <2>0, <2>3
    <3>2. stack[k] \in Frames /\ stack'[k] = Returned(stack[k], Top.t, r, built)
      BY Zenon, <1>2, <2>3, <3>1
    <3>3. Returned(stack[k], Top.t, r, built).t = stack[k].t
      BY Zenon, <3>2, ReturnedTarget
    <3> QED BY Zenon, <2>2, <3>2, <3>3
  <2>4. CASE k # Len(stack) - 1
    BY Zenon, <1>2, <2>1, <2>2, <2>4
  <2> QED BY Zenon, <2>3, <2>4
<1> QED BY Zenon, <1>1, <1>3 DEF PlainWalk, Return

(* A call of rebuild()                                                       *)
LEMMA PlainEnter ==
  ASSUME MakeInv, PlainWalk, NEW t \in Met, Enter(t),
         UNCHANGED <<mk, edges, deps, bind>>, goals' \in Seq(Met)
  PROVE  PlainWalk'
<1>1. Plain' = Plain /\ Met' = Met
  BY Zenon DEF Plain, Met
<1>2. t \in Target
  BY Zenon, MetType DEF MakeInv
<1>3. /\ Len(stack') = Len(stack) + 1 /\ Len(stack) \in Nat
      /\ \A k \in 1 .. Len(stack) : stack'[k] = stack[k]
      /\ stack'[Len(stack) + 1] = Frame(t)
  BY Zenon, <1>2, EnterStack DEF MakeInv
<1>4. ASSUME NEW k \in 1 .. Len(stack') PROVE stack'[k].t \in Met
  <2>1. CASE k = Len(stack) + 1
    <3>1. Frame(t).t = t
      BY Zenon DEF Frame
    <3>2. stack'[k] = Frame(t)
      BY Zenon, <1>3, <2>1
    <3> QED BY Zenon, <3>1, <3>2
  <2>2. CASE k # Len(stack) + 1
    <3>1. k \in 1 .. Len(stack)
      BY Zenon, <1>3, <1>4, <2>2, Positions
    <3> QED BY ZenonT(30), <1>3, <3>1 DEF PlainWalk
  <2> QED BY ZenonT(30), <2>1, <2>2
<1> QED BY Zenon, <1>1, <1>4 DEF PlainWalk

(* The walk never meets a rule of .SUFFIXES                                  *)
LEMMA PlainStep ==
  ASSUME MakeInv, PlainWalk, [Next]_makeVars
  PROVE  PlainWalk'
<1> USE DEF MakeInv
<1>1. CASE AddDep
  <2>1. Plain' = Plain /\ Met' = Met
    BY ZenonT(30), <1>1 DEF AddDep, Plain, Met
  <2>2. edges \in Seq(Target \X Met) /\ edges # <<>>
    BY Zenon, <1>1 DEF AddDep, PlainWalk
  <2>3. Head(edges) \in Target \X Met /\ Tail(edges) \in Seq(Target \X Met)
    BY <2>2
  <2>4. Head(edges)[1] \in Target /\ Head(edges)[2] \in Met
    BY Zenon, <2>3
  <2>5. ASSUME NEW t \in Target, NEW d \in Met
        PROVE  adddep(t, d) \in [Target -> Seq(Met)]
    <3>1. deps \in [Target -> Seq(Met)] /\ deps[t] \in Seq(Met)
      BY Zenon DEF PlainWalk
    <3>2. Append(deps[t], d) \in Seq(Met)
      BY <3>1
    <3> QED BY Zenon, <3>1, <3>2 DEF adddep
  <2>6. deps' \in [Target -> Seq(Met)] /\ edges' \in Seq(Target \X Met)
    BY Zenon, <1>1, <2>3, <2>4, <2>5 DEF AddDep
  <2> QED BY Zenon, <1>1, <2>1, <2>6 DEF AddDep, PlainWalk, running
<1>2. CASE Goal
  <2>1. goals \in Seq(Met) /\ goals # <<>>
    BY Zenon, <1>2 DEF Goal, PlainWalk
  <2>2. Head(goals) \in Met /\ Tail(goals) \in Seq(Met)
    BY SMTT(30), <2>1
  <2> QED BY Zenon, <1>2, <2>2, PlainEnter DEF Goal
<1>3. CASE VisitDep
  <2>1. stack # <<>>
    BY Zenon, <1>3 DEF VisitDep, InLoop, Placed
  <2>2. Top.t \in Target /\ Top.i \in Nat \ {0} /\ Top.i <= Len(deps[Top.t])
    BY Zenon, <1>3, <2>1, TopType DEF VisitDep, InLoop
  <2>3. deps[Top.t] \in Seq(Met)
    BY Zenon, <2>2 DEF PlainWalk
  <2>4. deps[Top.t][Top.i] \in Met
    BY <2>2, <2>3
  <2>5. edges' \in Seq(Target \X Met) /\ goals' \in Seq(Met)
    BY Zenon, <1>3 DEF VisitDep, PlainWalk
  <2> QED BY Zenon, <1>3, <2>4, <2>5, PlainEnter DEF VisitDep, running
<1>4. CASE NotRemade \/ NotNeeded \/ NoRule \/ StartRun
  <2>1. stack # <<>>
    BY Zenon, <1>4 DEF NotRemade, NotNeeded, NoRule, StartRun, Updating, AfterLoop, Placed
  <2>2. Top.t \in Target
    BY Zenon, <2>1, TopType
  <2>3. /\ \A r \in Plain : Bound(bind, Newer(Top.t), Top.t)[r] = r
        /\ \A r \in Plain : BoundFor(Top.t)[r] = r
    BY Zenon, <2>2, PlainBound
  <2>4. bind' = bind \/ \A r \in Plain : bind'[r] = r
    BY Zenon, <1>4, <2>3 DEF NotRemade, NotNeeded, NoRule, StartRun
  <2>5. mk' = mk /\ (UNCHANGED walk \/ Return(1, FALSE) \/ Return(0, FALSE)
                       \/ Return(0, TRUE))
    BY Zenon, <1>4 DEF NotRemade, NotNeeded, NoRule, StartRun
  <2> QED BY Zenon, <2>1, <2>4, <2>5, PlainSame, PlainReturn
<1>5. CASE Succeeded \/ Failed
  <2>1. stack # <<>>
    BY Zenon, <1>5 DEF Succeeded, Failed, Placed, InRun
  <2>2. bind' = bind /\ mk' = mk
          /\ (UNCHANGED walk \/ Return(0, TRUE) \/ Return(ret, TRUE))
    BY Zenon, <1>5 DEF Succeeded, Failed
  <2> QED BY Zenon, <2>1, <2>2, PlainSame, PlainReturn
<1>6. CASE Parsed \/ AllDone \/ TouchDeps \/ DryLine \/ RunLine \/ RunDone
  BY Zenon, <1>6, PlainSame DEF Parsed, AllDone, TouchDeps, DryLine, RunLine, RunDone
<1>7. CASE StopInLoop \/ StopInRun \/ StopAfterRun
  BY Zenon, <1>7, PlainSame DEF StopInLoop, StopInRun, StopAfterRun, cleanup
<1>8. CASE Block \/ Fork \/ NotForked \/ Wait \/ Reap
  BY Zenon, <1>8, PlainSame DEF Block, Fork, NotForked, Wait, Reap, launched
<1>9. CASE Deliver \/ ChildEnd \/ Signal
  BY Zenon, <1>9, PlainSame DEF Deliver, ChildEnd, Signal, launched, running
<1>10. CASE UNCHANGED makeVars
  BY Zenon, <1>10, PlainSame DEF makeVars, running
<1> QED BY Zenon, <1>1, <1>2, <1>3, <1>4, <1>5, <1>6, <1>7, <1>8, <1>9, <1>10
        DEF Next, Step

(* What counts as half written depends on the disk and on the failures alone    *)
LEMMA UntidySame ==
  ASSUME UNCHANGED <<mk, torn, failed>>
  PROVE  Untidy' = Untidy
BY Zenon DEF Untidy, Tidy, HasActions

(* Outside run() nothing is half written, and no child runs                  *)
LEMMA AtRest ==
  ASSUME MakeInv, Clean,
         pc \notin InRun \/ pc = "touchdeps" \/ (pc = "ret" /\ ret = 0)
           \/ (pc = "run" /\ line > mk.lines[rule])
  PROVE  Untidy = {} /\ child = NoChild
<1>1. child = NoChild
  BY Zenon DEF Clean, Waited, InRun
<1>2. Untidy = {}
  BY Zenon DEF Clean, OneTorn
<1> QED BY Zenon, <1>1, <1>2

(* A step that ends outside run(), with nothing half written                 *)
LEMMA ComeToRest ==
  ASSUME Clean, UNCHANGED <<mk, flags>>, pc' \notin InRun, child' = NoChild,
         torn' \subseteq torn, Untidy' = {}
  PROVE  Clean'
<1>1. Writes' /\ Waited'
  BY Zenon DEF Writes, Waited, InRun
<1>2. (Dry => torn = {})' /\ (torn \cap (mk.phony \cup {Default}) = {})'
  BY Zenon DEF Clean, OneTorn, Dry
<1>3. pc' \notin InLaunch /\ pc' # "run" /\ pc' # "ret" /\ pc' # "touchdeps"
  BY Zenon DEF InRun, InLaunch
<1>4. OneTorn'
  BY Zenon, <1>2, <1>3 DEF OneTorn
<1> QED BY Zenon, <1>1, <1>4 DEF Clean

(* cleanup() of the target in hand removes what is half written               *)
LEMMA CleanupTidies ==
  ASSUME MakeInv, Clean, NEW t, cleanup(t), Untidy \subseteq {t}
  PROVE  Untidy' = {} /\ torn' \subseteq torn
<1>1. torn' \subseteq torn /\ mk' = mk /\ failed' = failed
  BY Zenon DEF cleanup, history
<1>2. Untidy' = {x \in torn' : ~Tidy(x)}
  BY Zenon, <1>1 DEF Untidy, Tidy, HasActions
<1>3. Untidy' \subseteq Untidy
  BY Zenon, <1>1, <1>2 DEF Untidy
<1>4. ASSUME t \in Untidy PROVE t \notin torn'
  <2>1. t \in torn /\ t \notin mk.precious
    BY Zenon, <1>4 DEF Untidy, Tidy
  <2>2. ~Dry
    BY Zenon, <2>1 DEF Clean, OneTorn
  <2>3. Removable(t)
    BY Zenon, <2>1, <2>2 DEF Removable, Dry, Flag
  <2> QED BY Zenon, <2>3 DEF cleanup
<1>5. Untidy' = {}
  <2>1. ASSUME NEW x \in Untidy' PROVE FALSE
    <3>1. x = t /\ x \in torn'
      BY Zenon, <1>2, <1>3
    <3> QED BY Zenon, <1>3, <1>4, <3>1
  <2> QED BY Zenon, <2>1
<1> QED BY Zenon, <1>1, <1>5

(* The steps of rebuild() and main(), and the returns of run()                *)
LEMMA RebuildCleans ==
  ASSUME MakeInv, Clean,
         \/ AddDep \/ Parsed \/ Goal \/ AllDone \/ VisitDep
         \/ NotRemade \/ NotNeeded \/ NoRule \/ Succeeded
  PROVE  Clean'
<1>1. pc \notin InRun \/ (pc = "ret" /\ ret = 0)
  BY Zenon DEF AddDep, Parsed, Goal, AllDone, VisitDep, NotRemade, NotNeeded, NoRule,
         Succeeded, Updating, AfterLoop, InLoop, InRun
<1>2. Untidy = {} /\ child = NoChild
  BY Zenon, <1>1, AtRest
<1>3. UNCHANGED <<mk, flags, torn, failed, child>>
  BY Zenon DEF AddDep, Parsed, Goal, AllDone, VisitDep, NotRemade, NotNeeded, NoRule,
         Succeeded, disk, history
<1>4. pc' \notin InRun
  BY Zenon DEF AddDep, Parsed, Goal, AllDone, VisitDep, NotRemade, NotNeeded, NoRule,
         Succeeded, InLoop, exit, Return, InRun, running
<1> QED BY Zenon, <1>2, <1>3, <1>4, UntidySame, ComeToRest

(* Every way to the end by a signal                                          *)
LEMMA StopCleans ==
  ASSUME MakeInv, Clean, StopInLoop \/ StopInRun \/ StopAfterRun
  PROVE  Clean'
<1>1. PICK t : cleanup(t) /\ Untidy \subseteq {t} /\ child = NoChild
  <2>1. CASE StopInLoop
    BY Zenon, <2>1, AtRest DEF StopInLoop, InLoop, InRun
  <2>2. CASE StopInRun
    <3>1. cleanup(rule) /\ child = NoChild
      BY Zenon, <2>2 DEF StopInRun, Clean, Waited
    <3>2. Untidy \subseteq {rule}
      BY Zenon DEF Clean, OneTorn
    <3> QED BY Zenon, <3>1, <3>2
  <2>3. CASE StopAfterRun
    <3>1. cleanup(Top.t) /\ child = NoChild
      BY Zenon, <2>3 DEF StopAfterRun, Clean, Waited
    <3>2. Untidy \subseteq {Top.t}
      BY Zenon DEF Clean, OneTorn
    <3> QED BY Zenon, <3>1, <3>2
  <2> QED BY Zenon, <2>1, <2>2, <2>3
<1>2. Untidy' = {} /\ torn' \subseteq torn
  BY Zenon, <1>1, CleanupTidies
<1>3. UNCHANGED <<mk, flags, child>> /\ pc' \notin InRun
  BY Zenon, <1>1 DEF cleanup, InRun
<1> QED BY Zenon, <1>1, <1>2, <1>3, ComeToRest

(* A recipe that failed                                                      *)
LEMMA FailedCleans ==
  ASSUME MakeInv, Clean, Failed
  PROVE  Clean'
<1>1. child = NoChild
  BY Zenon DEF Failed, Clean, Waited
<1>2. UNCHANGED <<mk, flags, torn, child>> /\ failed' = failed \cup {Top.t}
  BY Zenon DEF Failed, disk
<1>3. pc' \notin InRun
  BY Zenon DEF Failed, Return, exit, InRun
<1>4. Untidy \subseteq {Top.t}
  BY Zenon DEF Clean, OneTorn
<1>5. Untidy' = {}
  BY Zenon, <1>2, <1>4 DEF Untidy, Tidy, HasActions
<1> QED BY Zenon, <1>1, <1>2, <1>3, <1>5, ComeToRest

(* A step inside run(): what remains to be shown is what its new place needs    *)
LEMMA StayInRun ==
  ASSUME MakeInv, Clean,
         UNCHANGED <<mk, flags, stack, rule, bind, torn, failed, status>>,
         pc \in InRun, pc' \in InRun, Waited',
         pc' = "touchdeps" => Untidy = {},
         pc' = "run" /\ line' > mk.lines[rule] => Untidy = {},
         pc' = "ret" /\ ret' = 0 => Untidy = {},
         pc' \in InLaunch => ~Dry /\ line' <= mk.lines[rule]
  PROVE  Clean'
<1>1. Untidy' = Untidy
  BY Zenon, UntidySame
<1>2. Writes'
  BY Zenon DEF Clean, Writes, Top, HasActions
<1>3. Top' = Top /\ Dry' = Dry
  BY Zenon DEF Top, Dry
<1>4. OneTorn'
  BY Zenon, <1>1, <1>3 DEF Clean, OneTorn
<1> QED BY Zenon, <1>2, <1>4 DEF Clean

(* update() chooses what run() runs: the target itself, or a rule for it       *)
LEMMA StartWrites ==
  ASSUME MakeInv, PlainWalk, Met \subseteq Plain, StartRun
  PROVE  Writes'
<1> USE DEF MakeInv
<1>2. /\ UNCHANGED <<mk, stack>>
      /\ rule' = RuleFor(Top.t) /\ bind' = BoundFor(Top.t)
  BY Zenon DEF StartRun, walk
<1>3. stack # <<>>
  BY Zenon DEF StartRun, Updating, AfterLoop, Placed
<1>4. Top.t \in Target /\ Top' = Top
  BY Zenon, <1>2, <1>3, TopType DEF Top
<1>5. Top.t \in Plain
  BY Zenon, <1>3, TopType DEF PlainWalk, Top
<1>6. \A r \in Plain : bind'[r] = r
  BY Zenon, <1>2, <1>4, PlainBound
<1>7. \/ rule' = Top.t /\ bind'[rule'] = Top.t
      \/ ~HasActions(bind'[rule'])
      \/ bind'[rule'] = Default
  <2>1. CASE HasActions(Top.t)
    <3>1. rule' = Top.t
      BY Zenon, <1>2, <2>1 DEF RuleFor
    <3> QED BY Zenon, <1>5, <1>6, <3>1
  <2>2. CASE ~HasActions(Top.t) /\ inference(Top.t, TRUE) # None
    <3>1. rule' = inference(Top.t, TRUE)
      BY Zenon, <1>2, <2>2 DEF RuleFor
    <3>2. rule' \in Target
      BY Zenon, <1>4, <2>2, <3>1, InferenceType
    <3>3. Bound(bind, Newer(Top.t), Top.t) \in [Target -> Target]
      BY Zenon, <1>4, RuleForType
    <3>4. bind' = [Bound(bind, Newer(Top.t), Top.t) EXCEPT ![rule'] = Top.t]
      BY Zenon, <1>2, <2>2, <3>1 DEF BoundFor, Bound
    <3>5. bind'[rule'] = Top.t
      BY Zenon, <3>2, <3>3, <3>4
    <3> QED BY Zenon, <2>2, <3>5
  <2>3. CASE ~HasActions(Top.t) /\ inference(Top.t, TRUE) = None
    <3>1. rule' = Default
      BY Zenon, <1>2, <2>3 DEF RuleFor, StartRun
    <3>2. mk.suffixes \in Seq(Target \ {Default})
      BY Zenon, MakefileType DEF MakeTypeOK
    <3>3. Default \in Plain
      BY <3>2, MakeAssumption DEF Plain, SeqElems
    <3> QED BY Zenon, <1>6, <3>1, <3>3
  <2> QED BY Zenon, <2>1, <2>2, <2>3
<1> QED BY Zenon, <1>2, <1>4, <1>7 DEF Writes, HasActions

(* When run() starts nothing is half written                                 *)
LEMMA StartCleans ==
  ASSUME MakeInv, PlainWalk, Met \subseteq Plain, Clean, StartRun
  PROVE  Clean'
<1>1. Untidy = {} /\ child = NoChild
  BY Zenon, AtRest DEF StartRun, Updating, AfterLoop, InRun
<1>2. UNCHANGED <<mk, flags, torn, failed, child>> /\ pc' \in {"touchdeps", "run"}
  BY Zenon DEF StartRun, disk, history
<1>8. Untidy' = {}
  BY Zenon, <1>1, <1>2, UntidySame
<1>9. Writes'
  BY Zenon, StartWrites
<1>10. Waited'
  BY Zenon, <1>1, <1>2 DEF Waited
<1>11. /\ (Dry => torn = {})' /\ pc' \notin InLaunch
       /\ (torn \cap (mk.phony \cup {Default}) = {})'
  BY Zenon, <1>2 DEF Clean, OneTorn, Dry, InLaunch
<1>12. OneTorn'
  BY Zenon, <1>8, <1>11 DEF OneTorn
<1> QED BY Zenon, <1>9, <1>10, <1>12 DEF Clean

(* run() before and after its lines                                          *)
LEMMA RunCleans ==
  ASSUME MakeInv, Clean, TouchDeps \/ DryLine \/ RunLine \/ RunDone
  PROVE  Clean'
<1>1. /\ UNCHANGED <<mk, flags, stack, rule, bind, torn, failed, status, child>>
      /\ pc \in {"touchdeps", "run"} /\ pc' \in {"run", "ret", "launch"}
  BY Zenon DEF TouchDeps, DryLine, RunLine, RunDone, walk, disk, history
<1>2. child = NoChild /\ Waited'
  BY Zenon, <1>1 DEF Clean, Waited
<1>3. pc \in InRun /\ pc' \in InRun /\ pc' # "touchdeps"
  BY Zenon, <1>1 DEF InRun
<1>4. CASE TouchDeps \/ RunDone
  <2>1. Untidy = {} /\ pc' \notin InLaunch
    BY Zenon, <1>4, AtRest DEF TouchDeps, RunDone, InLaunch
  <2> QED BY Zenon, <1>1, <1>2, <1>3, <2>1, StayInRun
<1>5. CASE DryLine
  <2>1. Untidy = {} /\ pc' \notin InLaunch
    BY Zenon, <1>5 DEF DryLine, InLaunch, Clean, OneTorn, Untidy
  <2> QED BY Zenon, <1>1, <1>2, <1>3, <2>1, StayInRun
<1>6. CASE RunLine
  <2>1. pc' = "launch" /\ ~Dry /\ line' <= mk.lines[rule]
    BY Zenon, <1>6 DEF RunLine
  <2> QED BY Zenon, <1>1, <1>2, <1>3, <2>1, StayInRun
<1> QED BY Zenon, <1>4, <1>5, <1>6

(* launch()                                                                  *)
LEMMA LaunchCleans ==
  ASSUME MakeInv, PlainWalk, Met \subseteq Plain, Clean, ~Flag("i"),
         Block \/ Fork \/ NotForked \/ Wait \/ Reap
  PROVE  Clean'
<1> USE DEF MakeInv
<1>1. /\ UNCHANGED <<mk, flags, stack, rule, bind, torn, failed, status>>
      /\ pc \in InLaunch
  BY Zenon DEF Block, Fork, NotForked, Wait, Reap, launched, walk, disk, InLaunch
<1>2. pc \in InRun /\ ~Dry /\ line <= mk.lines[rule]
  BY Zenon, <1>1 DEF InLaunch, InRun, Clean, OneTorn
<1>3. CASE Block \/ Wait
  <2>1. child' = child /\ line' = line /\ pc' \in {"masked", "wait"}
        /\ (pc' = "wait" <=> pc = "forked")
    BY Zenon, <1>3 DEF Block, Wait
  <2>2. Waited'
    BY Zenon, <1>1, <1>3, <2>1 DEF Clean, Waited, Block, Wait
  <2>3. pc' \in InRun /\ pc' \notin {"touchdeps", "run", "ret"}
    BY Zenon, <2>1 DEF InRun
  <2> QED BY Zenon, <1>1, <1>2, <2>1, <2>2, <2>3, StayInRun
<1>4. CASE Fork
  <2>1. /\ line' = line /\ pc' = "forked"
        /\ child' = [st |-> "run", target |-> bind[rule],
                     last |-> line = mk.lines[rule], code |-> 0]
    BY Zenon, <1>4 DEF Fork
  <2>2. Waited'
    BY Zenon, <1>1, <2>1 DEF Waited
  <2>3. pc' \in InRun
    BY Zenon, <2>1 DEF InRun
  <2> QED BY Zenon, <1>1, <1>2, <2>1, <2>2, <2>3, StayInRun
<1>5. CASE NotForked
  <2>1. pc' = "ret" /\ ret' # 0 /\ child' = child /\ pc = "masked"
    BY SMTT(30), <1>5 DEF NotForked, LineReturns
  <2>2. Waited'
    BY Zenon, <2>1 DEF Clean, Waited
  <2>3. pc' \in InRun /\ pc' \notin InLaunch
    BY Zenon, <2>1 DEF InRun, InLaunch
  <2> QED BY Zenon, <1>1, <1>2, <2>1, <2>2, <2>3, StayInRun
<1>6. CASE Reap
  <2>1. /\ child' = NoChild /\ child.st = "exited" /\ child # NoChild
        /\ IF child.code = 0 THEN pc' = "run" /\ line' = line + 1
                             ELSE pc' = "ret" /\ ret' = child.code
    BY <1>6, SMTT(30) DEF Reap, LineReturns, NoChild
  <2>2. Waited'
    BY Zenon, <2>1 DEF Waited
  <2>3. pc' \in InRun /\ pc' \notin InLaunch /\ pc' # "touchdeps"
    BY Zenon, <2>1 DEF InRun, InLaunch
  <2>4. ASSUME pc' = "run", line' > mk.lines[rule] PROVE Untidy = {}
    <3>1. child.code = 0 /\ line' = line + 1
      BY Zenon, <2>1, <2>4
    <3>2. rule \in Target /\ stack # <<>>
      BY Zenon, <1>2 DEF Placed, InRun
    <3>3. line \in Nat /\ mk.lines[rule] \in Nat
      BY Zenon, <3>2, MakefileType DEF MakeTypeOK
    <3>4. line = mk.lines[rule]
      BY SMTT(30), <1>2, <2>4, <3>1, <3>3
    <3>5. bind[rule] \notin torn
      BY Zenon, <2>1, <3>1, <3>4 DEF Clean, Waited
    <3>6. Top.t \in Plain
      BY Zenon, <3>2, TopType DEF PlainWalk, Top
    <3>7. rule = Top.t => rule \notin torn
      BY Zenon, <3>5, <3>6 DEF PlainWalk
    <3> QED BY Zenon, <3>7 DEF Clean, OneTorn, Untidy
  <2> QED BY Zenon, <1>1, <1>2, <2>1, <2>2, <2>3, <2>4, StayInRun
<1> QED BY Zenon, <1>3, <1>4, <1>5, <1>6

(* A line of a recipe writes the target that run() works on                  *)
LEMMA ChildCleans ==
  ASSUME MakeInv, Clean, ChildEnd
  PROVE  Clean'
<1> DEFINE t == child.target
<1>1. PICK ok \in BOOLEAN, wrote \in BOOLEAN :
        /\ child' = [child EXCEPT !.st = "exited", !.code = IF ok THEN 0 ELSE 1]
        /\ torn' = IF ~(t \notin mk.phony \cup {Default} /\ ((ok /\ child.last) \/ wrote))
                     THEN torn
                     ELSE IF ok /\ child.last THEN torn \ {t} ELSE torn \cup {t}
  BY Zenon DEF ChildEnd
<1>2. child.st = "run" /\ UNCHANGED <<mk, flags, stack, pc, rule, line, ret, bind,
                                      status, failed>>
  BY Zenon DEF ChildEnd, walk, running, history
<1>3. child # NoChild /\ child \in Children
  BY <1>2, SMTT(30) DEF MakeInv, MakeTypeOK, NoChild
<1>4. pc \in {"forked", "wait"} /\ t = bind[rule]
      /\ (child.last <=> line = mk.lines[rule])
  BY Zenon, <1>3 DEF Clean, Waited
<1>5. pc \in InRun /\ pc \in InLaunch /\ ~Dry /\ status = "run"
      /\ line <= mk.lines[rule]
  BY Zenon, <1>4 DEF InRun, InLaunch, Clean, OneTorn, MakeInv, Placed, MakeTypeOK
<1>6. /\ child'.st = "exited" /\ child'.target = t /\ child'.last = child.last
      /\ child'.code = 0 => ok
  BY <1>1, <1>3 DEF Children
<1>7. (torn \cap (mk.phony \cup {Default}) = {})'
  BY Zenon, <1>1, <1>2 DEF Clean, OneTorn
<1>8. ok /\ child.last => t \notin torn'
  BY Zenon, <1>1, <1>2, <1>7
<1>9. Waited'
  BY Zenon, <1>2, <1>4, <1>6, <1>8 DEF Waited
<1>10. Writes'
  BY Zenon, <1>2 DEF Clean, Writes, Top, HasActions
<1>11. Untidy' = {x \in torn' : ~Tidy(x)}
  BY Zenon, <1>2 DEF Untidy, Tidy, HasActions
<1>12. ASSUME NEW x \in Untidy' PROVE rule = Top.t /\ x = rule
  <2>1. CASE x \in torn
    BY Zenon, <1>11, <2>1 DEF Clean, OneTorn, Untidy
  <2>2. CASE x \notin torn
    <3>1. x = t /\ t # Default /\ HasActions(t)
      BY Zenon, <1>1, <1>11, <2>2 DEF Tidy
    <3> QED BY Zenon, <1>4, <1>5, <3>1 DEF Clean, Writes
  <2> QED BY Zenon, <2>1, <2>2
<1>13. OneTorn'
  <2>1. Top' = Top /\ Dry' = Dry /\ Untidy' \subseteq {rule}
        /\ (Untidy' # {} => rule = Top.t)
    BY Zenon, <1>2, <1>12 DEF Top, Dry
  <2> QED BY Zenon, <1>2, <1>4, <1>5, <1>7, <2>1 DEF OneTorn
<1> QED BY Zenon, <1>9, <1>10, <1>13 DEF Clean

(* The makefile and the options stay                                         *)
LEMMA MakefileSame ==
  ASSUME [Next]_makeVars
  PROVE  mk' = mk /\ flags' = flags
BY Zenon DEF Next, Step, AddDep, Parsed, Goal, AllDone, VisitDep, StopInLoop,
       NotRemade, NotNeeded, NoRule, StartRun, TouchDeps, StopInRun,
       DryLine, RunLine, RunDone, Succeeded, StopAfterRun, Failed,
       Block, Fork, NotForked, Wait, Reap, Deliver, ChildEnd, Signal,
       cleanup, launched, makeVars

(* Every step keeps track of what is half written                            *)
LEMMA NextTornInv ==
  ASSUME MakeInv, TornInv, [Next]_makeVars
  PROVE  TornInv'
<1>1. PlainWalk' /\ Met' \subseteq Plain'
  <2>1. mk' = mk
    BY Zenon, MakefileSame
  <2> QED BY Zenon, <2>1, PlainStep DEF TornInv, Met, Plain
<1>2. ASSUME Followed' PROVE Clean'
  <2>1. flags' = flags /\ (lost' = lost \/ lost')
    <3>1. CASE Step
      BY Zenon, <3>1 DEF Step, AddDep, Parsed, Goal, AllDone, VisitDep, StopInLoop,
                  NotRemade, NotNeeded, NoRule, StartRun, TouchDeps, StopInRun,
                  DryLine, RunLine, RunDone, Succeeded, StopAfterRun, Failed,
                  Block, Fork, NotForked, Wait, Reap, cleanup, launched, history
    <3>2. CASE Deliver \/ ChildEnd
      BY Zenon, <3>2 DEF Deliver, ChildEnd, launched, history
    <3>3. CASE Signal
      BY Zenon, <3>3 DEF Signal, Interrupted, launched
    <3>4. CASE UNCHANGED makeVars
      BY Zenon, <3>4 DEF makeVars, history
    <3> QED BY Zenon, <3>1, <3>2, <3>3, <3>4 DEF Next
  <2>2. PlainWalk /\ Met \subseteq Plain /\ Clean /\ ~Flag("i") /\ ~lost'
    BY Zenon, <1>2, <2>1 DEF Followed, Flag, TornInv
  <2>3. CASE Step
    BY Zenon, <2>2, <2>3, RebuildCleans, StopCleans, FailedCleans, StartCleans, RunCleans,
       LaunchCleans DEF Step
  <2>4. CASE ChildEnd
    BY Zenon, <2>2, <2>4, ChildCleans
  <2>5. ASSUME UNCHANGED <<mk, flags, stack, pc, rule, line, ret, bind, status,
                           child, torn, failed>>
        PROVE  Clean'
    <3>1. Untidy' = Untidy /\ Top' = Top /\ Dry' = Dry
      BY Zenon, <2>5, UntidySame DEF Top, Dry
    <3>2. Writes' /\ Waited'
      BY Zenon, <2>2, <2>5, <3>1 DEF Clean, Writes, Waited, HasActions
    <3>3. OneTorn'
      BY Zenon, <2>2, <2>5, <3>1 DEF Clean, OneTorn
    <3> QED BY Zenon, <3>2, <3>3 DEF Clean
  <2>6. CASE Deliver \/ Signal
    BY Zenon, <2>2, <2>5, <2>6 DEF Deliver, Signal, Interrupted, launched, walk, disk
  <2>7. CASE UNCHANGED makeVars
    BY Zenon, <2>5, <2>7 DEF makeVars, walk, running, disk, history
  <2> QED BY Zenon, <2>3, <2>4, <2>6, <2>7 DEF Next
<1> QED BY Zenon, <1>1, <1>2 DEF TornInv

(* In such makefiles TornInv holds throughout                               *)
LEMMA TornInvariant ==
  ASSUME \A m \in Makefiles : PlainMakefile(m)
  PROVE  Spec => []TornInv
<1>1. Init => TornInv
  <2> SUFFICES ASSUME Init PROVE TornInv
    BY Zenon 
  <2>1. mk \in Makefiles
    BY Zenon DEF Init, Makefiles
  <2>2. /\ mk.edges \in Seq(Target \X Target) /\ mk.goals \in Seq(Target)
        /\ mk.edges \in Seq(Target \X Plain) /\ mk.goals \in Seq(Plain)
    BY Zenon, <2>1, MakefileType DEF PlainMakefile, Plain
  <2>10. Met \subseteq Plain
    BY <2>2 DEF Met, SeqElems
  <2>11. edges \in Seq(Target \X Met) /\ goals \in Seq(Met)
    <3>1. \A n \in 1 .. Len(mk.edges) : mk.edges[n] \in Target \X Met
      BY <2>2 DEF Met, SeqElems
    <3>2. \A n \in 1 .. Len(mk.goals) : mk.goals[n] \in Met
      BY <2>2 DEF Met, SeqElems
    <3>3. mk.edges \in Seq(Target \X Met) /\ mk.goals \in Seq(Met)
      <4>1. \A S, T : \A q \in Seq(S) : (\A n \in 1 .. Len(q) : q[n] \in T) => q \in Seq(T)
        OBVIOUS
      <4> QED BY Zenon, <2>2, <3>1, <3>2, <4>1
    <3> QED BY Zenon, <3>3 DEF Init
  <2>3. deps = [t \in Target |-> <<>>] /\ stack = <<>> /\ bind = [t \in Target |-> t]
    BY Zenon DEF Init
  <2>4. deps \in [Target -> Seq(Met)]
    BY <2>3
  <2>5. \A r \in Plain : bind[r] = r
    BY Zenon, <2>3 DEF Plain
  <2>6. \A k \in 1 .. Len(stack) : stack[k].t \in Met
    BY <2>3
  <2>7. PlainWalk
    BY Zenon, <2>11, <2>4, <2>5, <2>6 DEF PlainWalk
  <2>8. pc = "parse" /\ child = NoChild /\ torn = {} /\ Untidy = {}
    BY Zenon DEF Init, Untidy
  <2>9. Clean
    BY Zenon, <2>8 DEF Clean, Writes, Waited, OneTorn, InRun, InLaunch
  <2> QED BY Zenon, <2>7, <2>9, <2>10 DEF TornInv
<1>2. MakeInv /\ TornInv /\ [Next]_makeVars => TornInv'
  BY Zenon, NextTornInv
<1> QED BY <1>1, <1>2, MakeInvariant, PTL DEF Spec

-----------------------------------------------------------------------------
(* The same in every invocation: also under -i, and when a signal cut wait()    *)
(* short, so that the recipe goes on while make takes its status for anything.  *)

(* rebuild() took t for made, though it may not be                           *)
Taken(t) == t \in made /\ (Flag("i") \/ t = child.target)

Left == {t \in torn : ~Tidy(t) /\ ~Taken(t)}

(* run() is at work on t, by t's own rule                                    *)
AtWork(t) == pc \in InRun /\ rule = Top.t /\ rule = t

(* Until cleanup() only the target that run() works on is left half written.    *)
(* A child nobody waits for any more writes that one too, or one that is taken  *)
(* for made.                                                                *)
LeftInv ==
  /\ Writes
  /\ Default \notin torn
  /\ Dry => torn = {} /\ child = NoChild /\ pc \notin InLaunch
  /\ lost => stop /\ pc \notin {"forked", "wait"}
  /\ child # NoChild /\ ~lost => pc \in {"forked", "wait"} /\ child.target = bind[rule]
  /\ child # NoChild /\ lost /\ pc # "over" =>
       \/ child.target \in made
       \/ ~HasActions(child.target)
       \/ child.target = Default
       \/ AtWork(child.target)
  /\ pc # "over" => \A t \in Left : AtWork(t)
  /\ pc # "over" /\ lost => \A t \in Left : t = child.target

(* A step from one place of run() to another, or from outside to outside, that   *)
(* leaves child and files alone                                             *)
LEMMA LeftSame ==
  ASSUME LeftInv, UNCHANGED <<mk, flags, torn, failed, made, child, lost, stop>>,
         Writes', (Dry => pc \notin InLaunch)', (lost => pc \notin {"forked", "wait"})',
         child # NoChild /\ ~lost =>
           pc' \in {"forked", "wait"} /\ UNCHANGED <<rule, bind>>,
         pc' # "over" => pc # "over",
         pc' # "over" /\ pc \in InRun => pc' \in InRun /\ UNCHANGED <<rule, stack>>
  PROVE  LeftInv'
<1>1. Left' = Left /\ Dry' = Dry
  BY Zenon DEF Left, Tidy, Taken, HasActions, Flag, Dry
<1>2. ASSUME NEW t, pc' # "over", AtWork(t) PROVE AtWork(t)'
  BY Zenon, <1>2 DEF AtWork, Top
<1>3. HasActions(child.target)' = HasActions(child.target)
  BY Zenon DEF HasActions
<1>4. (pc # "over" => \A t \in Left : AtWork(t))'
  BY Zenon, <1>1, <1>2 DEF LeftInv
<1>5. (pc # "over" /\ lost => \A t \in Left : t = child.target)'
  BY Zenon, <1>1 DEF LeftInv
<1>6. (child # NoChild /\ lost /\ pc # "over" =>
         \/ child.target \in made
         \/ ~HasActions(child.target)
         \/ child.target = Default
         \/ AtWork(child.target))'
  BY Zenon, <1>2, <1>3 DEF LeftInv
<1>7. (child # NoChild /\ ~lost => pc \in {"forked", "wait"} /\ child.target = bind[rule])'
  BY Zenon DEF LeftInv
<1>8. (Dry => torn = {} /\ child = NoChild /\ pc \notin InLaunch)' /\ (Default \notin torn)'
      /\ (lost => stop /\ pc \notin {"forked", "wait"})'
  BY Zenon, <1>1 DEF LeftInv
<1> QED BY Zenon, <1>4, <1>5, <1>6, <1>7, <1>8 DEF LeftInv

(* rebuild() and main()                                                      *)
LEMMA RebuildLeft ==
  ASSUME MakeInv, LeftInv,
         \/ AddDep \/ Parsed \/ Goal \/ AllDone \/ VisitDep
         \/ NotRemade \/ NotNeeded \/ NoRule
  PROVE  LeftInv'
<1>1. pc \notin InRun /\ pc # "over"
  BY Zenon DEF AddDep, Parsed, Goal, AllDone, VisitDep, NotRemade, NotNeeded, NoRule,
         Updating, AfterLoop, InLoop, InRun
<1>2. UNCHANGED <<mk, flags, torn, failed, made, child, lost, stop>>
  BY Zenon DEF AddDep, Parsed, Goal, AllDone, VisitDep, NotRemade, NotNeeded, NoRule,
         disk, history, signalVars
<1>3. pc' \notin InRun
  BY Zenon DEF AddDep, Parsed, Goal, AllDone, VisitDep, NotRemade, NotNeeded, NoRule,
         InLoop, exit, Return, InRun, running
<1>4. Writes' /\ pc' \notin InLaunch /\ pc' \notin {"forked", "wait"}
  BY Zenon, <1>3 DEF Writes, InRun, InLaunch
<1>5. child = NoChild \/ lost
  BY Zenon, <1>1 DEF LeftInv, InRun
<1> QED BY Zenon, <1>1, <1>2, <1>4, <1>5, LeftSame

(* A recipe that succeeded, or was taken to have: only then is a target left     *)
(* half written to which make does not come back                             *)
LEMMA SucceededLeft ==
  ASSUME MakeInv, TornInv, LeftInv, Succeeded
  PROVE  LeftInv'
<1>1. /\ pc = "ret" /\ ret = 0 /\ pc \in InRun
      /\ UNCHANGED <<mk, flags, torn, failed, child, lost, stop>>
      /\ made' = IF Dry THEN made ELSE made \cup {Top.t}
      /\ pc' \notin InRun /\ pc' # "over"
  BY Zenon DEF Succeeded, disk, signalVars, Return, InRun
<1>2. /\ Writes' /\ pc' \notin InLaunch /\ pc' \notin {"forked", "wait"}
      /\ child = NoChild \/ lost
  BY Zenon, <1>1 DEF Writes, InRun, InLaunch, LeftInv
<1>3. made \subseteq made' /\ (~Dry => Top.t \in made')
  BY Zenon, <1>1
<1>4. ASSUME NEW x \in Left' PROVE FALSE
  <2>1. x \in torn /\ ~Tidy(x) /\ ~Taken(x)'
    BY Zenon, <1>1, <1>4 DEF Left, Tidy, HasActions
  <2>2. x \in Left
    BY Zenon, <1>1, <1>3, <2>1 DEF Left, Taken, Flag
  <2>3. x = Top.t /\ ~Dry
    BY Zenon, <1>1, <2>1, <2>2 DEF LeftInv, AtWork
  <2>4. x \in made'
    BY Zenon, <1>3, <2>3
  <2>5. ~Flag("i") /\ x # child.target
    BY Zenon, <1>1, <2>1, <2>4 DEF Taken, Flag
  <2>6. ~lost
    BY Zenon, <1>1, <2>2, <2>5 DEF LeftInv
  <2>7. Untidy = {}
    BY Zenon, <1>1, <2>5, <2>6 DEF TornInv, Followed, Clean, OneTorn
  <2> QED BY Zenon, <2>1, <2>7 DEF Untidy
<1>5. (child # NoChild /\ lost /\ pc # "over" =>
         \/ child.target \in made
         \/ ~HasActions(child.target)
         \/ child.target = Default
         \/ AtWork(child.target))'
  <2> SUFFICES ASSUME child # NoChild, lost
               PROVE  \/ child.target \in made'
                      \/ ~HasActions(child.target)
                      \/ child.target = Default
    BY Zenon, <1>1 DEF HasActions
  <2>1. ~Dry
    BY Zenon DEF LeftInv
  <2> QED BY Zenon, <1>1, <1>3, <2>1 DEF LeftInv, AtWork
<1>6. Dry' = Dry
  BY Zenon, <1>1 DEF Dry
<1> QED BY Zenon, <1>1, <1>2, <1>4, <1>5, <1>6 DEF LeftInv

(* A recipe that failed                                                      *)
LEMMA FailedLeft ==
  ASSUME MakeInv, LeftInv, Failed
  PROVE  LeftInv'
<1>1. /\ pc = "ret" /\ ~stop /\ failed' = failed \cup {Top.t}
      /\ UNCHANGED <<mk, flags, torn, made, child, lost, stop>>
      /\ pc' \notin InRun
  BY Zenon DEF Failed, disk, signalVars, Return, exit, InRun
<1>2. ~lost /\ child = NoChild
  BY Zenon, <1>1 DEF LeftInv
<1>3. Writes' /\ pc' \notin InLaunch
  BY Zenon, <1>1 DEF Writes, InRun, InLaunch
<1>4. ASSUME NEW x \in Left' PROVE FALSE
  <2>1. x \in torn /\ ~Tidy(x)' /\ ~Taken(x)
    BY Zenon, <1>1, <1>4 DEF Left, Taken, Flag
  <2>2. ~Tidy(x) /\ x # Top.t
    BY Zenon, <1>1, <2>1 DEF Tidy, HasActions
  <2>3. x \in Left /\ pc # "over"
    BY Zenon, <1>1, <2>1, <2>2 DEF Left
  <2> QED BY Zenon, <2>2, <2>3 DEF LeftInv, AtWork
<1>5. Dry' = Dry
  BY Zenon, <1>1 DEF Dry
<1> QED BY Zenon, <1>1, <1>2, <1>3, <1>4, <1>5 DEF LeftInv

(* update() and run() around their lines                                     *)
LEMMA RunLeft ==
  ASSUME MakeInv, PlainWalk, Met \subseteq Plain, LeftInv,
         StartRun \/ TouchDeps \/ DryLine \/ RunLine \/ RunDone
  PROVE  LeftInv'
<1>1. UNCHANGED <<mk, flags, stack, torn, failed, made, child, lost, stop>>
  BY Zenon DEF StartRun, TouchDeps, DryLine, RunLine, RunDone, walk, disk, history, signalVars
<1>2. /\ pc \in {"rebuild", "touchdeps", "run"}
      /\ pc' \in {"touchdeps", "run", "ret", "launch"}
      /\ pc' = "launch" => ~Dry
  BY Zenon DEF StartRun, Updating, AfterLoop, TouchDeps, DryLine, RunLine, RunDone
<1>3. Writes'
  <2>1. CASE StartRun
    BY Zenon, <2>1, StartWrites
  <2>2. CASE TouchDeps \/ DryLine \/ RunLine \/ RunDone
    <3>1. UNCHANGED <<rule, bind>> /\ pc \in InRun
      BY Zenon, <2>2 DEF TouchDeps, DryLine, RunLine, RunDone, InRun
    <3> QED BY Zenon, <1>1, <3>1 DEF LeftInv, Writes, Top, HasActions
  <2> QED BY Zenon, <2>1, <2>2
<1>4. pc \in InRun => pc' \in InRun /\ UNCHANGED <<rule, stack>>
  BY Zenon, <1>1, <1>2 DEF StartRun, Updating, AfterLoop, TouchDeps, DryLine, RunLine,
         RunDone, InRun
<1>5. (Dry => pc \notin InLaunch)' /\ pc' \notin {"forked", "wait"}
  BY Zenon, <1>1, <1>2 DEF Dry, InLaunch
<1>6. child = NoChild \/ lost
  BY Zenon, <1>2 DEF LeftInv
<1>7. pc # "over"
  BY Zenon, <1>2
<1> QED BY Zenon, <1>1, <1>3, <1>4, <1>5, <1>6, <1>7, LeftSame

(* launch()                                                                  *)
LEMMA LaunchLeft ==
  ASSUME MakeInv, PlainWalk, Met \subseteq Plain, LeftInv,
         Block \/ Fork \/ NotForked \/ Wait \/ Reap
  PROVE  LeftInv'
<1>1. /\ UNCHANGED <<mk, flags, stack, rule, bind, torn, failed, made, lost, stop>>
      /\ pc \in InLaunch
  BY Zenon DEF Block, Fork, NotForked, Wait, Reap, launched, walk, disk, InLaunch, signalVars
<1>2. pc' \in InRun /\ pc \in InRun /\ pc' # "over" /\ pc # "over"
  BY Zenon, <1>1 DEF Block, Fork, NotForked, Wait, Reap, LineReturns, InLaunch, InRun
<1>3. ~Dry /\ Writes' /\ Top' = Top /\ Dry' = Dry
  BY Zenon, <1>1, <1>2 DEF LeftInv, Writes, Top, HasActions, Dry
<1>4. CASE Block \/ NotForked \/ Wait
  <2>1. child' = child /\ (pc' \in {"forked", "wait"} <=> pc \in {"forked", "wait"})
    BY Zenon, <1>4 DEF Block, NotForked, Wait, LineReturns
  <2>2. (lost => pc \notin {"forked", "wait"})'
        /\ (child # NoChild /\ ~lost => pc' \in {"forked", "wait"})
    BY Zenon, <1>1, <2>1 DEF LeftInv
  <2> QED BY Zenon, <1>1, <1>2, <1>3, <2>1, <2>2, LeftSame
<1>5. ASSUME NEW x, AtWork(x) PROVE AtWork(x)'
  BY Zenon, <1>1, <1>2, <1>3, <1>5 DEF AtWork
<1>6. CASE Fork
  <2>1. /\ pc = "masked" /\ ~stop /\ pc' = "forked"
        /\ child'.target = bind[rule]
    BY Zenon, <1>6 DEF Fork
  <2>2. ~lost /\ child = NoChild
    BY Zenon, <2>1 DEF LeftInv
  <2>3. ASSUME NEW x \in Left' PROVE AtWork(x)'
    <3>1. x \in torn /\ ~Tidy(x) /\ (x \in made => ~Flag("i"))
      BY Zenon, <1>1, <2>3 DEF Left, Tidy, HasActions, Taken, Flag
    <3>2. CASE x = child.target
      <4>1. x = None /\ x \in Target
        BY Zenon, <2>2, <3>1, <3>2 DEF NoChild, MakeInv, MakeTypeOK
      <4> QED BY Zenon, <4>1, MakeAssumption
    <3>3. CASE x # child.target
      <4>1. x \in Left
        BY Zenon, <3>1, <3>3 DEF Left, Taken
      <4> QED BY Zenon, <1>2, <1>5, <4>1 DEF LeftInv
    <3> QED BY Zenon, <3>2, <3>3
  <2> QED BY Zenon, <1>1, <1>3, <2>1, <2>2, <2>3 DEF LeftInv
<1>7. CASE Reap
  <2>1. /\ pc = "wait" /\ child' = NoChild /\ child.st = "exited"
        /\ pc' \in {"run", "ret"}
    BY Zenon, <1>7 DEF Reap, LineReturns
  <2>2. child # NoChild
    BY SMTT(30), <2>1 DEF NoChild
  <2>3. ~lost /\ child.target = bind[rule]
    BY Zenon, <2>1, <2>2 DEF LeftInv
  <2>4. ASSUME NEW x \in Left' PROVE AtWork(x)'
    <3>1. x \in torn /\ ~Tidy(x) /\ (x \in made => ~Flag("i"))
      BY Zenon, <1>1, <2>4 DEF Left, Tidy, HasActions, Taken, Flag
    <3>2. CASE x = child.target
      <4>1. HasActions(x) /\ x # Default
        BY Zenon, <3>1 DEF Tidy, LeftInv
      <4>2. rule = Top.t /\ rule = x
        BY Zenon, <1>2, <2>3, <3>2, <4>1 DEF LeftInv, Writes
      <4> QED BY Zenon, <1>2, <1>5, <4>2 DEF AtWork
    <3>3. CASE x # child.target
      <4>1. x \in Left
        BY Zenon, <3>1, <3>3 DEF Left, Taken
      <4> QED BY Zenon, <1>2, <1>5, <4>1 DEF LeftInv
    <3> QED BY Zenon, <3>2, <3>3
  <2>5. pc' \notin InLaunch
    BY Zenon, <2>1 DEF InLaunch
  <2> QED BY Zenon, <1>1, <1>3, <2>1, <2>3, <2>4, <2>5 DEF LeftInv
<1> QED BY Zenon, <1>4, <1>6, <1>7

(* A line of a recipe ends, waited for or not                                *)
LEMMA ChildLeft ==
  ASSUME MakeInv, LeftInv, ChildEnd
  PROVE  LeftInv'
<1> DEFINE t == child.target
<1>1. PICK ok \in BOOLEAN, wrote \in BOOLEAN :
        /\ child' = [child EXCEPT !.st = "exited", !.code = IF ok THEN 0 ELSE 1]
        /\ torn' = IF ~(t \notin mk.phony \cup {Default} /\ ((ok /\ child.last) \/ wrote))
                     THEN torn
                     ELSE IF ok /\ child.last THEN torn \ {t} ELSE torn \cup {t}
  BY Zenon DEF ChildEnd
<1>2. child.st = "run" /\ UNCHANGED <<mk, flags, stack, pc, rule, bind, stop, failed,
                                      made, lost>>
  BY Zenon DEF ChildEnd, walk, running, history, signalVars
<1>3. child # NoChild /\ child \in Children
  BY <1>2, SMTT(30) DEF MakeInv, MakeTypeOK, NoChild
<1>4. child'.target = t /\ ~Dry
  <2>1. child'.target = t
    BY <1>1, <1>3, SMTT(30) DEF Children
  <2> QED BY Zenon, <1>3, <2>1 DEF LeftInv
<1>5. (\A x \in torn' : x \in torn \/ (x = t /\ x # Default)) /\ Default \notin torn'
  BY Zenon, <1>1 DEF LeftInv
<1>6. Top' = Top /\ Dry' = Dry /\ Writes'
  BY Zenon, <1>2 DEF Top, Dry, LeftInv, Writes, HasActions
<1>7. \A x : AtWork(x)' = AtWork(x) /\ HasActions(x)' = HasActions(x)
                /\ Tidy(x)' = Tidy(x) /\ Taken(x)' = Taken(x)
  BY Zenon, <1>2, <1>4, <1>6 DEF AtWork, HasActions, Tidy, Taken, Flag
<1>8. ASSUME NEW x \in Left', pc # "over" PROVE AtWork(x) /\ (lost => x = t)
  <2>1. x \in torn' /\ ~Tidy(x) /\ ~Taken(x)
    BY Zenon, <1>7, <1>8 DEF Left
  <2>2. CASE x \in torn
    BY Zenon, <1>8, <2>1, <2>2 DEF Left, LeftInv
  <2>3. CASE x \notin torn
    <3>1. x = t /\ HasActions(t) /\ t # Default /\ t \notin made
      BY Zenon, <1>5, <2>1, <2>3 DEF Tidy, Taken
    <3>2. CASE lost
      BY Zenon, <1>3, <1>8, <3>1, <3>2 DEF LeftInv
    <3>3. CASE ~lost
      <4>1. pc \in InRun /\ t = bind[rule]
        BY Zenon, <1>3, <3>3 DEF LeftInv, InRun
      <4> QED BY Zenon, <3>1, <3>3, <4>1 DEF LeftInv, Writes, AtWork
    <3> QED BY Zenon, <3>2, <3>3
  <2> QED BY Zenon, <2>2, <2>3
<1>9. /\ (pc # "over" => \A x \in Left : AtWork(x))'
      /\ (pc # "over" /\ lost => \A x \in Left : x = child.target)'
  BY Zenon, <1>2, <1>4, <1>7, <1>8
<1>10. /\ (child # NoChild /\ ~lost => pc \in {"forked", "wait"} /\ child.target = bind[rule])'
       /\ (lost => stop /\ pc \notin {"forked", "wait"})'
  BY Zenon, <1>2, <1>3, <1>4 DEF LeftInv
<1>11. (child # NoChild /\ lost /\ pc # "over" =>
          \/ child.target \in made
          \/ ~HasActions(child.target)
          \/ child.target = Default
          \/ AtWork(child.target))'
  BY Zenon, <1>2, <1>3, <1>4, <1>7 DEF LeftInv
<1> QED BY Zenon, <1>4, <1>5, <1>6, <1>9, <1>10, <1>11 DEF LeftInv

(* A signal, in wait() or anywhere else                                      *)
LEMMA SignalLeft ==
  ASSUME MakeInv, PlainWalk, Met \subseteq Plain, LeftInv, Deliver \/ Signal
  PROVE  LeftInv'
<1>1. UNCHANGED <<mk, flags, stack, rule, bind, torn, failed, made, child>>
  BY Zenon DEF Deliver, Signal, launched, walk, disk
<1>2. /\ Left' = Left /\ Dry' = Dry /\ Top' = Top
      /\ \A x : HasActions(x)' = HasActions(x)
  BY Zenon, <1>1 DEF Left, Tidy, Taken, HasActions, Flag, Dry, Top
<1>3. CASE UNCHANGED <<pc, lost>>
  <2>1. stop => stop'
    BY Zenon DEF Deliver, Signal
  <2>2. Writes' /\ \A x : AtWork(x)' = AtWork(x)
    BY Zenon, <1>1, <1>2, <1>3 DEF LeftInv, Writes, AtWork
  <2> QED BY Zenon, <1>1, <1>2, <1>3, <2>1, <2>2 DEF LeftInv
<1>4. CASE ~UNCHANGED <<pc, lost>>
  <2>1. /\ pc = "wait" /\ child.st = "run" /\ stop' = TRUE /\ lost' = TRUE
        /\ pc' \in {"run", "ret"}
    BY Zenon, <1>4 DEF Deliver, Signal, Interrupted, LineReturns
  <2>2. child # NoChild
    BY SMTT(30), <2>1 DEF NoChild
  <2>3. /\ ~lost /\ child.target = bind[rule] /\ pc \in InRun /\ pc' \in InRun
        /\ pc # "over" /\ pc' \notin InLaunch
    BY Zenon, <2>1, <2>2 DEF LeftInv, InRun, InLaunch
  <2>4. Writes' /\ \A x : AtWork(x)' = AtWork(x)
    BY Zenon, <1>1, <1>2, <2>3 DEF LeftInv, Writes, AtWork
  <2>5. ASSUME NEW x \in Left PROVE AtWork(x) /\ x = child.target
    <3>1. AtWork(x)
      BY Zenon, <2>3, <2>5 DEF LeftInv
    <3>2. stack # <<>>
      BY Zenon, <2>3 DEF MakeInv, Placed
    <3>3. Top.t \in Plain
      BY Zenon, <3>2, TopType DEF MakeInv, PlainWalk, Top
    <3>4. bind[rule] = rule /\ rule = x
      BY Zenon, <3>1, <3>3 DEF PlainWalk, AtWork
    <3> QED BY Zenon, <2>3, <3>1, <3>4
  <2>6. \/ ~HasActions(child.target)
        \/ child.target = Default
        \/ AtWork(child.target)
    BY Zenon, <2>3 DEF LeftInv, Writes, AtWork
  <2> QED BY Zenon, <1>1, <1>2, <2>1, <2>2, <2>3, <2>4, <2>5, <2>6 DEF LeftInv
<1> QED BY Zenon, <1>3, <1>4

(* cleanup() ends make                                                       *)
LEMMA StopLeft ==
  ASSUME MakeInv, LeftInv, StopInLoop \/ StopInRun \/ StopAfterRun
  PROVE  LeftInv'
<1>1. PICK t : cleanup(t)
  BY Zenon DEF StopInLoop, StopInRun, StopAfterRun
<1>2. /\ UNCHANGED <<mk, flags, rule, bind, child, lost, stop>> /\ pc' = "over"
      /\ torn' \subseteq torn
  BY Zenon, <1>1 DEF cleanup, history, signalVars
<1>3. pc \notin {"forked", "wait"}
  BY Zenon DEF StopInLoop, InLoop, StopInRun, StopAfterRun
<1>4. Writes' /\ pc' \notin InLaunch /\ Dry' = Dry
  BY Zenon, <1>2 DEF Writes, InRun, InLaunch, Dry
<1> QED BY Zenon, <1>2, <1>3, <1>4 DEF LeftInv

(* Every step                                                                *)
LEMMA NextLeftInv ==
  ASSUME MakeInv, TornInv, LeftInv, [Next]_makeVars
  PROVE  LeftInv'
<1>1. PlainWalk /\ Met \subseteq Plain
  BY Zenon DEF TornInv
<1>2. CASE Step
  BY Zenon, <1>1, <1>2, RebuildLeft, SucceededLeft, FailedLeft, RunLeft, LaunchLeft, StopLeft
     DEF Step
<1>3. CASE ChildEnd \/ Deliver \/ Signal
  BY Zenon, <1>1, <1>3, ChildLeft, SignalLeft
<1>4. CASE UNCHANGED makeVars
  <2>1. UNCHANGED <<mk, flags, stack, pc, rule, bind, torn, failed, made, child, lost, stop>>
    BY Zenon, <1>4 DEF makeVars, walk, running, disk, history, signalVars
  <2>2. Writes' /\ Dry' = Dry
    BY Zenon, <2>1 DEF LeftInv, Writes, Top, HasActions, Dry
  <2> QED BY Zenon, <2>1, <2>2, LeftSame DEF LeftInv
<1> QED BY Zenon, <1>2, <1>3, <1>4 DEF Next

(* The step in which make dies of a signal leaves no half-written target that    *)
(* has a recipe of its own, unless .PRECIOUS or an earlier failure keeps it, or  *)
(* rebuild() took it for made: under -i, or because the signal cut short the     *)
(* wait() for its last line and the status never stored is read as 0.  It        *)
(* removes nothing that .PRECIOUS, -n or -q protect.  This is so in makefiles    *)
(* whose inference rules are no goals or prerequisites.  (rebuild() of such a    *)
(* rule runs it for the target it was last bound to, and cleanup() removes      *)
(* another name.)                                                           *)
THEOREM InterruptedTargetsRemoved ==
  ASSUME \A m \in Makefiles : PlainMakefile(m)
  PROVE  Spec => InterruptedRemoved
<1>1. Init => LeftInv
  <2> SUFFICES ASSUME Init PROVE LeftInv
    BY Zenon
  <2>1. pc = "parse" /\ child = NoChild /\ torn = {} /\ Left = {} /\ lost = FALSE
    BY Zenon DEF Init, Left
  <2> QED BY Zenon, <2>1 DEF LeftInv, Writes, InRun, InLaunch
<1>2. MakeInv /\ TornInv /\ LeftInv /\ [Next]_makeVars => LeftInv'
  BY Zenon, NextLeftInv
<1>3. ASSUME MakeInv, LeftInv, [Next]_makeVars, status = "run", status' = "killed"
      PROVE  /\ \A t \in torn' :
                  \/ t \in mk.precious \cup failed
                  \/ ~HasActions(t)
                  \/ t \in made /\ (Flag("i") \/ t = child.target)
             /\ \A t \in Target : file'[t] # file[t] =>
                  t \notin mk.precious /\ flags \cap {"n", "q"} = {}
  <2>1. StopInLoop \/ StopInRun \/ StopAfterRun
    BY Zenon, <1>3 DEF Next, Step, AddDep, Parsed, Goal, AllDone, VisitDep, NotRemade, NotNeeded,
           NoRule, StartRun, TouchDeps, DryLine, RunLine, RunDone, Succeeded, Failed,
           Block, Fork, NotForked, Wait, Reap, Deliver, ChildEnd, Signal, exit, launched,
           makeVars
  <2>2. PICK u : cleanup(u) /\ \A t \in Left : t = u
    <3>1. CASE StopInLoop
      <4>1. cleanup(Top.t) /\ pc \notin InRun /\ pc # "over"
        BY Zenon, <3>1 DEF StopInLoop, InLoop, InRun
      <4> QED BY Zenon, <1>3, <4>1 DEF LeftInv, AtWork
    <3>2. CASE StopInRun
      <4>1. cleanup(rule) /\ pc # "over"
        BY Zenon, <3>2 DEF StopInRun
      <4>2. \A t \in Left : AtWork(t)
        BY Zenon, <1>3, <4>1 DEF LeftInv
      <4>3. \A t \in Left : t = rule
        BY Zenon, <4>2 DEF AtWork
      <4> QED BY <4>1, <4>3
    <3>3. CASE StopAfterRun
      <4>1. cleanup(Top.t) /\ pc # "over"
        BY Zenon, <3>3 DEF StopAfterRun
      <4>2. \A t \in Left : AtWork(t)
        BY Zenon, <1>3, <4>1 DEF LeftInv
      <4>3. \A t \in Left : t = Top.t
        BY Zenon, <4>2 DEF AtWork
      <4> QED BY <4>1, <4>3
    <3> QED BY Zenon, <2>1, <3>1, <3>2, <3>3
  <2>3. ASSUME NEW t \in torn'
        PROVE  Tidy(t) \/ Taken(t)
    <3>1. t \in torn /\ torn # {}
      BY Zenon, <2>2, <2>3 DEF cleanup
    <3>2. ASSUME t \in Left PROVE FALSE
      <4>1. t = u /\ t \notin mk.precious
        BY Zenon, <2>2, <3>2 DEF Left, Tidy
      <4>2. ~Dry
        BY Zenon, <1>3, <3>1 DEF LeftInv
      <4>3. Removable(t)
        BY Zenon, <4>1, <4>2 DEF Removable, Dry, Flag
      <4> QED BY Zenon, <2>2, <2>3, <4>1, <4>3 DEF cleanup
    <3> QED BY Zenon, <3>1, <3>2 DEF Left
  <2>4. ASSUME NEW t \in Target, file'[t] # file[t]
        PROVE  t \notin mk.precious /\ flags \cap {"n", "q"} = {}
    <3>1. Removable(u)
      BY Zenon, <2>2, <2>4 DEF cleanup
    <3>2. file' = [file EXCEPT ![u] = -1] /\ file \in [Target -> Int]
      BY Zenon, <1>3, <2>2, <3>1 DEF cleanup, MakeInv, MakeTypeOK
    <3>3. t = u
      BY Zenon, <2>4, <3>2
    <3> QED BY Zenon, <3>1, <3>3 DEF Removable, Flag
  <2> QED BY Zenon, <2>3, <2>4 DEF Tidy, Taken
<1>4. MakeInv /\ LeftInv /\ [Next]_makeVars =>
        [status = "run" /\ status' = "killed" =>
           /\ \A t \in torn' :
                \/ t \in mk.precious \cup failed
                \/ ~HasActions(t)
                \/ t \in made /\ (Flag("i") \/ t = child.target)
           /\ \A t \in Target : file'[t] # file[t] =>
                t \notin mk.precious /\ flags \cap {"n", "q"} = {}]_makeVars
  BY Zenon, <1>3
<1> QED BY <1>1, <1>2, <1>4, MakeInvariant, TornInvariant, PTL DEF Spec, InterruptedRemoved
=============================================================================
