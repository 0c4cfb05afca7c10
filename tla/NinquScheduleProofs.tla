------------------------ MODULE NinquScheduleProofs ------------------------
(***************************************************************************)
(* Theorems about the executor of ninqu, for every number of instances, every *)
(* dependency graph and every -j.                                            *)
(***************************************************************************)
EXTENDS NinquSchedule, FiniteSetTheorems, TLAPS

(* The set of instances, and so every set of them, is finite.                *)
LEMMA InstFinite ==
  /\ IsFiniteSet(Inst)
  /\ Cardinality(Inst) = ninsts
  /\ \A S \in SUBSET Inst : IsFiniteSet(S) /\ Cardinality(S) \in Nat
<1>1. IsFiniteSet(Inst) /\ Cardinality(Inst) = ninsts
  BY NinstsAssumption, FS_Interval DEF Inst
<1>2. \A S \in SUBSET Inst : IsFiniteSet(S) /\ Cardinality(S) \in Nat
  BY Zenon, <1>1, FS_Subset, FS_CardinalityType
<1>3. QED
  BY Zenon, <1>1, <1>2

(* Members of an appended sequence.                                          *)
LEMMA MembersAppend ==
  ASSUME NEW S, NEW s \in Seq(S), NEW e \in S
  PROVE  /\ Members(Append(s, e)) = Members(s) \cup {e}
         /\ Injective(s) /\ e \notin Members(s) => Injective(Append(s, e))
BY DEF Members, Injective

(* The members of a level, or of the slots, are instances.                   *)
LEMMA MembersType ==
  ASSUME NEW S, NEW s \in Seq(S)
  PROVE  Members(s) \subseteq S
BY DEF Members

(* An injective sequence has as many members as its length.                  *)
LEMMA InjectiveCardinality ==
  ASSUME NEW s \in Seq(Inst), Injective(s)
  PROVE  Cardinality(Members(s)) = Len(s)
<1>1. Len(s) \in Nat /\ Members(s) \in SUBSET Inst
  BY DEF Members
<1>2. IsFiniteSet(1 .. Len(s)) /\ Cardinality(1 .. Len(s)) = Len(s)
  <2>1. 1 \in Int /\ Len(s) \in Int /\ (IF 1 > Len(s) THEN 0 ELSE Len(s) - 1 + 1) = Len(s)
    BY <1>1
  <2>2. QED
    BY Zenon, <2>1, FS_Interval
<1>3. s \in Bijection(1 .. Len(s), Members(s))
  <2>1. s \in [1 .. Len(s) -> Members(s)]
    BY DEF Members
  <2>2. \A a, b \in 1 .. Len(s) : s[a] = s[b] => a = b
    BY Zenon DEF Injective
  <2>3. \A t \in Members(s) : \E k \in 1 .. Len(s) : s[k] = t
    BY Zenon DEF Members
  <2>4. QED
    BY Zenon, <2>1, <2>2, <2>3 DEF Bijection, Injection, Surjection, IsInjective
<1>4. ExistsBijection(1 .. Len(s), Members(s))
  BY Zenon, <1>3 DEF ExistsBijection
<1>5. QED
  BY Zenon, <1>2, <1>4, FS_Bijection

-----------------------------------------------------------------------------

(* IInv holds before the first step of schedule_and_run().                   *)
LEMMA InitIInv == Init => IInv
<1> SUFFICES ASSUME Init PROVE IInv
  BY Zenon
<1> USE DEF Init
<1>0. Members(<<>>) = {} /\ Injective(<<>>)
  BY DEF Members, Injective
<1>1. TypeOK
  <2>1. indeg \in [Inst -> Nat]
    BY Zenon, InstFinite DEF InitialIndeg
  <2>2. <<>> \in Seq(Inst)
    OBVIOUS
  <2>3. will_build \in [Inst -> BOOLEAN] /\ child \in [Inst -> Children]
    BY Zenon DEF Children
  <2>4. pc = "scan" /\ i = 1 /\ next = 1 /\ done_count = 0 /\ todo = {} /\ completed = {}
    BY Zenon
  <2>5. level = <<>> /\ next_level = <<>> /\ slot = <<>>
    BY Zenon
  <2>6. dep_inst \in [Inst -> SUBSET Inst] /\ summary_mode \in BOOLEAN
        /\ failed_any \in BOOLEAN
    BY Zenon
  <2> HIDE DEF Init
  <2>7. QED
    BY <2>1, <2>2, <2>3, <2>4, <2>5, <2>6 DEF TypeOK
<1>2. IndegExact
  <2>1. \A v \in Inst : Uncounted(v) = dep_inst[v]
    BY Zenon DEF Uncounted, Counted
  <2>2. QED
    BY Zenon, <2>1 DEF IndegExact, InitialIndeg
<1>3. LevelsDistinct /\ PlacedInv /\ LoopInv /\ BatchInv /\ RetireInv /\ EndInv
  BY Zenon, <1>0 DEF LevelsDistinct, PlacedInv, LoopInv, BatchInv, RetireInv, EndInv
<1>4. ScanInv
  BY <1>0 DEF ScanInv, Inst
<1>5. DoneCountInv
  BY Zenon, FS_EmptySet DEF DoneCountInv
<1>6. ChildInv
  BY <1>0, JobsAssumption DEF ChildInv
<1>7. QED
  BY Zenon, <1>1, <1>2, <1>3, <1>4, <1>5, <1>6 DEF IInv

(* In the retire loop, the member being retired is still an uncounted        *)
(* dependency of every instance left to visit: its decrement cannot          *)
(* underflow.                                                                *)
LEMMA TodoUncounted ==
  ASSUME IInv, pc = "retire", NEW v \in todo
  PROVE  /\ v \in Inst /\ i \in 1 .. Len(level) /\ level[i] \in Inst
         /\ level[i] \in Uncounted(v)
         /\ indeg[v] \in Nat \ {0}
<1> USE DEF IInv, TypeOK
<1>1. v \in Inst /\ i \in 1 .. Len(level) /\ level[i] \in Inst
  BY DEF RetireInv
<1>2. level[i] \in dep_inst[v]
  BY Zenon DEF RetireInv, Dependents
<1>3. level[i] \in Members(level)
  BY Zenon, <1>1 DEF Members
<1>4. \A k \in 1 .. Len(level) : level[k] = level[i] => k = i
  BY Zenon, <1>1 DEF LevelsDistinct, Injective
<1>5. ~Counted(level[i], v)
  BY <1>1, <1>3, <1>4 DEF Counted
<1>6. level[i] \in Uncounted(v)
  BY Zenon, <1>2, <1>5 DEF Uncounted
<1>7. IsFiniteSet(Uncounted(v)) /\ Cardinality(Uncounted(v)) # 0
  <2>1. Uncounted(v) \in SUBSET Inst
    BY Zenon, <1>1 DEF Uncounted
  <2>2. QED
    BY Zenon, <1>6, <2>1, InstFinite, FS_EmptySet
<1>8. QED
  BY Zenon, <1>1, <1>6, <1>7 DEF IndegExact

(* Every step keeps the types of the variables.                              *)
LEMMA TypeStep ==
  ASSUME IInv, Next PROVE TypeOK'
<1>0. TypeOK
  BY Zenon DEF IInv
<1> USE <1>0 DEF TypeOK, Children
<1>1. CASE Scan
  <2>1. level' \in Seq(Inst)
    <3>1. CASE i <= ninsts
      <4>1. i \in Inst
        BY <3>1, NinstsAssumption DEF Inst
      <4>2. Append(level, i) \in Seq(Inst)
        BY <4>1
      <4>3. level' = Append(level, i) \/ level' = level
        BY Zenon, <3>1, <1>1 DEF Scan
      <4>4. QED
        BY Zenon, <4>2, <4>3
    <3>2. CASE ~(i <= ninsts)
      BY Zenon, <1>1, <3>2 DEF Scan
    <3>3. QED
      BY Zenon, <3>1, <3>2
  <2>2. QED
    BY <1>1, <2>1 DEF Scan
<1>2. CASE StartLevel
  BY <1>2 DEF StartLevel
<1>3. CASE Finish
  BY Zenon, <1>3 DEF Finish
<1>4. CASE SkipFresh
  BY <1>4 DEF SkipFresh, CanStart
<1>5. CASE Spawn
  BY <1>5 DEF Spawn, CanStart
<1>6. ASSUME NEW k \in Inst, Reap(k) PROVE TypeOK'
  <2>1. DropSlot(k) \in Seq(Inst)
    BY <1>6 DEF Reap, DropSlot
  <2>2. FailedAfter(slot[k]) \in BOOLEAN /\ slot[k] \in Inst
    BY <1>6 DEF Reap, FailedAfter
  <2>3. QED
    BY Zenon, <1>6, <2>1, <2>2 DEF Reap
<1>7. ASSUME NEW stale \in BOOLEAN, Summarise(stale) PROVE TypeOK'
  BY <1>7 DEF Summarise, WillBuild
<1>8. CASE EndLevel
  BY <1>8 DEF EndLevel, Dependents
<1>9. CASE Retire
  <2>1. PICK v \in todo :
          /\ indeg' = [indeg EXCEPT ![v] = @ - 1]
          /\ next_level' = IF BecomesReady(v) THEN Append(next_level, v) ELSE next_level
          /\ todo' = todo \ {v}
    BY Zenon, <1>9 DEF Retire
  <2>2. indeg' \in [Inst -> Nat]
    <3>1. v \in Inst /\ indeg[v] \in Nat \ {0}
      BY Zenon, <1>9, TodoUncounted DEF Retire
    <3>2. QED
      BY <2>1, <3>1
  <2>3. QED
    BY <2>1, <2>2, <1>9 DEF Retire
<1>10. CASE RetireNext
  BY <1>10 DEF RetireNext, Dependents
<1>11. ASSUME NEW v \in Inst, NEW status \in {"ok", "failed"}, ChildExit(v, status)
       PROVE TypeOK'
  BY Zenon, <1>11 DEF ChildExit
<1>12. CASE Exited
  BY Zenon, <1>12 DEF Exited, schedVars
<1>13. QED
  BY Zenon, <1>1, <1>2, <1>3, <1>4, <1>5, <1>6, <1>7, <1>8, <1>9, <1>10, <1>11, <1>12
     DEF Next, Parent, Commands

(* A step that neither touches indeg nor counts an edge keeps indeg exact.   *)
LEMMA IndegKept ==
  ASSUME IInv, dep_inst' = dep_inst, indeg' = indeg,
         \A v \in Inst : \A u \in dep_inst[v] : Counted(u, v)' <=> Counted(u, v)
  PROVE  IndegExact'
<1>1. \A v \in Inst : Uncounted(v)' = Uncounted(v)
  BY Zenon DEF Uncounted
<1>2. QED
  BY Zenon, <1>1 DEF IInv, IndegExact

(* The loop that collects the first level keeps IInv.                        *)
LEMMA ScanStep ==
  ASSUME IInv, Scan PROVE IInv'
<1>1. TypeOK /\ TypeOK'
  BY Zenon, TypeStep DEF IInv, Next, Parent
<1>2. /\ completed = {} /\ next_level = <<>> /\ slot = <<>> /\ pc = "scan"
      /\ Members(level) = {v \in Inst : v < i /\ indeg[v] = 0}
  BY Zenon DEF IInv, ScanInv, Scan
<1>3. Members(<<>>) = {} /\ Injective(<<>>)
  BY DEF Members, Injective
<1>4. IndegExact'
  <2>1. \A v \in Inst : \A u \in dep_inst[v] : Counted(u, v)' <=> Counted(u, v)
    BY Zenon, <1>2 DEF Scan, Counted
  <2>2. QED
    BY Zenon, <2>1, IndegKept DEF Scan
<1>5. CASE i <= ninsts
  <2>0. /\ i \in Inst /\ i \in Nat
        /\ level' = IF indeg[i] = 0 THEN Append(level, i) ELSE level
        /\ i' = i + 1 /\ pc' = "scan" /\ indeg' = indeg /\ completed' = completed
        /\ next_level' = next_level /\ slot' = slot /\ done_count' = done_count
        /\ child' = child /\ failed_any' = failed_any
    BY <1>5, <1>1, <1>2, NinstsAssumption DEF Scan, Inst, TypeOK
  <2>1. i \notin Members(level)
    BY <1>2, <2>0
  <2>2. Members(level)' = {v \in Inst : v < i + 1 /\ indeg[v] = 0}
    <3>1. CASE indeg[i] = 0
      <4>1. Members(level)' = Members(level) \cup {i}
        BY <3>1, <2>0, <1>1, MembersAppend DEF TypeOK
      <4>2. QED
        BY <4>1, <3>1, <1>2, <2>0 DEF Inst
    <3>2. CASE indeg[i] # 0
      BY <3>2, <1>2, <2>0 DEF Inst, Members
    <3>3. QED
      BY Zenon, <3>1, <3>2
  <2>3. LevelsDistinct'
    BY Zenon, <2>0, <2>1, <1>1, <1>2, <1>3, MembersAppend DEF IInv, LevelsDistinct, TypeOK
  <2>4. ScanInv'
    BY Zenon, <2>0, <2>2, <1>2 DEF ScanInv
  <2>5. PlacedInv' /\ LoopInv' /\ BatchInv' /\ RetireInv' /\ EndInv'
    BY Zenon, <2>0 DEF PlacedInv, LoopInv, BatchInv, RetireInv, EndInv
  <2>6. DoneCountInv'
    BY Zenon, <2>0, <1>2 DEF IInv, DoneCountInv
  <2>7. ChildInv'
    BY <2>0, <1>2 DEF IInv, ChildInv, Members
  <2>8. QED
    BY Zenon, <1>1, <1>4, <2>3, <2>4, <2>5, <2>6, <2>7 DEF IInv
<1>6. CASE ~(i <= ninsts)
  <2>0. /\ level' = level /\ pc' = "loop" /\ indeg' = indeg /\ completed' = completed
        /\ next_level' = next_level /\ slot' = slot /\ done_count' = done_count
        /\ child' = child /\ failed_any' = failed_any
    BY Zenon, <1>6 DEF Scan
  <2>1. Members(level) = {v \in Inst : indeg[v] = 0}
    BY <1>1, <1>2, <1>6, NinstsAssumption DEF Inst, TypeOK
  <2>2. PlacedInv'
    BY <2>0, <2>1, <1>2, <1>3 DEF PlacedInv, Placed, Members
  <2>3. LevelsDistinct' /\ ScanInv' /\ BatchInv' /\ RetireInv' /\ EndInv'
    BY Zenon, <2>0 DEF IInv, LevelsDistinct, ScanInv, BatchInv, RetireInv, EndInv
  <2>4. LoopInv'
    BY Zenon, <2>0, <1>2, <1>3 DEF LoopInv
  <2>5. DoneCountInv' /\ ChildInv'
    BY <2>0, <1>2 DEF IInv, DoneCountInv, ChildInv, Members
  <2>6. QED
    BY Zenon, <1>1, <1>4, <2>2, <2>3, <2>4, <2>5 DEF IInv
<1>7. QED
  BY Zenon, <1>5, <1>6

(* Starting a level keeps IInv.                                              *)
LEMMA StartLevelStep ==
  ASSUME IInv, StartLevel PROVE IInv'
<1>1. TypeOK /\ TypeOK'
  BY Zenon, TypeStep DEF IInv, Next, Parent
<1>2. /\ pc = "loop" /\ pc' \in {"batch", "summary"} /\ level # <<>> /\ next' = 1
      /\ level' = level /\ next_level' = <<>> /\ slot' = slot /\ slot = <<>>
      /\ completed' = completed /\ indeg' = indeg /\ dep_inst' = dep_inst
      /\ done_count' = done_count /\ child' = child /\ failed_any' = failed_any
      /\ Members(level) \cap completed = {} /\ Members(next_level) \subseteq Members(level)
  BY Zenon DEF StartLevel, IInv, LoopInv
<1>3. Members(<<>>) = {} /\ Injective(<<>>)
  BY DEF Members, Injective
<1>4. IndegExact'
  <2>1. \A v \in Inst : \A u \in dep_inst[v] : Counted(u, v)' <=> Counted(u, v)
    BY Zenon, <1>2 DEF Counted, Members
  <2>2. QED
    BY Zenon, <1>2, <2>1, IndegKept
<1>5. LevelsDistinct' /\ ScanInv' /\ LoopInv' /\ RetireInv' /\ EndInv'
  BY Zenon, <1>2, <1>3 DEF IInv, LevelsDistinct, ScanInv, LoopInv, RetireInv, EndInv
<1>6. PlacedInv'
  <2>1. Members(level)' = Members(level) /\ Members(next_level)' = {}
    BY Zenon, <1>2, <1>3 DEF Members
  <2>2. Placed' = Placed
    BY Zenon, <1>2, <2>1 DEF Placed
  <2>3. QED
    BY Zenon, <1>2, <2>2 DEF IInv, PlacedInv
<1>7. BatchInv'
  <2>1. \A k \in 1 .. Len(level) : level[k] \in Members(level)
    BY Zenon DEF Members
  <2>2. QED
    BY <1>1, <1>2, <1>3, <2>1 DEF BatchInv, TypeOK
<1>8. DoneCountInv' /\ ChildInv'
  BY <1>2 DEF IInv, DoneCountInv, ChildInv, Members
<1>9. QED
  BY Zenon, <1>1, <1>4, <1>5, <1>6, <1>7, <1>8 DEF IInv

(* Leaving the loop over the levels, complete or stuck, keeps IInv.          *)
LEMMA FinishStep ==
  ASSUME IInv, Finish PROVE IInv'
<1>1. TypeOK /\ TypeOK'
  BY Zenon, TypeStep DEF IInv, Next, Parent
<1>2. /\ pc = "loop" /\ pc' \in {"cycle", "done"} /\ level = <<>>
      /\ pc' = "cycle" <=> CycleLeft
      /\ level' = level /\ next_level' = next_level /\ slot' = slot /\ slot = <<>>
      /\ completed' = completed /\ indeg' = indeg /\ dep_inst' = dep_inst
      /\ done_count' = done_count /\ child' = child /\ failed_any' = failed_any
      /\ Members(next_level) \subseteq Members(level)
  BY Zenon DEF Finish, IInv, LoopInv
<1>3. next_level = <<>>
  <2>1. Members(next_level) = {}
    BY <1>2 DEF Members
  <2>2. Len(next_level) = 0
    <3>1. Len(next_level) \in Nat
      BY <1>1 DEF TypeOK
    <3>2. Len(next_level) # 0 => next_level[1] \in Members(next_level)
      BY <3>1 DEF Members
    <3>3. QED
      BY Zenon, <3>2, <2>1
  <2>3. QED
    BY <1>1, <2>2 DEF TypeOK
<1>4. IndegExact'
  <2>1. \A v \in Inst : \A u \in dep_inst[v] : Counted(u, v)' <=> Counted(u, v)
    BY Zenon, <1>2 DEF Counted, Members
  <2>2. QED
    BY Zenon, <1>2, <2>1, IndegKept
<1>5. LevelsDistinct' /\ ScanInv' /\ LoopInv' /\ RetireInv' /\ BatchInv'
  BY Zenon, <1>2 DEF IInv, LevelsDistinct, ScanInv, LoopInv, RetireInv, BatchInv
<1>6. PlacedInv' /\ DoneCountInv' /\ ChildInv'
  BY <1>2 DEF IInv, PlacedInv, Placed, DoneCountInv, ChildInv, Members
<1>7. EndInv'
  BY Zenon, <1>2, <1>3 DEF EndInv, CycleLeft
<1>8. QED
  BY Zenon, <1>1, <1>4, <1>5, <1>6, <1>7 DEF IInv

(* An instance found fresh, and one reported by the summary, is passed over. *)
LEMMA PassStep ==
  ASSUME IInv, SkipFresh \/ \E stale \in BOOLEAN : Summarise(stale) PROVE IInv'
<1>1. TypeOK /\ TypeOK'
  BY Zenon, TypeStep DEF IInv, Next, Parent
<1>2. /\ pc \in {"batch", "summary"} /\ pc' = pc
      /\ next \in 1 .. Len(level) /\ next' = next + 1
      /\ level' = level /\ next_level' = next_level /\ slot' = slot
      /\ completed' = completed \cup {level[next]} /\ indeg' = indeg /\ dep_inst' = dep_inst
      /\ done_count' = done_count /\ child' = child /\ failed_any' = failed_any
      /\ level[next] \in Inst
  BY <1>1 DEF SkipFresh, CanStart, Summarise, TypeOK
<1>3. /\ Members(level)' = Members(level) /\ Members(next_level)' = Members(next_level)
      /\ Members(slot)' = Members(slot) /\ level[next] \in Members(level)
  BY Zenon, <1>2 DEF Members
<1>4. /\ level[next] \notin completed /\ level[next] \notin Members(slot)
      /\ \A k \in 1 .. Len(level) : level[k] = level[next] => k = next
  BY <1>1, <1>2 DEF IInv, BatchInv, LevelsDistinct, Injective, TypeOK
<1>5. IndegExact'
  <2>1. \A v \in Inst : \A u \in dep_inst[v] : Counted(u, v)' <=> Counted(u, v)
    BY Zenon, <1>2, <1>3 DEF Counted
  <2>2. QED
    BY Zenon, <1>2, <2>1, IndegKept
<1>6. LevelsDistinct' /\ ScanInv' /\ LoopInv' /\ RetireInv' /\ EndInv'
  BY Zenon, <1>2 DEF IInv, LevelsDistinct, ScanInv, LoopInv, RetireInv, EndInv
<1>7. PlacedInv'
  <2>1. Placed' = Placed
    BY Zenon, <1>2, <1>3 DEF Placed
  <2>2. QED
    BY Zenon, <1>2, <2>1 DEF IInv, PlacedInv
<1>8. BatchInv'
  <2>1. next' <= Len(level') + 1
    BY <1>1, <1>2 DEF TypeOK
  <2>2. ASSUME NEW k \in 1 .. Len(level)
        PROVE  /\ k >= next + 1 => level[k] \notin completed' \cup Members(slot)
               /\ k < next + 1 => level[k] \in completed' \cup Members(slot)
    <3>1. next \in Int /\ k \in Int
      BY <1>1 DEF TypeOK
    <3>2. (k >= next + 1 => k >= next /\ k # next) /\ (k < next + 1 => k < next \/ k = next)
      BY <3>1
    <3>3. /\ k >= next => level[k] \notin completed \cup Members(slot)
          /\ k < next => level[k] \in completed \cup Members(slot)
      BY Zenon, <1>2 DEF IInv, BatchInv
    <3>4. QED
      BY Zenon, <1>2, <1>4, <3>2, <3>3
  <2>3. QED
    BY Zenon, <1>2, <1>3, <1>4, <2>1, <2>2 DEF IInv, BatchInv
<1>9. DoneCountInv'
  <2>1. (completed \ Members(level))' = completed \ Members(level)
    BY Zenon, <1>2, <1>3
  <2>2. QED
    BY Zenon, <1>2, <2>1 DEF IInv, DoneCountInv
<1>10. ChildInv'
  <2>1. child[level[next]] = "none"
    BY Zenon, <1>2, <1>4 DEF IInv, ChildInv
  <2>2. QED
    BY Zenon, <1>2, <1>3, <2>1 DEF IInv, ChildInv
<1>11. QED
  BY Zenon, <1>1, <1>5, <1>6, <1>7, <1>8, <1>9, <1>10 DEF IInv

(* Forking the next command of the level keeps IInv.                         *)
LEMMA SpawnStep ==
  ASSUME IInv, Spawn PROVE IInv'
<1>1. TypeOK /\ TypeOK'
  BY Zenon, TypeStep DEF IInv, Next, Parent
<1>2. /\ pc = "batch" /\ pc' = "batch" /\ next \in 1 .. Len(level) /\ next' = next + 1
      /\ Len(slot) < jobs_n /\ Len(slot) \in Nat
      /\ level' = level /\ next_level' = next_level /\ slot' = Append(slot, level[next])
      /\ completed' = completed /\ indeg' = indeg /\ dep_inst' = dep_inst
      /\ done_count' = done_count /\ failed_any' = failed_any
      /\ child' = [child EXCEPT ![level[next]] = "alive"]
      /\ level[next] \in Inst
  BY <1>1 DEF Spawn, CanStart, TypeOK
<1>3. /\ Members(level)' = Members(level) /\ Members(next_level)' = Members(next_level)
      /\ level[next] \in Members(level)
  BY Zenon, <1>2 DEF Members
<1>4. /\ level[next] \notin completed /\ level[next] \notin Members(slot)
      /\ \A k \in 1 .. Len(level) : level[k] = level[next] => k = next
  BY <1>1, <1>2 DEF IInv, BatchInv, LevelsDistinct, Injective, TypeOK
<1>5. Members(slot)' = Members(slot) \cup {level[next]} /\ Injective(slot)'
  BY <1>1, <1>2, <1>4, MembersAppend DEF IInv, LevelsDistinct, TypeOK
<1>6. IndegExact'
  <2>1. \A v \in Inst : \A u \in dep_inst[v] : Counted(u, v)' <=> Counted(u, v)
    BY Zenon, <1>2, <1>3 DEF Counted
  <2>2. QED
    BY Zenon, <1>2, <2>1, IndegKept
<1>7. LevelsDistinct' /\ ScanInv' /\ LoopInv' /\ RetireInv' /\ EndInv'
  BY Zenon, <1>2, <1>5 DEF IInv, LevelsDistinct, ScanInv, LoopInv, RetireInv, EndInv
<1>8. PlacedInv' /\ DoneCountInv'
  BY Zenon, <1>2, <1>3 DEF IInv, PlacedInv, Placed, DoneCountInv
<1>9. BatchInv'
  <2>1. next' <= Len(level') + 1
    BY <1>1, <1>2 DEF TypeOK
  <2>2. ASSUME NEW k \in 1 .. Len(level)
        PROVE  /\ k >= next + 1 => level[k] \notin completed \cup Members(slot)'
               /\ k < next + 1 => level[k] \in completed \cup Members(slot)'
    BY <1>1, <1>2, <1>4, <1>5 DEF IInv, BatchInv, TypeOK
  <2>3. QED
    BY Zenon, <1>2, <1>3, <1>4, <1>5, <2>1, <2>2 DEF IInv, BatchInv
<1>10. ChildInv'
  <2>1. Len(slot') = Len(slot) + 1 /\ Len(slot') <= jobs_n
    BY <1>1, <1>2, JobsAssumption DEF TypeOK
  <2>2. \A v \in Inst : child'[v] = IF v = level[next] THEN "alive" ELSE child[v]
    BY Zenon, <1>1, <1>2 DEF TypeOK
  <2>3. \A v \in completed : v \in Inst /\ child'[v] = child[v]
    BY Zenon, <1>1, <1>4, <2>2 DEF TypeOK
  <2>4. QED
    BY <1>2, <1>5, <2>1, <2>2, <2>3 DEF IInv, ChildInv
<1>11. QED
  BY Zenon, <1>1, <1>6, <1>7, <1>8, <1>9, <1>10 DEF IInv

(* Dropping slot k keeps every other member and forgets no one else.         *)
LEMMA DropSlotMembers ==
  ASSUME slot \in Seq(Inst), Injective(slot), NEW k \in 1 .. Len(slot)
  PROVE  /\ DropSlot(k) \in Seq(Inst)
         /\ Len(DropSlot(k)) = Len(slot) - 1
         /\ Injective(DropSlot(k))
         /\ Members(DropSlot(k)) = Members(slot) \ {slot[k]}
<1> DEFINE n == Len(slot)
           d == DropSlot(k)
<1>1. n \in Nat \ {0} /\ k \in 1 .. n
  OBVIOUS
<1>2. d \in Seq(Inst) /\ Len(d) = n - 1
  BY <1>1 DEF DropSlot
<1>3. \A m \in 1 .. n - 1 : d[m] = IF m = k THEN slot[n] ELSE slot[m]
  BY Zenon DEF DropSlot
<1> DEFINE at(m) == IF m = k THEN n ELSE m
<1> HIDE DEF d, n
<1>a. \A p, q \in 1 .. n : slot[p] = slot[q] => p = q
  BY Zenon DEF Injective, n
<1>b. \A m \in 1 .. n - 1 : at(m) \in 1 .. n /\ at(m) # k /\ d[m] = slot[at(m)]
  BY <1>1, <1>3
<1>4. Injective(d)
  <2>1. SUFFICES ASSUME NEW p \in 1 .. n - 1, NEW q \in 1 .. n - 1, d[p] = d[q]
                 PROVE  p = q
    BY Zenon, <1>2 DEF Injective
  <2>2. at(p) = at(q)
    <3> HIDE DEF at
    <3> QED
      BY Zenon, <1>a, <1>b, <2>1
  <2> QED
    BY <1>1, <2>2
<1> HIDE DEF at
<1>5. Members(d) \subseteq Members(slot) \ {slot[k]}
  <2>1. SUFFICES ASSUME NEW m \in 1 .. n - 1
                 PROVE  d[m] \in Members(slot) /\ d[m] # slot[k]
    BY Zenon, <1>2 DEF Members
  <2> QED
    BY Zenon, <1>1, <1>a, <1>b DEF Members, n
<1> USE DEF n
<1>6. Members(slot) \ {slot[k]} \subseteq Members(d)
  <2>1. SUFFICES ASSUME NEW m \in 1 .. n, slot[m] # slot[k]
                 PROVE  slot[m] \in Members(d)
    BY Zenon DEF Members
  <2>2. m # k
    BY Zenon, <2>1
  <2>3. CASE m = n
    <3>1. k \in 1 .. n - 1 /\ d[k] = slot[m]
      BY <1>1, <1>3, <2>2, <2>3
    <3>2. QED
      BY Zenon, <3>1, <1>2 DEF Members
  <2>4. CASE m # n
    <3>1. m \in 1 .. n - 1 /\ d[m] = slot[m]
      BY <1>1, <1>3, <2>2, <2>4
    <3>2. QED
      BY Zenon, <3>1, <1>2 DEF Members
  <2>5. QED
    BY Zenon, <2>3, <2>4
<1>7. QED
  BY Zenon, <1>2, <1>4, <1>5, <1>6 DEF d

(* Waiting for a command, in whatever order they end, keeps IInv.            *)
LEMMA ReapStep ==
  ASSUME IInv, NEW k \in Inst, Reap(k) PROVE IInv'
<1>1. TypeOK /\ TypeOK'
  BY Zenon, TypeStep DEF IInv, Next, Parent
<1> DEFINE v == slot[k]
<1>2. /\ pc = "batch" /\ pc' = "batch" /\ k \in 1 .. Len(slot) /\ next' = next
      /\ level' = level /\ next_level' = next_level /\ slot' = DropSlot(k)
      /\ completed' = completed \cup {v} /\ indeg' = indeg /\ dep_inst' = dep_inst
      /\ done_count' = done_count /\ child' = child /\ child[v] \in {"ok", "failed"}
      /\ failed_any' = (failed_any \/ child[v] = "failed")
      /\ v \in Inst /\ v \in Members(slot)
  BY Zenon, <1>1 DEF Reap, FailedAfter, TypeOK, Members
<1>3. /\ Members(level)' = Members(level) /\ Members(next_level)' = Members(next_level)
      /\ v \in Members(level) /\ v \notin completed
  BY Zenon, <1>2 DEF Members, IInv, BatchInv
<1>4. /\ Members(slot)' = Members(slot) \ {v} /\ Injective(slot)'
      /\ Len(slot') = Len(slot) - 1 /\ Len(slot) \in Nat
  <2>1. slot \in Seq(Inst) /\ Injective(slot)
    BY Zenon, <1>1 DEF IInv, LevelsDistinct, TypeOK
  <2>2. /\ Members(DropSlot(k)) = Members(slot) \ {v} /\ Injective(DropSlot(k))
        /\ Len(DropSlot(k)) = Len(slot) - 1
    BY Zenon, <1>2, <2>1, DropSlotMembers
  <2>3. /\ Members(slot)' = Members(DropSlot(k))
        /\ (Injective(slot)' <=> Injective(DropSlot(k)))
    BY Zenon, <1>2
  <2>4. QED
    BY <1>2, <2>1, <2>2, <2>3
<1> HIDE DEF v
<1>5. IndegExact'
  <2>1. \A x \in Inst : \A u \in dep_inst[x] : Counted(u, x)' <=> Counted(u, x)
    BY Zenon, <1>2, <1>3 DEF Counted
  <2>2. QED
    BY Zenon, <1>2, <2>1, IndegKept
<1>6. LevelsDistinct' /\ ScanInv' /\ LoopInv' /\ RetireInv' /\ EndInv'
  BY Zenon, <1>2, <1>4 DEF IInv, LevelsDistinct, ScanInv, LoopInv, RetireInv, EndInv
<1>7. PlacedInv' /\ DoneCountInv'
  <2>1. Placed' = Placed /\ (completed \ Members(level))' = completed \ Members(level)
    BY Zenon, <1>2, <1>3 DEF Placed
  <2>2. QED
    BY Zenon, <1>2, <2>1 DEF IInv, PlacedInv, DoneCountInv
<1>8. BatchInv'
  <2>1. completed' \cup Members(slot)' = completed \cup Members(slot)
    BY Zenon, <1>2, <1>4
  <2>2. QED
    BY Zenon, <1>2, <1>3, <1>4, <2>1 DEF IInv, BatchInv
<1>9. ChildInv'
  <2>1. \A x \in Inst : x \notin completed' => (child'[x] # "none" <=> x \in Members(slot)')
    BY Zenon, <1>2, <1>4 DEF IInv, ChildInv
  <2>2. \A x \in completed' : child'[x] # "alive"
    BY Zenon, <1>2 DEF IInv, ChildInv
  <2>3. Len(slot') <= jobs_n
    BY <1>4, JobsAssumption DEF IInv, ChildInv
  <2>4. failed_any' <=> \E x \in completed' : child'[x] = "failed"
    BY Zenon, <1>2 DEF IInv, ChildInv
  <2>5. QED
    BY Zenon, <2>1, <2>2, <2>3, <2>4 DEF ChildInv
<1>10. QED
  BY Zenon, <1>1, <1>5, <1>6, <1>7, <1>8, <1>9 DEF IInv

(* A step that leaves the scheduler's own variables alone.                    *)
LEMMA ControlKept ==
  ASSUME IInv, TypeOK', ChildInv',
         UNCHANGED <<dep_inst, pc, i, indeg, level, next_level, todo, next, slot,
                     done_count, completed>>
  PROVE  IInv'
<1>1. IndegExact'
  <2>1. \A x \in Inst : \A u \in dep_inst[x] : Counted(u, x)' <=> Counted(u, x)
    BY Zenon DEF Counted, Members
  <2>2. QED
    BY Zenon, <2>1, IndegKept
<1>2. LevelsDistinct'
  BY DEF IInv, LevelsDistinct, Injective
<1>3. PlacedInv' /\ ScanInv'
  BY DEF IInv, PlacedInv, Placed, ScanInv, Members
<1>4. LoopInv' /\ DoneCountInv'
  BY DEF IInv, LoopInv, DoneCountInv, Members
<1>5. BatchInv'
  BY DEF IInv, BatchInv, Members
<1>6. RetireInv'
  BY Zenon DEF IInv, RetireInv, Members, Dependents
<1>7. EndInv'
  BY Zenon DEF IInv, EndInv, CycleLeft
<1>8. QED
  BY Zenon, <1>1, <1>2, <1>3, <1>4, <1>5, <1>6, <1>7 DEF IInv

(* A command that ends keeps IInv.                                           *)
LEMMA ChildExitStep ==
  ASSUME IInv, NEW v \in Inst, NEW status \in {"ok", "failed"}, ChildExit(v, status)
  PROVE  IInv'
<1>1. TypeOK /\ TypeOK'
  BY Zenon, TypeStep DEF IInv, Next, Commands
<1>2. /\ child[v] = "alive" /\ child' = [child EXCEPT ![v] = status]
      /\ slot' = slot /\ completed' = completed /\ failed_any' = failed_any
  BY Zenon DEF ChildExit
<1>3. ChildInv'
  <2>1. v \notin completed
    BY Zenon, <1>2 DEF IInv, ChildInv
  <2>2. \A x \in Inst : child'[x] = IF x = v THEN status ELSE child[x]
    BY Zenon, <1>1, <1>2 DEF TypeOK
  <2>3. /\ \A x \in completed : x \in Inst /\ child'[x] = child[x]
        /\ \A x \in Inst : child'[x] # "none" <=> child[x] # "none"
        /\ Members(slot)' = Members(slot)
    BY <1>1, <1>2, <2>1, <2>2 DEF TypeOK, Members
  <2>4. QED
    BY Zenon, <1>2, <2>3 DEF IInv, ChildInv
<1>4. QED
  BY Zenon, <1>1, <1>3, ControlKept DEF ChildExit

(* A step that changes nothing keeps IInv.                                   *)
LEMMA StutterStep ==
  ASSUME IInv, UNCHANGED schedVars PROVE IInv'
<1>1. TypeOK'
  BY Zenon DEF IInv, TypeOK, schedVars
<1>2. ChildInv'
  BY Zenon DEF IInv, ChildInv, Members, schedVars
<1>3. QED
  BY Zenon, <1>1, <1>2, ControlKept DEF schedVars

(* The end of a batch keeps IInv.                                            *)
LEMMA EndLevelStep ==
  ASSUME IInv, EndLevel PROVE IInv'
<1>1. TypeOK /\ TypeOK'
  BY Zenon, TypeStep DEF IInv, Next, Parent
<1>2. /\ pc \in {"batch", "summary"} /\ pc' = "retire" /\ i' = 1 /\ slot = <<>> /\ slot' = slot
      /\ next > Len(level) /\ todo' = Dependents(level[1])
      /\ level' = level /\ next_level' = next_level
      /\ completed' = completed /\ indeg' = indeg /\ dep_inst' = dep_inst
      /\ done_count' = done_count + Len(level)
      /\ child' = child /\ failed_any' = failed_any
  BY Zenon DEF EndLevel
<1>3. /\ Members(level)' = Members(level) /\ Members(next_level)' = Members(next_level)
      /\ Members(slot)' = Members(slot) /\ Members(slot) = {} /\ Members(next_level) = {}
      /\ 1 \in 1 .. Len(level)
  <2>1. next_level = <<>> /\ level # <<>>
    BY Zenon, <1>2 DEF IInv, BatchInv
  <2>2. level \in Seq(Inst)
    BY Zenon, <1>1 DEF TypeOK
  <2>3. Len(level) \in Nat \ {0}
    BY <2>1, <2>2
  <2>4. Members(<<>>) = {}
    BY DEF Members
  <2>5. QED
    BY <1>2, <2>1, <2>3, <2>4 DEF Members
<1>4. Members(level) \subseteq completed
  <2>1. \A k \in 1 .. Len(level) : k < next
    BY <1>1, <1>2 DEF TypeOK
  <2>2. QED
    BY <1>2, <1>3, <2>1 DEF IInv, BatchInv, Members
<1>5. IndegExact'
  <2>1. ASSUME NEW v \in Inst, NEW u \in dep_inst[v]
        PROVE  Counted(u, v)' <=> Counted(u, v)
    <3>1. u \in Inst /\ (u = level[1] => v \in todo')
      BY Zenon, <1>1, <1>2, <2>1 DEF TypeOK, Dependents
    <3>2. Counted(u, v) <=> u \in completed /\ u \notin Members(level)
      BY Zenon, <1>2 DEF Counted
    <3>3. ~\E k \in 1 .. Len(level) : level[k] = u /\ (k < 1 \/ (k = 1 /\ v \notin todo'))
      BY <3>1
    <3>4. QED
      BY Zenon, <1>2, <1>3, <3>2, <3>3 DEF Counted
  <2>2. QED
    BY Zenon, <1>2, <2>1, IndegKept
<1>6. LevelsDistinct' /\ ScanInv' /\ LoopInv' /\ BatchInv' /\ EndInv'
  BY <1>2, SMTT(30) DEF IInv, LevelsDistinct, Injective, ScanInv, LoopInv, BatchInv, EndInv
<1>7. PlacedInv'
  BY Zenon, <1>2, <1>3 DEF IInv, PlacedInv, Placed
<1>8. RetireInv'
  BY Zenon, <1>2, <1>3, <1>4 DEF RetireInv, Dependents
<1>9. DoneCountInv'
  <2>1. done_count = Cardinality(completed \ Members(level))
    BY Zenon, <1>2 DEF IInv, DoneCountInv
  <2>2. Cardinality(Members(level)) = Len(level) /\ Len(level) \in Nat
    BY <1>1, InjectiveCardinality DEF TypeOK, IInv, LevelsDistinct
  <2>3. IsFiniteSet(completed) /\ Cardinality(completed) \in Nat
    BY Zenon, <1>1, InstFinite DEF TypeOK
  <2>4. completed \cap Members(level) = Members(level)
    BY Zenon, <1>4
  <2>5. Cardinality(completed \ Members(level)) = Cardinality(completed) - Len(level)
    <3>1. Cardinality(completed \ Members(level)) =
            Cardinality(completed) - Cardinality(completed \cap Members(level))
      BY Zenon, <2>3, FS_Difference
    <3>2. QED
      BY Zenon, <2>2, <2>4, <3>1
  <2>6. done_count' = Cardinality(completed)
    BY <1>2, <2>1, <2>2, <2>3, <2>5
  <2>7. QED
    BY Zenon, <1>2, <2>6 DEF DoneCountInv
<1>10. ChildInv'
  BY Zenon, <1>2, <1>3 DEF IInv, ChildInv
<1>11. QED
  BY Zenon, <1>1, <1>5, <1>6, <1>7, <1>8, <1>9, <1>10 DEF IInv

(* Counting down the in-degrees behind one instance keeps IInv.              *)
LEMMA RetireStep ==
  ASSUME IInv, Retire PROVE IInv'
<1>1. TypeOK /\ TypeOK'
  BY Zenon, TypeStep DEF IInv, Next, Parent
<1>2. PICK v \in todo :
        /\ indeg' = [indeg EXCEPT ![v] = @ - 1]
        /\ next_level' = IF BecomesReady(v) THEN Append(next_level, v) ELSE next_level
        /\ todo' = todo \ {v}
  BY Zenon DEF Retire
<1>3. /\ pc = "retire" /\ pc' = "retire" /\ i' = i /\ level' = level /\ slot' = slot
      /\ completed' = completed /\ dep_inst' = dep_inst /\ done_count' = done_count
      /\ child' = child /\ failed_any' = failed_any
  BY Zenon DEF Retire
<1>4. /\ v \in Inst /\ i \in 1 .. Len(level) /\ level[i] \in Uncounted(v)
      /\ indeg[v] \in Nat \ {0} /\ level[i] \in Members(level)
      /\ \A k \in 1 .. Len(level) : level[k] = level[i] => k = i
  <2>1. /\ v \in Inst /\ i \in 1 .. Len(level) /\ level[i] \in Uncounted(v)
        /\ indeg[v] \in Nat \ {0}
    BY Zenon, <1>3, TodoUncounted
  <2>2. QED
    BY Zenon, <2>1 DEF Members, IInv, LevelsDistinct, Injective
<1>5. Members(level)' = Members(level) /\ Members(slot)' = Members(slot)
  BY Zenon, <1>3 DEF Members
<1>6. v \notin Placed
  BY Zenon, <1>3, <1>4 DEF IInv, PlacedInv
<1>7. /\ Members(next_level)' =
           IF indeg[v] = 1 THEN Members(next_level) \cup {v} ELSE Members(next_level)
      /\ Injective(next_level)'
  <2>1. next_level \in Seq(Inst) /\ Injective(next_level) /\ v \notin Members(next_level)
    BY Zenon, <1>1, <1>6 DEF TypeOK, IInv, LevelsDistinct, Placed
  <2>2. CASE indeg[v] = 1
    BY SMTT(30), <1>2, <1>4, <2>1, <2>2, MembersAppend DEF BecomesReady
  <2>3. CASE indeg[v] # 1
    BY Zenon, <1>2, <2>1, <2>3 DEF BecomesReady, Members, Injective
  <2>4. QED
    BY Zenon, <2>2, <2>3
<1>8. \A x \in Inst : indeg'[x] = IF x = v THEN indeg[v] - 1 ELSE indeg[x]
  BY Zenon, <1>1, <1>2 DEF TypeOK
<1>9. IndegExact'
  <2>1. ASSUME NEW x \in Inst, x # v PROVE Uncounted(x)' = Uncounted(x)
    <3>1. x \in todo' <=> x \in todo
      BY Zenon, <1>2, <2>1
    <3>2. \A u : Counted(u, x)' <=> Counted(u, x)
      BY Zenon, <1>3, <1>5, <3>1 DEF Counted
    <3>3. QED
      BY Zenon, <1>3, <3>2 DEF Uncounted
  <2>2. Uncounted(v)' = Uncounted(v) \ {level[i]}
    <3>1. v \notin todo' /\ v \in todo
      BY Zenon, <1>2
    <3>2. \A u : Counted(u, v)' <=> Counted(u, v) \/ u = level[i]
      <4>1. level[i] \in completed
        BY Zenon, <1>3, <1>4 DEF IInv, RetireInv
      <4>2. QED
        BY Zenon, <1>3, <1>4, <1>5, <3>1, <4>1 DEF Counted
    <3>3. QED
      BY Zenon, <1>3, <3>2 DEF Uncounted
  <2>3. Uncounted(v) \in SUBSET Inst
    BY Zenon, <1>1, <1>4 DEF TypeOK, Uncounted
  <2>4. Cardinality(Uncounted(v) \ {level[i]}) = Cardinality(Uncounted(v)) - 1
    BY Zenon, <1>4, <2>3, InstFinite, FS_RemoveElement
  <2>5. \A x \in Inst : indeg[x] = Cardinality(Uncounted(x))
    BY Zenon DEF IInv, IndegExact
  <2>6. ASSUME NEW x \in Inst PROVE indeg'[x] = Cardinality(Uncounted(x)')
    BY Zenon, <1>4, <1>8, <2>1, <2>2, <2>4, <2>5
  <2>7. QED
    BY Zenon, <2>6 DEF IndegExact
<1>10. LevelsDistinct'
  BY <1>3, <1>7 DEF IInv, LevelsDistinct, Injective
<1>11. ScanInv' /\ LoopInv' /\ BatchInv' /\ EndInv'
  BY Zenon, <1>3 DEF ScanInv, LoopInv, BatchInv, EndInv
<1>12. PlacedInv'
  <2>1. \A x \in Inst : indeg[x] = 0 <=> x \in Placed
    BY Zenon, <1>3 DEF IInv, PlacedInv
  <2>2. \A x \in Inst : indeg'[x] = 0 <=> x \in Placed \/ (x = v /\ indeg[v] = 1)
    BY <1>4, <1>6, <1>8, <2>1
  <2>3. \A x : x \in Placed' <=> x \in Placed \/ (x = v /\ indeg[v] = 1)
    BY Zenon, <1>3, <1>5, <1>7 DEF Placed
  <2>4. Placed' \subseteq Inst
    BY Zenon, <1>1, MembersType DEF Placed, TypeOK
  <2>5. {x \in Inst : indeg'[x] = 0} = Placed'
    BY Zenon, <2>2, <2>3, <2>4
  <2>6. QED
    BY Zenon, <2>5 DEF PlacedInv
<1>13. RetireInv'
  <2>1. v \notin completed
    BY Zenon, <1>6 DEF Placed
  <2>2. QED
    BY Zenon, <1>2, <1>3, <1>5, <1>7, <2>1 DEF IInv, RetireInv, Dependents
<1>14. DoneCountInv' /\ ChildInv'
  BY Zenon, <1>3, <1>5 DEF IInv, DoneCountInv, ChildInv
<1>15. QED
  BY Zenon, <1>1, <1>9, <1>10, <1>11, <1>12, <1>13, <1>14 DEF IInv

(* Going on to the next instance of the level to retire keeps IInv.          *)
LEMMA RetireNextStep ==
  ASSUME IInv, RetireNext PROVE IInv'
<1>1. TypeOK /\ TypeOK'
  BY Zenon, TypeStep DEF IInv, Next, Parent
<1>2. /\ pc = "retire" /\ todo = {} /\ slot' = slot /\ slot = <<>> /\ i \in 1 .. Len(level)
      /\ next_level' = next_level
      /\ completed' = completed /\ indeg' = indeg /\ dep_inst' = dep_inst
      /\ done_count' = done_count /\ child' = child /\ failed_any' = failed_any
      /\ Members(level) \subseteq completed /\ Members(next_level) \cap completed = {}
      /\ Len(level) \in Nat
  BY <1>1, SMTT(30) DEF RetireNext, IInv, RetireInv, TypeOK
<1>3. Members(next_level)' = Members(next_level) /\ Members(slot)' = Members(slot)
  BY Zenon, <1>2 DEF Members
<1>4. ChildInv'
  BY Zenon, <1>2, <1>3 DEF IInv, ChildInv
<1>5. CASE i < Len(level)
  <2>1. /\ pc' = "retire" /\ i' = i + 1 /\ level' = level
        /\ todo' = Dependents(level[i + 1]) /\ i + 1 \in 1 .. Len(level)
    BY <1>2, <1>5 DEF RetireNext
  <2>2. Members(level)' = Members(level)
    BY Zenon, <2>1 DEF Members
  <2>3. IndegExact'
    <3>1. ASSUME NEW v \in Inst, NEW u \in dep_inst[v]
          PROVE  Counted(u, v)' <=> Counted(u, v)
      <4>1. u = level[i + 1] => v \in todo'
        BY Zenon, <2>1 DEF Dependents
      <4>2. \A k \in 1 .. Len(level) :
              level[k] = u => (k < i + 1 \/ (k = i + 1 /\ v \notin todo')
                                 <=> k < i \/ (k = i /\ v \notin todo))
        BY SMTT(30), <1>2, <4>1
      <4>3. QED
        BY Zenon, <1>2, <2>1, <2>2, <4>2 DEF Counted
    <3>2. QED
      BY Zenon, <1>2, <3>1, IndegKept
  <2>4. LevelsDistinct' /\ ScanInv' /\ LoopInv' /\ BatchInv' /\ EndInv'
    BY <1>2, <2>1, SMTT(30) DEF IInv, LevelsDistinct, Injective, ScanInv, LoopInv, BatchInv, EndInv
  <2>5. PlacedInv' /\ DoneCountInv'
    BY Zenon, <1>2, <1>3, <2>1, <2>2 DEF IInv, PlacedInv, Placed, DoneCountInv
  <2>6. RetireInv'
    BY Zenon, <1>2, <1>3, <2>1, <2>2 DEF RetireInv, Dependents
  <2>7. QED
    BY Zenon, <1>1, <1>4, <2>3, <2>4, <2>5, <2>6 DEF IInv
<1>6. CASE i >= Len(level)
  <2>1. pc' = "loop" /\ level' = next_level /\ i = Len(level)
    BY <1>2, <1>6 DEF RetireNext
  <2>2. Members(level)' = Members(next_level)
    BY Zenon, <2>1 DEF Members
  <2>3. IndegExact'
    <3>1. ASSUME NEW v \in Inst, NEW u \in dep_inst[v]
          PROVE  Counted(u, v)' <=> Counted(u, v)
      <4>1. \A k \in 1 .. Len(level) : k < i \/ (k = i /\ v \notin todo)
        BY SMTT(30), <1>2, <2>1
      <4>2. Counted(u, v) <=> u \in completed
        BY Zenon, <1>2, <4>1 DEF Counted, Members
      <4>3. Counted(u, v)' <=> u \in completed
        BY Zenon, <1>2, <2>1, <2>2 DEF Counted
      <4>4. QED
        BY Zenon, <4>2, <4>3
    <3>2. QED
      BY <1>2, <3>1, IndegKept
  <2>4. LevelsDistinct' /\ ScanInv' /\ BatchInv' /\ RetireInv' /\ EndInv'
    BY <1>2, <2>1, SMTT(30) DEF IInv, LevelsDistinct, Injective, ScanInv, BatchInv, RetireInv, EndInv
  <2>5. LoopInv'
    BY Zenon, <1>2, <1>3, <2>1, <2>2 DEF LoopInv
  <2>6. PlacedInv'
    <3>1. Placed' = Placed
      BY Zenon, <1>2, <1>3, <2>2 DEF Placed
    <3>2. QED
      BY Zenon, <1>2, <3>1 DEF IInv, PlacedInv
  <2>7. DoneCountInv'
    <3>1. completed' \ Members(level)' = completed
      BY Zenon, <1>2, <2>2
    <3>2. QED
      BY Zenon, <1>2, <2>1, <3>1 DEF IInv, DoneCountInv
  <2>8. QED
    BY Zenon, <1>1, <1>4, <2>3, <2>4, <2>5, <2>6, <2>7 DEF IInv
<1>7. QED
  BY <1>1, <1>2, <1>5, <1>6

(* Every step of the executor keeps IInv.                                    *)
LEMMA NextStep ==
  ASSUME IInv, [Next]_schedVars PROVE IInv'
<1>1. CASE Scan
  BY Zenon, <1>1, ScanStep
<1>2. CASE StartLevel
  BY Zenon, <1>2, StartLevelStep
<1>3. CASE Finish
  BY <1>3, FinishStep
<1>4. CASE SkipFresh \/ \E stale \in BOOLEAN : Summarise(stale)
  BY Zenon, <1>4, PassStep
<1>5. CASE Spawn
  BY <1>5, SpawnStep
<1>6. CASE \E k \in Inst : Reap(k)
  BY Zenon, <1>6, ReapStep
<1>7. CASE EndLevel
  BY <1>7, EndLevelStep
<1>8. CASE Retire
  BY <1>8, RetireStep
<1>9. CASE RetireNext
  BY <1>9, RetireNextStep
<1>10. CASE Commands
  BY Zenon, <1>10, ChildExitStep DEF Commands
<1>11. CASE Exited \/ UNCHANGED schedVars
  BY Zenon, <1>11, StutterStep DEF Exited
<1>12. QED
  BY Zenon, <1>1, <1>2, <1>3, <1>4, <1>5, <1>6, <1>7, <1>8, <1>9, <1>10, <1>11
     DEF Next, Parent

-----------------------------------------------------------------------------

(* The counters and the levels of schedule_and_run() mean what they should:  *)
(* in every reachable state indeg[v] is the number of dependencies of v the  *)
(* retire loop has not counted off, and so on for every conjunct of IInv.    *)
THEOREM Invariance == Spec => []IInv
<1>1. Init => IInv
  BY Zenon, InitIInv
<1>2. IInv /\ [Next]_schedVars => IInv'
  BY Zenon, NextStep
<1>3. QED
  BY <1>1, <1>2, PTL DEF Spec

-----------------------------------------------------------------------------
(* What follows from the inductive invariant.                                *)

(* Every variable of schedule_and_run() and run_batch() keeps its type; in   *)
(* particular no indeg[] entry is decremented below zero.                    *)
THEOREM TypeCorrect == Spec => []TypeOK
<1>1. IInv => TypeOK
  BY Zenon DEF IInv
<1>2. QED
  BY <1>1, Invariance, PTL

(* An instance is put into a level only after all its dependencies.          *)
LEMMA PlacedDeps ==
  ASSUME IInv, pc # "scan", NEW v \in Placed
  PROVE  v \in Inst /\ dep_inst[v] \subseteq completed
<1>1. v \in Inst /\ indeg[v] = 0
  BY Zenon DEF IInv, PlacedInv
<1>2. Uncounted(v) \in SUBSET Inst /\ Cardinality(Uncounted(v)) = 0
  BY Zenon, <1>1 DEF IInv, TypeOK, Uncounted, IndegExact
<1>3. Uncounted(v) = {}
  BY Zenon, <1>2, InstFinite, FS_EmptySet
<1>4. QED
  BY Zenon, <1>1, <1>3 DEF Uncounted, Counted

(* The instance run_batch() or the summary loop looks at is a new one.       *)
LEMMA NextMember ==
  ASSUME IInv, pc \in {"batch", "summary"}, next \in 1 .. Len(level)
  PROVE  /\ level[next] \in Inst /\ level[next] \in Placed
         /\ level[next] \notin completed /\ level[next] \notin Members(slot)
<1>1. level \in Seq(Inst) /\ next \in Nat
  BY Zenon DEF IInv, TypeOK
<1>2. level[next] \in Inst /\ level[next] \in Members(level)
  BY <1>1 DEF Members
<1>3. next >= next => level[next] \notin completed \cup Members(slot)
  BY Zenon DEF IInv, BatchInv
<1>4. QED
  BY <1>1, <1>2, <1>3 DEF Placed

(* A slot holds a member of the level that has not been waited for.          *)
LEMMA SlotPlaced ==
  ASSUME IInv
  PROVE  /\ Members(slot) \subseteq Inst /\ Members(slot) \cap completed = {}
         /\ Members(slot) \subseteq Placed
         /\ pc = "scan" => Members(slot) = {} /\ completed = {}
<1>1. Members(slot) \subseteq Inst
  BY Zenon, MembersType DEF IInv, TypeOK
<1>2. Members(<<>>) = {}
  BY DEF Members
<1>3. CASE pc \in {"batch", "summary"}
  BY Zenon, <1>1, <1>3 DEF IInv, BatchInv, Placed
<1>4. CASE pc \notin {"batch", "summary"}
  <2>1. slot = <<>> /\ (pc = "scan" => completed = {})
    BY Zenon, <1>4 DEF IInv, TypeOK, ScanInv, LoopInv, RetireInv, EndInv
  <2>2. QED
    BY Zenon, <1>1, <1>2, <2>1
<1>5. QED
  BY Zenon, <1>3, <1>4

(* No command is forked before everything its instance depends on was found  *)
(* fresh or waited for, for every graph and every -j.                        *)
THEOREM DependenciesFirst == Spec => []DepsFirst
<1>1. ASSUME IInv PROVE DepsFirst
  <2>1. SUFFICES ASSUME NEW v \in Inst, child[v] # "none"
                 PROVE  dep_inst[v] \subseteq completed
    BY Zenon DEF DepsFirst
  <2>2. v \in completed \cup Members(slot)
    BY Zenon, <1>1, <2>1 DEF IInv, ChildInv
  <2>3. pc # "scan" /\ v \in Placed
    BY Zenon, <1>1, <2>2, SlotPlaced DEF Placed
  <2>4. QED
    BY Zenon, <1>1, <2>3, PlacedDeps
<1>2. QED
  BY <1>1, Invariance, PTL

(* run_batch()'s slots are exactly the commands forked and not waited for,   *)
(* at most jobs_n of them.                                                   *)
THEOREM SlotsAreExact == Spec => []SlotsExact
<1>1. ASSUME IInv PROVE SlotsExact
  <2>1. Members(slot) = {v \in Inst : child[v] # "none" /\ v \notin completed}
    BY Zenon, <1>1, SlotPlaced DEF IInv, ChildInv
  <2>2. QED
    BY Zenon, <1>1, <2>1 DEF IInv, ChildInv, LevelsDistinct, Injective, SlotsExact
<1>2. QED
  BY <1>1, Invariance, PTL

(* At the end every instance was dealt with, or the ones left wait for one   *)
(* another.                                                                  *)
LEMMA EndCycleHonest == IInv => CycleHonest
<1>1. SUFFICES ASSUME IInv, pc \in {"done", "cycle"}
               PROVE  CycleHonest
  BY Zenon DEF CycleHonest
<1>2. /\ level = <<>> /\ next_level = <<>> /\ (done_count < ninsts <=> pc = "cycle")
      /\ completed \in SUBSET Inst /\ dep_inst \in [Inst -> SUBSET Inst]
  BY Zenon, <1>1 DEF IInv, EndInv, CycleLeft, TypeOK
<1>3. Members(level) = {} /\ Members(next_level) = {}
  BY <1>2 DEF Members
<1>4. done_count = Cardinality(completed)
  <2>1. completed \ Members(level) = completed
    BY Zenon, <1>3
  <2>2. QED
    BY Zenon, <1>1, <2>1 DEF IInv, DoneCountInv
<1>5. /\ Cardinality(completed) \in Nat /\ Cardinality(completed) <= ninsts
      /\ Cardinality(completed) = ninsts => completed = Inst
  BY Zenon, <1>2, InstFinite, FS_Subset
<1>6. CASE pc = "done"
  BY <1>2, <1>4, <1>5, <1>6, NinstsAssumption DEF CycleHonest, Left
<1>7. CASE pc = "cycle"
  <2>1. completed # Inst
    BY <1>2, <1>4, <1>7, InstFinite, NinstsAssumption
  <2>2. ASSUME NEW v \in Left PROVE dep_inst[v] \cap Left # {}
    <3>1. v \in Inst /\ indeg[v] # 0
      BY Zenon, <1>1, <1>3, <1>7 DEF IInv, PlacedInv, Placed, Left
    <3>2. Uncounted(v) # {}
      BY Zenon, <1>1, <3>1, FS_EmptySet DEF IInv, IndegExact
    <3>3. PICK u \in dep_inst[v] : ~Counted(u, v)
      BY Zenon, <3>2 DEF Uncounted
    <3>4. u \in Inst /\ u \notin completed
      BY Zenon, <1>2, <1>3, <3>1, <3>3 DEF Counted
    <3>5. QED
      BY Zenon, <3>3, <3>4 DEF Left
  <2>3. QED
    BY Zenon, <1>2, <1>7, <2>1, <2>2 DEF CycleHonest, Left
<1>8. QED
  BY Zenon, <1>1, <1>6, <1>7

(* schedule_and_run() reports a cycle exactly when the instances left over   *)
(* wait for one another; otherwise it left none out.                         *)
THEOREM CycleReportHonest == Spec => []CycleHonest
BY Invariance, EndCycleHonest, PTL

(* main() returns 1 exactly when some command of the run failed.             *)
THEOREM ExitStatusHonest == Spec => []StatusHonest
<1>1. ASSUME IInv PROVE StatusHonest
  <2>1. SUFFICES ASSUME pc = "done"
                 PROVE  failed_any <=> \E v \in Inst : child[v] = "failed"
    BY Zenon DEF StatusHonest
  <2>2. completed = Inst
    BY Zenon, <1>1, <2>1, EndCycleHonest DEF CycleHonest, Left, IInv, TypeOK
  <2>3. QED
    BY Zenon, <1>1, <2>2 DEF IInv, ChildInv
<1>2. QED
  BY <1>1, Invariance, PTL

(* -S never enters run_batch(), and only -S reports.                         *)
ModeInv == (pc = "batch" => ~summary_mode) /\ (pc = "summary" => summary_mode)

(* Every step keeps it.                                                      *)
LEMMA ModeStep ==
  ASSUME ModeInv, [Next]_schedVars PROVE ModeInv'
BY DEF ModeInv, Next, Parent, Commands, Scan, StartLevel, Finish, SkipFresh, Spawn, Reap,
       Summarise, EndLevel, Retire, RetireNext, ChildExit, Exited, schedVars

(* Only the summary loop writes will_build, and only for instances it has    *)
(* not reported yet.                                                         *)
LEMMA SummaryStep ==
  ASSUME IInv, ModeInv, SummaryClosed, [Next]_schedVars PROVE SummaryClosed'
<1>1. SUFFICES ASSUME summary_mode', NEW v \in completed',
                      NEW d \in dep_inst'[v], will_build'[d]
               PROVE  will_build'[v]
  BY Zenon DEF SummaryClosed
<1>2. summary_mode' = summary_mode /\ dep_inst' = dep_inst
  BY Zenon DEF Next, Parent, Commands, Scan, StartLevel, Finish, SkipFresh, Spawn, Reap,
         Summarise, EndLevel, Retire, RetireNext, ChildExit, Exited, schedVars
<1>3. CASE \E stale \in BOOLEAN : Summarise(stale)
  <2>1. PICK stale \in BOOLEAN : Summarise(stale)
    BY Zenon, <1>3
  <2> DEFINE w == level[next]
  <2>2. /\ will_build' = [will_build EXCEPT ![w] = WillBuild(w, stale)]
        /\ completed' = completed \cup {w} /\ next \in 1 .. Len(level) /\ pc = "summary"
    BY SMTT(30), <2>1 DEF Summarise, IInv, TypeOK
  <2>3. w \in Placed /\ w \notin completed
    BY Zenon, <2>2, NextMember
  <2>4. w \in Inst /\ dep_inst[w] \subseteq completed
    BY Zenon, <2>2, <2>3, PlacedDeps
  <2>5. v \in Inst /\ dep_inst[v] \subseteq completed /\ completed \subseteq Inst
    <3>1. v \in Placed
      BY Zenon, <2>2, <2>3 DEF Placed
    <3>2. QED
      BY Zenon, <2>2, <3>1, PlacedDeps DEF IInv, TypeOK
  <2> HIDE DEF w
  <2>6. \A x \in Inst : will_build'[x] = IF x = w THEN WillBuild(w, stale) ELSE will_build[x]
    BY Zenon, <2>2 DEF IInv, TypeOK
  <2>7. will_build[d]
    BY Zenon, <1>1, <1>2, <2>3, <2>5, <2>6
  <2>8. CASE v = w
    BY Zenon, <1>1, <1>2, <2>4, <2>6, <2>7, <2>8 DEF WillBuild
  <2>9. CASE v # w
    BY Zenon, <1>1, <1>2, <2>2, <2>5, <2>6, <2>7, <2>9 DEF SummaryClosed
  <2>10. QED
    BY Zenon, <2>8, <2>9
<1>4. CASE ~\E stale \in BOOLEAN : Summarise(stale)
  <2>1. will_build' = will_build
    BY Zenon, <1>4 DEF Next, Parent, Commands, Scan, StartLevel, Finish, SkipFresh, Spawn, Reap,
         EndLevel, Retire, RetireNext, ChildExit, Exited, schedVars
  <2>2. completed' = completed
    BY Zenon, <1>1, <1>2, <1>4 DEF ModeInv, Next, Parent, Commands, Scan, StartLevel, Finish,
         SkipFresh, CanStart, Spawn, Reap, EndLevel, Retire, RetireNext, ChildExit, Exited,
         schedVars
  <2>3. QED
    BY Zenon, <1>1, <1>2, <2>1, <2>2 DEF SummaryClosed
<1>5. QED
  BY Zenon, <1>3, <1>4

(* In summary mode an instance after one reported BUILD is reported BUILD.   *)
THEOREM SummaryIsClosed == Spec => []SummaryClosed
<1>1. Init => ModeInv /\ SummaryClosed
  BY Zenon DEF Init, ModeInv, SummaryClosed
<1>2. IInv /\ ModeInv /\ SummaryClosed /\ [Next]_schedVars => (ModeInv /\ SummaryClosed)'
  BY Zenon, ModeStep, SummaryStep
<1>3. QED
  BY <1>1, <1>2, Invariance, PTL DEF Spec

(* run_batch() never starts a command twice nor touches one it has waited    *)
(* for.                                                                      *)
THEOREM CommandsRunOnce == Spec => RunOnce
<1>1. ASSUME IInv, [Next]_schedVars
      PROVE  [\A v \in Inst :
                /\ child[v] # "none" /\ child'[v] # child[v] => child[v] = "alive"
                /\ v \in completed => v \in completed' /\ child'[v] = child[v]]_schedVars
  <2>1. SUFFICES ASSUME Next, NEW v \in Inst
                 PROVE  /\ child[v] # "none" /\ child'[v] # child[v] => child[v] = "alive"
                        /\ v \in completed => v \in completed' /\ child'[v] = child[v]
    BY Zenon, <1>1
  <2>2. CASE Spawn
    <3>1. /\ level[next] \notin completed \cup Members(slot) /\ level[next] \in Inst
          /\ child' = [child EXCEPT ![level[next]] = "alive"] /\ completed' = completed
      <4>1. pc = "batch" /\ next \in 1 .. Len(level)
        BY SMTT(30), <1>1, <2>2 DEF Spawn, CanStart, IInv, TypeOK
      <4>2. QED
        BY Zenon, <1>1, <2>2, <4>1, NextMember DEF Spawn
    <3>2. child[level[next]] = "none"
      BY Zenon, <1>1, <3>1 DEF IInv, ChildInv
    <3>3. child'[v] = IF v = level[next] THEN "alive" ELSE child[v]
      BY Zenon, <1>1, <3>1 DEF IInv, TypeOK
    <3>4. QED
      BY Zenon, <3>1, <3>2, <3>3
  <2>3. CASE Commands
    <3>1. PICK w \in Inst, status \in {"ok", "failed"} : ChildExit(w, status)
      BY Zenon, <2>3 DEF Commands
    <3>2. /\ child[w] = "alive" /\ w \notin completed /\ completed' = completed
          /\ child'[v] = IF v = w THEN status ELSE child[v]
      BY Zenon, <1>1, <3>1 DEF ChildExit, IInv, TypeOK, ChildInv
    <3>3. QED
      BY Zenon, <3>2
  <2>4. CASE ~Spawn /\ ~Commands
    <3>1. child' = child /\ completed \subseteq completed'
      BY Zenon, <2>1, <2>4 DEF Next, Parent, Scan, StartLevel, Finish, SkipFresh, Reap, Summarise,
                        EndLevel, Retire, RetireNext, Exited, schedVars
    <3>2. QED
      BY Zenon, <3>1
  <2>5. QED
    BY Zenon, <2>2, <2>3, <2>4
<1>2. QED
  BY <1>1, Invariance, PTL DEF Spec, RunOnce

-----------------------------------------------------------------------------
(* The refinement of NinquDag.                                               *)

(* The abstract status of an instance.                                       *)
LEMMA DagSets ==
  ASSUME IInv
  PROVE  /\ Dag!In("finished") = completed
         /\ Dag!In("running") = Members(slot)
         /\ Dag!In("waiting") = Inst \ (completed \cup Members(slot))
BY Zenon, SlotPlaced DEF Dag!In, Dag!Inst, Inst, IInv, TypeOK

(* A step that starts no instance, ends none and does not stop is invisible. *)
LEMMA DagStutter ==
  ASSUME UNCHANGED <<dep_inst, completed>>, Members(slot)' = Members(slot),
         pc \notin {"done", "cycle"}, pc' \notin {"done", "cycle"}
  PROVE  UNCHANGED Dag!vars
BY Zenon DEF Dag!vars

(* Passing over an instance that is fresh, or reporting it, is a Pass.       *)
LEMMA DagPass ==
  ASSUME IInv, SkipFresh \/ \E stale \in BOOLEAN : Summarise(stale)
  PROVE  \E v \in Inst : Dag!Pass(v)
<1>0. PICK w \in Inst : w = level[next]
  BY DEF SkipFresh, CanStart, Summarise, IInv, TypeOK
<1>1. /\ pc \in {"batch", "summary"} /\ pc' = pc /\ next \in 1 .. Len(level)
      /\ completed' = completed \cup {w} /\ slot' = slot /\ dep_inst' = dep_inst
  BY <1>0 DEF SkipFresh, CanStart, Summarise, IInv, TypeOK
<1>2. w \in Placed /\ w \notin completed \cup Members(slot)
  BY Zenon, <1>0, <1>1, NextMember
<1>3. w \in Inst /\ dep_inst[w] \subseteq completed
  BY Zenon, <1>1, <1>2, PlacedDeps
<1>4. Members(slot)' = Members(slot)
  BY Zenon, <1>1 DEF Members
<1>5. Dag!Ready(w)
  BY Zenon, <1>1, <1>2, <1>3, DagSets DEF Dag!Ready
<1>6. Dag!Pass(w)
  BY Zenon, <1>1, <1>2, <1>3, <1>4, <1>5 DEF Dag!Pass
<1>7. QED
  BY Zenon, <1>3, <1>6

(* Forking a command is a Start.                                             *)
LEMMA DagStart ==
  ASSUME IInv, Spawn
  PROVE  \E v \in Inst : Dag!Start(v)
<1>0. PICK w \in Inst : w = level[next]
  BY DEF Spawn, CanStart, IInv, TypeOK
<1>1. /\ pc = "batch" /\ pc' = pc /\ next \in 1 .. Len(level) /\ Len(slot) < jobs_n
      /\ completed' = completed /\ slot' = Append(slot, w) /\ dep_inst' = dep_inst
      /\ slot \in Seq(Inst) /\ Injective(slot)
  BY <1>0 DEF Spawn, CanStart, IInv, TypeOK, LevelsDistinct
<1>2. w \in Placed /\ w \notin completed \cup Members(slot)
  BY Zenon, <1>0, <1>1, NextMember
<1>3. w \in Inst /\ dep_inst[w] \subseteq completed
  BY Zenon, <1>1, <1>2, PlacedDeps
<1>4. Members(slot)' = Members(slot) \cup {w}
  BY <1>1, <1>3, MembersAppend
<1>5. Dag!Ready(w)
  BY Zenon, <1>1, <1>2, <1>3, DagSets DEF Dag!Ready
<1>6. Cardinality(Dag!In("running")) < jobs_n
  BY Zenon, <1>1, DagSets, InjectiveCardinality
<1>7. Dag!Start(w)
  <2> DEFINE st(run) == [v \in Inst |-> IF v \in completed THEN "finished"
                                       ELSE IF v \in run THEN "running" ELSE "waiting"]
  <2>1. st(Members(slot) \cup {w}) = [st(Members(slot)) EXCEPT ![w] = "running"]
    BY Zenon, <1>2
  <2>2. QED
    BY Zenon, <1>1, <1>4, <1>5, <1>6, <2>1 DEF Dag!Start, Dag!Cardinality, Cardinality
<1>8. QED
  BY Zenon, <1>3, <1>7

(* Waiting for a command is an End.                                          *)
LEMMA DagEnd ==
  ASSUME IInv, NEW k \in Inst, Reap(k)
  PROVE  \E v \in Inst : Dag!End(v)
<1>0. PICK w \in Inst : w = slot[k]
  <2>1. slot \in Seq(Inst) /\ k \in 1 .. Len(slot)
    BY Zenon DEF Reap, IInv, TypeOK
  <2>2. slot[k] \in Inst
    BY <2>1
  <2>3. QED
    BY Zenon, <2>2
<1>1. /\ pc = "batch" /\ pc' = pc /\ k \in 1 .. Len(slot) /\ slot \in Seq(Inst)
      /\ completed' = completed \cup {w} /\ slot' = DropSlot(k) /\ dep_inst' = dep_inst
      /\ Injective(slot)
  BY Zenon, <1>0 DEF Reap, IInv, TypeOK, LevelsDistinct
<1>2. w \in Members(slot) /\ w \notin completed
  BY Zenon, <1>0, <1>1, SlotPlaced DEF Members
<1>3. Members(slot)' = Members(slot) \ {w}
  <2>1. Members(DropSlot(k)) = Members(slot) \ {w}
    BY Zenon, <1>0, <1>1, DropSlotMembers
  <2>2. QED
    BY Zenon, <1>1, <2>1 DEF Members
<1>4. Dag!End(w)
  BY Zenon, <1>1, <1>2, <1>3 DEF Dag!End
<1>5. QED
  BY Zenon, <1>2, <1>4

(* Leaving the loop over the levels is a Stop.                               *)
LEMMA DagStop ==
  ASSUME IInv, Finish
  PROVE  Dag!Stop
<1>1. IInv'
  BY Zenon, FinishStep
<1>2. /\ pc = "loop" /\ pc' \in {"done", "cycle"} /\ slot = <<>> /\ slot' = slot
      /\ completed' = completed /\ dep_inst' = dep_inst
  BY Zenon DEF Finish, IInv, LoopInv
<1>3. Members(slot) = {} /\ Members(slot)' = {}
  BY <1>2 DEF Members
<1>4. CycleHonest'
  BY <1>1, EndCycleHonest, PTL
<1>5. Dag!In("waiting") = Left /\ Dag!In("running") = {}
  BY Zenon, <1>3, DagSets DEF Left
<1>6. QED
  BY Zenon, <1>2, <1>3, <1>4, <1>5 DEF Dag!Stop, CycleHonest, Left

(* The executor refines NinquDag: without levels, slots and counters, every  *)
(* run of schedule_and_run() is one that starts each instance once, after    *)
(* all its dependencies, and stops only when complete or stuck on a cycle.   *)
THEOREM RefinesDag == Spec => Dag!SafeSpec
<1>1. Init => Dag!Init
  BY DEF Init, Dag!Init, Inst, Dag!Inst, Members
<1>2. ASSUME IInv, [Next]_schedVars PROVE [Dag!Next]_(Dag!vars)
  <2>1. CASE SkipFresh \/ \E stale \in BOOLEAN : Summarise(stale)
    BY Zenon, <1>2, <2>1, DagPass DEF Dag!Next, Dag!Inst, Inst
  <2>2. CASE Spawn
    BY Zenon, <1>2, <2>2, DagStart DEF Dag!Next, Dag!Inst, Inst
  <2>3. CASE \E k \in Inst : Reap(k)
    BY Zenon, <1>2, <2>3, DagEnd DEF Dag!Next, Dag!Inst, Inst
  <2>4. CASE Finish
    BY Zenon, <1>2, <2>4, DagStop DEF Dag!Next
  <2>5. CASE Scan \/ StartLevel \/ EndLevel \/ Retire \/ RetireNext
    <3>1. /\ UNCHANGED <<dep_inst, completed, slot>>
          /\ pc \notin {"done", "cycle"} /\ pc' \notin {"done", "cycle"}
      BY Zenon, <2>5 DEF Scan, StartLevel, EndLevel, Retire, RetireNext
    <3>2. Members(slot)' = Members(slot)
      BY Zenon, <3>1 DEF Members
    <3>3. QED
      BY Zenon, <3>1, <3>2, DagStutter
  <2>6. CASE Commands \/ Exited \/ UNCHANGED schedVars
    <3>1. UNCHANGED <<dep_inst, completed, slot, pc>>
      BY Zenon, <2>6 DEF Commands, ChildExit, Exited, schedVars
    <3>2. Members(slot)' = Members(slot)
      BY Zenon, <3>1 DEF Members
    <3>3. QED
      BY Zenon, <3>1, <3>2 DEF Dag!vars
  <2>7. QED
    BY Zenon, <1>2, <2>1, <2>2, <2>3, <2>4, <2>5, <2>6 DEF Next, Parent
<1>3. QED
  BY <1>1, <1>2, Invariance, PTL DEF Spec, Dag!SafeSpec
=============================================================================
