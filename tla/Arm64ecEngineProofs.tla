------------------------- MODULE Arm64ecEngineProofs -------------------------
(***************************************************************************)
(* Proofs about Arm64ecEngine: in the strict profiles a published context  *)
(* describes the memory exactly, and every stop names the instruction that *)
(* caused it, for every program, budget, limit and word width.             *)
(***************************************************************************)
EXTENDS Arm64ecEngine, TLAPS

(* The inductive invariant.                                                 *)

\* Inside run, the registers count the stores memory has seen; so does the
\* snapshot, until a store has ended the segment.
RegistersDescribeMemory ==
    Strict => /\ phase \in {"SEGMENT", "PRECISE", "STEP"} => word = jit.count
              /\ phase = "SEGMENT" /\ ~dirty => word = before.count

\* What an open or ended segment has on record; a trap has retired itself.
SegmentShape ==
    phase = "SEGMENT" =>
        /\ dirty => pending = "NONE" /\ ticks > 0
        /\ pending \in {"SVC", "SYSCALL"} => ticks > 0 /\ jit.pc > 1
        /\ pending = "SVC"      => At(jit.pc - 1) = "helper"
        /\ pending = "SYSCALL"  => At(jit.pc - 1) \in {"syscall", "helper"}
        /\ pending = "FETCH"    => At(jit.pc) = "x64"
        /\ pending = "REDIRECT" => At(jit.pc) = "redirect"

\* A brokered or redirected instruction is only fetched with budget left.
StepHasBudget == phase = "STEP" => retired < budget

\* The budget is gone when the run has returned.
NoBudgetOutside == phase \in {"HOST", "CLOSED"} => budget = 0

\* No run begins after the host return.
ReturnCloses == stop.reason = "HOST_RETURN" => phase = "CLOSED"

IInv ==
    /\ TypeOK /\ RegistersDescribeMemory /\ SegmentShape /\ StepHasBudget /\ NoBudgetOutside
    /\ ReturnCloses /\ StrictStopsAreExact /\ StopsAtCause

-----------------------------------------------------------------------------
(* Registers.                                                               *)

\* Every address before the sentinel holds an instruction.
LEMMA Fetched ==
    ASSUME NEW pc \in Pc, At(pc) # "return"
    PROVE  pc \in 1 .. Len(Program) /\ At(pc) \in Instruction
<1>1. Program \in Seq(Instruction) BY EngineAssumption
<1>2. pc # HostReturn BY DEF At
<1> QED BY <1>1, <1>2 DEF At, Pc, HostReturn

\* Moving on from an instruction stays in the program.
LEMMA AdvancedTyped ==
    ASSUME NEW r \in Registers, At(r.pc) # "return"
    PROVE  /\ Advanced(r) \in Registers
           /\ Advanced(r).pc = r.pc + 1 /\ Advanced(r).count = r.count
           /\ Advanced(r).teb = r.teb
<1>1. r.pc \in 1 .. Len(Program) BY Fetched DEF Registers
<1>2. Program \in Seq(Instruction) BY EngineAssumption
<1>3. r.pc + 1 \in Pc BY <1>1, <1>2 DEF Pc
<1> QED BY <1>3 DEF Advanced, Registers

\* A store moves on and counts itself, as memory does.
LEMMA StoredTyped ==
    ASSUME NEW r \in Registers, At(r.pc) # "return"
    PROVE  /\ Stored(r) \in Registers
           /\ Stored(r).count = (r.count + 1) % Wrap
           /\ Stored(r).teb = r.teb
<1> DEFINE a == Advanced(r)
<1>1. a \in Registers /\ a.count = r.count /\ a.teb = r.teb BY AdvancedTyped
<1>2. Stored(r) = [a EXCEPT !.count = (a.count + 1) % Wrap] BY DEF Stored
<1> HIDE DEF a
<1>3. (a.count + 1) % Wrap \in 0 .. Wrap - 1 BY <1>1, EngineAssumption DEF Registers
<1> QED BY <1>1, <1>2, <1>3 DEF Registers

\* Losing the TEB moves on and counts nothing.
LEMMA ClobberedTyped ==
    ASSUME NEW r \in Registers, At(r.pc) # "return"
    PROVE  /\ [Advanced(r) EXCEPT !.teb = FALSE] \in Registers
           /\ [Advanced(r) EXCEPT !.teb = FALSE].count = r.count
           /\ [Advanced(r) EXCEPT !.teb = FALSE].teb = FALSE
<1> DEFINE a == Advanced(r)
<1>1. a \in Registers /\ a.count = r.count BY AdvancedTyped
<1> HIDE DEF a
<1>2. /\ [a EXCEPT !.teb = FALSE] \in Registers
      /\ [a EXCEPT !.teb = FALSE].count = r.count
      /\ [a EXCEPT !.teb = FALSE].teb = FALSE
  BY <1>1 DEF Registers
<1> QED BY <1>2 DEF a

\* The registers of a resumption.
LEMMA ResumedTyped ==
    ASSUME NEW r \in Registers, NEW l \in Links
    PROVE  [r EXCEPT !.pc = l] \in Registers /\ [r EXCEPT !.pc = l].count = r.count
BY EngineAssumption DEF Registers, Pc

\* Memory keeps its width.
LEMMA WordTyped ==
    ASSUME NEW w \in 0 .. Wrap - 1
    PROVE  (w + 1) % Wrap \in 0 .. Wrap - 1
BY EngineAssumption

-----------------------------------------------------------------------------
(* The ways an action of the engine ends.                                   *)

\* Whatever the registers, the reason and the count: the run returns.
LEMMA PublishKeeps ==
    ASSUME IInv, NEW c \in Registers, NEW reason \in Reason, NEW count \in 0 .. budget,
           PublishStored(reason, count, c), word' \in 0 .. Wrap - 1,
           Strict /\ reason # "INVARIANT" => word' = c.count,
           reason = "SYSCALL" => At(c.pc) \in {"syscall", "helper"},
           reason = "TRANSITION" => At(c.pc) \in {"helper", "x64"},
           reason = "FAULT" => At(c.pc) = "load"
    PROVE  IInv'
<1> USE DEF IInv
<1>1. /\ stop' \in [reason : Reason, retired : 0 .. MaxBudget]
      /\ stop'.reason \in {reason, "INVARIANT"}
      /\ phase' = IF stop'.reason \in {"HOST_RETURN", "INVARIANT"} THEN "CLOSED" ELSE "HOST"
  <2>1. count \in 0 .. MaxBudget /\ 0 \in 0 .. MaxBudget BY EngineAssumption DEF TypeOK
  <2>2. /\ stop' = IF c.teb THEN [reason |-> reason, retired |-> count]
                           ELSE [reason |-> "INVARIANT", retired |-> 0]
        /\ phase' = IF stop'.reason \in {"HOST_RETURN", "INVARIANT"} THEN "CLOSED" ELSE "HOST"
    BY DEF PublishStored
  <2> QED BY <2>1, <2>2 DEF Reason
<1>2. context' = c /\ jit' = c /\ before' = c BY DEF PublishStored, Fresh
<1>3. /\ ticks' = 0 /\ pending' = "NONE" /\ dirty' = FALSE /\ async' = FALSE
      /\ budget' = 0 /\ retired' = 0 /\ resumes' = 0 /\ transitions' = 0
      /\ requests' = requests /\ mapped' = mapped
      /\ profile' = profile /\ limit' = limit /\ attached' = attached /\ link' = link
  BY DEF PublishStored, Fresh, ClearHalts, config
<1>4. TypeOK'
  <2>1. /\ budget' \in 0 .. MaxBudget /\ retired' \in 0 .. budget' /\ ticks' \in 0 .. budget' - retired'
        /\ resumes' \in 0 .. MaxResumes /\ transitions' \in 0 .. limit'
    BY <1>3, EngineAssumption DEF TypeOK
  <2>2. phase' \in {"HOST", "SEGMENT", "PRECISE", "STEP", "CLOSED"} /\ pending' \in Pending
    BY <1>1, <1>3 DEF Pending
  <2> QED BY Zenon, <1>1, <1>2, <1>3, <2>1, <2>2 DEF TypeOK
<1>5. phase' \in {"HOST", "CLOSED"} BY <1>1
<1>6. RegistersDescribeMemory' /\ SegmentShape' /\ StepHasBudget'
  BY <1>5 DEF RegistersDescribeMemory, SegmentShape, StepHasBudget
<1>7. ReturnCloses' /\ NoBudgetOutside' BY <1>1, <1>3 DEF ReturnCloses, NoBudgetOutside
<1>8. StrictStopsAreExact'
  BY <1>1, <1>2, <1>3 DEF StrictStopsAreExact, StopsAreExact, Strict
<1>9. StopsAtCause' BY <1>1, <1>2 DEF StopsAtCause, At, HostReturn
<1> QED BY <1>4, <1>6, <1>7, <1>8, <1>9

\* The run goes on with fresh registers r that describe the memory.
LEMMA ContinueKeeps ==
    ASSUME IInv, NEW r \in Registers, Fresh(r), phase # "CLOSED",
           UNCHANGED <<config, stop>>, budget' \in 0 .. MaxBudget, mapped' \in BOOLEAN,
           phase' \in {"SEGMENT", "PRECISE", "STEP"},
           word' \in 0 .. Wrap - 1, Strict => word' = r.count,
           context' \in Registers, retired' \in 0 .. budget',
           phase' = "STEP" => retired' < budget',
           resumes' \in 0 .. MaxResumes, transitions' \in 0 .. limit,
           async' \in BOOLEAN, requests' \in 0 .. MaxRequests
    PROVE  IInv'
<1> USE DEF IInv
<1>1. jit' = r /\ before' = r /\ ticks' = 0 /\ pending' = "NONE" /\ dirty' = FALSE BY DEF Fresh
<1>2. /\ profile' = profile /\ limit' = limit /\ attached' = attached /\ link' = link
      /\ stop' = stop
  BY DEF config
<1>3. stop'.reason # "HOST_RETURN" BY <1>2 DEF ReturnCloses
<1>4. TypeOK'
  <2>1. ticks' \in 0 .. budget' - retired'
    <3> DEFINE b == budget'
               n == retired'
    <3>1. b \in 0 .. MaxBudget /\ n \in 0 .. b /\ MaxBudget \in Nat BY EngineAssumption
    <3> HIDE DEF b, n
    <3>2. 0 \in 0 .. b - n BY <3>1
    <3> QED BY <1>1, <3>2 DEF b, n
  <2>2. phase' \in {"HOST", "SEGMENT", "PRECISE", "STEP", "CLOSED"} /\ pending' \in Pending
    BY <1>1 DEF Pending
  <2> QED BY Zenon, <1>1, <1>2, <2>1, <2>2 DEF TypeOK
<1>5. RegistersDescribeMemory' BY <1>1, <1>2 DEF RegistersDescribeMemory, Strict
<1>6. SegmentShape' BY <1>1 DEF SegmentShape
<1>7. StepHasBudget' /\ NoBudgetOutside' BY DEF StepHasBudget, NoBudgetOutside
<1>8. ReturnCloses' BY <1>3 DEF ReturnCloses
<1>9. StrictStopsAreExact' BY <1>3 DEF StrictStopsAreExact, StopsAreExact
<1>10. StopsAtCause' BY DEF StopsAtCause
<1> QED BY <1>4, <1>5, <1>6, <1>7, <1>8, <1>9, <1>10

\* The loop goes on with the registers r: context, count and limits.
LEMMA NextSegmentKeeps ==
    ASSUME IInv, NEW r \in Registers, NEW count \in 0 .. budget, NextSegment(r, count),
           phase # "CLOSED", Strict => word = r.count,
           resumes' \in 0 .. MaxResumes, transitions' \in 0 .. limit
    PROVE  IInv'
<1>1. Fresh(r) /\ context' = r /\ phase' = "SEGMENT" /\ retired' = count /\ budget' = budget
      /\ word' = word /\ mapped' = mapped /\ UNCHANGED <<config, stop>>
      /\ async' = FALSE /\ requests' = requests
  BY DEF NextSegment, ClearHalts
<1>2. TypeOK BY DEF IInv
<1>3. /\ budget' \in 0 .. MaxBudget /\ retired' \in 0 .. budget' /\ word' \in 0 .. Wrap - 1
      /\ requests' \in 0 .. MaxRequests
  BY <1>1, <1>2 DEF TypeOK
<1>4. mapped' \in BOOLEAN /\ async' \in BOOLEAN BY <1>1, <1>2 DEF TypeOK
<1> QED BY <1>1, <1>3, <1>4, ContinueKeeps

-----------------------------------------------------------------------------
(* The actions.                                                             *)

\* What every action of the engine starts from.
LEMMA Facts ==
    ASSUME IInv
    PROVE  /\ context \in Registers /\ jit \in Registers /\ before \in Registers
           /\ word \in 0 .. Wrap - 1 /\ budget \in 0 .. MaxBudget /\ MaxBudget \in Nat
           /\ retired \in 0 .. budget /\ ticks \in 0 .. budget - retired
           /\ resumes \in 0 .. MaxResumes /\ transitions \in 0 .. limit
           /\ requests \in 0 .. MaxRequests /\ MaxRequests \in Nat /\ MaxResumes \in Nat
           /\ limit \in Nat /\ link \in Links
           /\ mapped \in BOOLEAN /\ async \in BOOLEAN /\ dirty \in BOOLEAN
BY EngineAssumption DEF IInv, TypeOK

\* Putting the context back to the snapshot is always allowed with INVARIANT.
LEMMA RollbackKeeps ==
    ASSUME IInv, Rollback("INVARIANT")
    PROVE  IInv'
<1>1. PublishStored("INVARIANT", retired, before) /\ word' = word
  BY DEF Rollback, Publish
<1>2. before \in Registers /\ retired \in 0 .. budget /\ word' \in 0 .. Wrap - 1
  BY <1>1, Facts
<1>3. "INVARIANT" \in Reason BY DEF Reason
<1> QED BY <1>1, <1>2, <1>3, PublishKeeps

\* An instruction keeps the invariant.
LEMMA ExecuteKeeps ==
    ASSUME IInv, Execute
    PROVE  IInv'
<1>1. phase = "SEGMENT" /\ pending = "NONE" /\ ~dirty /\ ticks < budget - retired
  BY DEF Execute, Open
<1>2. /\ UNCHANGED <<context, before, phase, budget, retired, resumes, transitions, async,
                     requests, stop, mapped>>
      /\ profile' = profile /\ limit' = limit /\ attached' = attached /\ link' = link
  BY DEF Execute, config
<1>3. jit \in Registers BY Facts
<1> DEFINE i == At(jit.pc)
<1>4. ReturnCloses' /\ StrictStopsAreExact' /\ StopsAtCause' /\ StepHasBudget' /\ NoBudgetOutside'
  <2>1. stop.reason # "HOST_RETURN" BY <1>1 DEF IInv, ReturnCloses
  <2> QED BY <1>1, <1>2, <2>1
       DEF ReturnCloses, StrictStopsAreExact, StopsAreExact, StopsAtCause, StepHasBudget,
           NoBudgetOutside
<1>5. ASSUME jit' \in Registers, word' \in 0 .. Wrap - 1, ticks' \in {ticks, ticks + 1},
             dirty' \in BOOLEAN, pending' \in Pending, SegmentShape', RegistersDescribeMemory'
      PROVE  IInv'
  <2>1. ticks' \in 0 .. budget' - retired'
    <3>1. ticks \in 0 .. budget - retired /\ budget \in 0 .. MaxBudget /\ retired \in 0 .. budget
          /\ MaxBudget \in Nat
      BY Facts
    <3> QED BY <1>1, <1>2, <1>5, <3>1
  <2>2. TypeOK' BY Zenon, <1>2, <1>5, <2>1 DEF IInv, TypeOK
  <2> QED BY Zenon, <1>4, <1>5, <2>2 DEF IInv
<1>6. Strict => word = jit.count /\ word = before.count
  BY <1>1 DEF IInv, RegistersDescribeMemory
<1>7. word \in 0 .. Wrap - 1 BY Facts
<1>8. Strict' <=> Strict BY <1>2 DEF Strict
<1>9. ASSUME i = "store", Retire(Stored(jit)), word' = (word + 1) % Wrap, dirty' = StoreHalts,
             UNCHANGED pending
      PROVE  IInv'
  <2>1. jit' = Stored(jit) /\ ticks' = ticks + 1 BY <1>9 DEF Retire
  <2>2. jit' \in Registers /\ jit'.count = (jit.count + 1) % Wrap
    BY <1>3, <1>9, <2>1, StoredTyped
  <2>3. word' \in 0 .. Wrap - 1 BY <1>7, <1>9, WordTyped
  <2>4. dirty' = Strict /\ dirty' \in BOOLEAN BY <1>9 DEF StoreHalts, Strict
  <2>5. RegistersDescribeMemory'
    BY <1>2, <1>6, <1>8, <1>9, <2>2, <2>4 DEF RegistersDescribeMemory
  <2>6. ticks' > 0 BY <2>1, Facts
  <2>7. SegmentShape' BY <1>1, <1>9, <2>6 DEF SegmentShape
  <2>8. pending' \in Pending BY <1>1, <1>9 DEF Pending
  <2> QED BY <1>5, <2>1, <2>2, <2>3, <2>4, <2>5, <2>7, <2>8
<1>10. ASSUME jit' \in Registers, jit'.count = jit.count, ticks' = ticks + 1,
              UNCHANGED <<word, pending, dirty>>
       PROVE  IInv'
  <2>1. RegistersDescribeMemory' BY <1>2, <1>6, <1>8, <1>10 DEF RegistersDescribeMemory
  <2>2. SegmentShape' BY <1>1, <1>10 DEF SegmentShape
  <2>3. pending' \in Pending BY <1>1, <1>10 DEF Pending
  <2>4. dirty' \in BOOLEAN BY <1>10, Facts
  <2> QED BY <1>5, <1>7, <1>10, <2>1, <2>2, <2>3, <2>4
<1>11. ASSUME NEW p \in {"FAULT", "REDIRECT", "FETCH", "HOST_RETURN"}, Trap(p),
              UNCHANGED <<jit, ticks>>,
              p = "REDIRECT" => i = "redirect", p = "FETCH" => i = "x64"
       PROVE  IInv'
  <2>1. pending' = p /\ word' = word /\ dirty' = dirty BY <1>11 DEF Trap
  <2>2. RegistersDescribeMemory' BY <1>2, <1>6, <1>8, <1>11, <2>1 DEF RegistersDescribeMemory
  <2>3. At(jit.pc)' = At(jit.pc) BY <1>11 DEF At
  <2>4. SegmentShape' BY <1>1, <1>11, <2>1, <2>3 DEF SegmentShape
  <2>5. pending' \in Pending BY <2>1 DEF Pending
  <2>6. dirty' \in BOOLEAN BY <2>1, Facts
  <2> QED BY <1>3, <1>5, <1>7, <1>11, <2>1, <2>2, <2>4, <2>5, <2>6
<1>12. ASSUME NEW p \in {"SVC", "SYSCALL"}, Trap(p), Retire(Advanced(jit)),
              i \in {"syscall", "helper"}, p = "SVC" => i = "helper"
       PROVE  IInv'
  <2>1. pending' = p /\ word' = word /\ dirty' = dirty BY <1>12 DEF Trap
  <2>2. jit' = Advanced(jit) /\ ticks' = ticks + 1 BY <1>12 DEF Retire
  <2>3. jit' \in Registers /\ jit'.pc = jit.pc + 1 /\ jit'.count = jit.count
    BY <1>3, <1>12, <2>2, AdvancedTyped
  <2>4. RegistersDescribeMemory' BY <1>2, <1>6, <1>8, <2>1, <2>3 DEF RegistersDescribeMemory
  <2>5. jit.pc \in Nat \ {0} BY <1>3 DEF Registers, Pc
  <2>6. jit'.pc - 1 = jit.pc /\ jit'.pc > 1 BY <2>3, <2>5
  <2>7. At(jit.pc - 1)' = i BY <2>6 DEF At
  <2>8. ticks' > 0 BY <2>2, Facts
  <2>9. SegmentShape' BY <1>1, <1>12, <2>1, <2>6, <2>7, <2>8 DEF SegmentShape
  <2>10. pending' \in Pending BY <2>1 DEF Pending
  <2>11. dirty' \in BOOLEAN BY <2>1, Facts
  <2> QED BY <1>5, <1>7, <2>1, <2>2, <2>3, <2>4, <2>9, <2>10, <2>11
<1>13. CASE i = "clobber" /\ Retire([Advanced(jit) EXCEPT !.teb = FALSE])
            /\ UNCHANGED <<word, pending, dirty>>
  BY <1>3, <1>10, <1>13, ClobberedTyped DEF Retire
<1>14. CASE /\ i = "plain" \/ (i = "load" /\ mapped) \/ (i \in {"redirect", "x64"} /\ ~attached)
            /\ Retire(Advanced(jit)) /\ UNCHANGED <<word, pending, dirty>>
  <2>1. i # "return" BY <1>14
  <2> QED BY <1>3, <1>10, <1>14, <2>1, AdvancedTyped DEF Retire
<1> QED BY Zenon, <1>9, <1>11, <1>12, <1>13, <1>14 DEF Execute

\* The segment is replayed from its snapshot, which no store has outdated.
LEMMA ReplayFaultKeeps ==
    ASSUME IInv, ReplayFault
    PROVE  IInv'
<1>1. phase = "SEGMENT" /\ ~dirty BY DEF ReplayFault, IInv, SegmentShape
<1>2. Strict => word = before.count BY <1>1 DEF IInv, RegistersDescribeMemory
<1>3. /\ Fresh(before) /\ context' = before /\ phase' = "PRECISE"
      /\ async' = FALSE /\ requests' = requests
      /\ UNCHANGED <<config, mapped, word, budget, retired, resumes, transitions, stop>>
  BY DEF ReplayFault, ClearHalts
<1>4. async' \in BOOLEAN /\ mapped' \in BOOLEAN BY <1>3, Facts
<1> QED BY <1>1, <1>2, <1>3, <1>4, Facts, ContinueKeeps

\* Following a redirected target keeps the invariant.
LEMMA FollowRedirectKeeps ==
    ASSUME IInv, FollowRedirect
    PROVE  IInv'
<1>1. phase = "SEGMENT" /\ pending = "REDIRECT" BY DEF FollowRedirect
<1>2. CASE jit.teb
  <2>1. NextSegment(Advanced(jit), retired + ticks)
        /\ resumes' \in {resumes, 0} /\ transitions' = transitions
    BY <1>2 DEF FollowRedirect
  <2>2. At(jit.pc) # "return" BY <1>1 DEF IInv, SegmentShape
  <2>3. Advanced(jit) \in Registers /\ Advanced(jit).count = jit.count
    BY <2>2, Facts, AdvancedTyped
  <2>4. Strict => word = Advanced(jit).count
    BY <1>1, <2>3 DEF IInv, RegistersDescribeMemory
  <2>5. retired + ticks \in 0 .. budget BY Facts
  <2>6. resumes' \in 0 .. MaxResumes /\ transitions' \in 0 .. limit BY <2>1, Facts
  <2> QED BY <1>1, <2>1, <2>3, <2>4, <2>5, <2>6, NextSegmentKeeps
<1>3. CASE ~jit.teb BY <1>3, RollbackKeeps DEF FollowRedirect
<1> QED BY <1>2, <1>3

\* The registers at the boundary: those of the instruction that caused it.
LEMMA BoundaryRegisters ==
    ASSUME IInv, phase = "SEGMENT", pending \in {"SVC", "FETCH", "SYSCALL", "HOST_RETURN"}
    PROVE  /\ BoundaryPc \in Registers /\ BoundaryPc.count = jit.count
           /\ BoundaryRetired \in 0 .. budget
           /\ pending = "SVC" => At(BoundaryPc.pc) = "helper"
           /\ pending = "FETCH" => At(BoundaryPc.pc) = "x64"
           /\ pending = "SYSCALL" => At(BoundaryPc.pc) \in {"syscall", "helper"}
<1>1. CASE pending \in {"FETCH", "HOST_RETURN"}
  <2>1. BoundaryPc = jit BY <1>1 DEF BoundaryPc
  <2>2. BoundaryRetired = retired + ticks BY <1>1 DEF BoundaryRetired
  <2>3. retired + ticks \in 0 .. budget BY Facts
  <2> QED BY <1>1, <2>1, <2>2, <2>3, Facts DEF IInv, SegmentShape
<1>2. CASE pending \in {"SVC", "SYSCALL"}
  <2>1. BoundaryPc = Back(jit) BY <1>2 DEF BoundaryPc
  <2>2. ticks > 0 /\ jit.pc > 1 BY <1>2 DEF IInv, SegmentShape
  <2>3. BoundaryRetired = retired + ticks \/ BoundaryRetired = retired + (ticks - 1)
    BY <1>2 DEF BoundaryRetired
  <2>4. BoundaryRetired \in 0 .. budget BY <2>2, <2>3, Facts
  <2>5. jit.pc - 1 \in Pc
    <3>1. jit.pc \in Pc BY Facts DEF Registers
    <3>2. Len(Program) \in Nat BY EngineAssumption
    <3> QED BY <2>2, <3>1, <3>2 DEF Pc
  <2>6. Back(jit) \in Registers /\ Back(jit).pc = jit.pc - 1 /\ Back(jit).count = jit.count
    BY <2>5, Facts DEF Back, Registers
  <2> QED BY <1>2, <2>1, <2>4, <2>6 DEF IInv, SegmentShape
<1> QED BY <1>1, <1>2

\* Counting a transition stays within the limit.
LEMMA CountedTyped ==
    ASSUME IInv, ~(limit # 0 /\ transitions >= limit)
    PROVE  Counted \in 0 .. limit
BY Facts DEF Counted

\* The broker at a boundary keeps the invariant.
LEMMA BoundaryKeeps ==
    ASSUME IInv, Boundary
    PROVE  IInv'
<1>1. phase = "SEGMENT" /\ pending \in {"SVC", "FETCH", "SYSCALL", "HOST_RETURN"}
  BY DEF Boundary
<1> DEFINE r == BoundaryPc
<1>2. /\ r \in Registers /\ r.count = jit.count /\ BoundaryRetired \in 0 .. budget
      /\ pending = "SVC" => At(r.pc) = "helper"
      /\ pending = "FETCH" => At(r.pc) = "x64"
      /\ pending = "SYSCALL" => At(r.pc) \in {"syscall", "helper"}
  BY <1>1, BoundaryRegisters
<1>3. Strict => word = r.count BY <1>1, <1>2 DEF IInv, RegistersDescribeMemory
<1> HIDE DEF r
<1>4. ASSUME NEW reason \in Reason, Publish(reason, BoundaryRetired, r),
             reason = "SYSCALL" => pending = "SYSCALL",
             reason = "TRANSITION" => pending \in {"SVC", "FETCH"}, reason # "FAULT"
      PROVE  IInv'
  <2>1. PublishStored(reason, BoundaryRetired, r) /\ word' = word BY <1>4 DEF Publish
  <2>2. word' \in 0 .. Wrap - 1 BY <2>1, Facts
  <2>3. reason = "TRANSITION" => At(r.pc) \in {"helper", "x64"} BY <1>2, <1>4
  <2>4. Strict /\ reason # "INVARIANT" => word' = r.count BY <1>3, <2>1
  <2>5. reason = "SYSCALL" => At(r.pc) \in {"syscall", "helper"} BY <1>2, <1>4
  <2>6. reason = "FAULT" => At(r.pc) = "load" BY <1>4
  <2> QED BY <1>2, <2>1, <2>2, <2>3, <2>4, <2>5, <2>6, PublishKeeps
<1>5. CASE ~jit.teb /\ Rollback("INVARIANT") BY <1>5, RollbackKeeps
<1>6. CASE pending # "SVC" /\ Publish(BoundaryReason, BoundaryRetired, r)
  <2>1. /\ BoundaryReason \in Reason /\ BoundaryReason # "FAULT"
        /\ BoundaryReason = "SYSCALL" => pending = "SYSCALL"
        /\ BoundaryReason = "TRANSITION" => pending \in {"SVC", "FETCH"}
    BY <1>1 DEF BoundaryReason, Reason
  <2> QED BY <1>4, <1>6, <2>1
<1>7. CASE pending = "SVC" /\ Publish("INVARIANT", BoundaryRetired, r)
  BY <1>4, <1>7 DEF Reason
<1>8. CASE pending = "SVC" /\ Publish("TRANSITION", BoundaryRetired, r)
  BY <1>4, <1>8 DEF Reason
<1>9. CASE /\ AcceptsResume(r)
           /\ NextSegment([r EXCEPT !.pc = link], BoundaryRetired)
           /\ transitions' = Counted
           /\ resumes' = (IF ticks = 0 THEN resumes ELSE 0)
  <2>1. transitions' \in 0 .. limit BY <1>9, CountedTyped DEF AcceptsResume
  <2>2. resumes' \in 0 .. MaxResumes BY <1>9, Facts
  <2>3. [r EXCEPT !.pc = link] \in Registers /\ [r EXCEPT !.pc = link].count = r.count
    BY <1>2, Facts, ResumedTyped
  <2>4. Strict => word = [r EXCEPT !.pc = link].count BY <1>3, <2>3
  <2> QED BY <1>1, <1>2, <1>9, <2>1, <2>2, <2>3, <2>4, NextSegmentKeeps
<1> QED BY Zenon, <1>5, <1>6, <1>7, <1>8, <1>9 DEF Boundary, r

\* A publication of the segment's registers as they are.
LEMMA PublishSegment ==
    ASSUME IInv, phase \in {"SEGMENT", "PRECISE", "STEP"},
           NEW reason \in {"ASYNC", "BUDGET", "INVARIANT"}, NEW count \in 0 .. budget,
           Publish(reason, count, jit)
    PROVE  IInv'
<1>1. PublishStored(reason, count, jit) /\ word' = word BY DEF Publish
<1>2. reason \in Reason BY DEF Reason
<1>3. word' \in 0 .. Wrap - 1 /\ jit \in Registers BY <1>1, Facts
<1>4. Strict => word' = jit.count BY <1>1 DEF IInv, RegistersDescribeMemory
<1> QED BY <1>1, <1>2, <1>3, <1>4, PublishKeeps

\* A segment has retired no more than it may.
LEMMA SegmentRetiredBound ==
    ASSUME IInv, phase = "SEGMENT", NEW n \in SegmentRetired
    PROVE  retired + n \in 0 .. budget /\ n \in Nat /\ (n = 0 => ticks = 0)
<1>1. n = ticks \/ (n = 1 /\ ticks > 0) BY DEF SegmentRetired, IInv, SegmentShape
<1> QED BY <1>1, Facts

\* An asynchronous stop of a segment keeps the invariant.
LEMMA AsyncStopKeeps ==
    ASSUME IInv, AsyncStop
    PROVE  IInv'
<1>1. PICK n \in SegmentRetired : Publish("ASYNC", retired + n, jit) BY DEF AsyncStop
<1>2. phase = "SEGMENT" BY DEF AsyncStop
<1>3. retired + n \in 0 .. budget BY <1>2, SegmentRetiredBound
<1> QED BY <1>1, <1>2, <1>3, PublishSegment

\* A block that cannot be fetched keeps the invariant.
LEMMA RefuseBlockKeeps ==
    ASSUME IInv, RefuseBlock
    PROVE  IInv'
<1>1. phase = "SEGMENT" BY DEF RefuseBlock
<1>2. retired + ticks \in 0 .. budget BY Facts
<1>3. CASE ~jit.teb BY <1>3, RollbackKeeps DEF RefuseBlock
<1>4. CASE jit.teb /\ Strict
  <2>1. Publish("BUDGET", retired + ticks, jit) BY <1>4 DEF RefuseBlock
  <2> QED BY <1>1, <1>2, <2>1, PublishSegment
<1>5. CASE jit.teb /\ ~Strict
  <2>1. /\ Fresh(jit) /\ context' = jit /\ phase' = "PRECISE" /\ retired' = retired + ticks
        /\ async' = FALSE /\ requests' = requests
        /\ UNCHANGED <<config, mapped, word, budget, resumes, transitions, stop>>
    BY <1>5 DEF RefuseBlock, ClearHalts
  <2>2. async' \in BOOLEAN /\ mapped' \in BOOLEAN BY <2>1, Facts
  <2>3. retired' \in 0 .. budget' BY <1>2, <2>1
  <2> QED BY <1>1, <1>5, <2>1, <2>2, <2>3, Facts, ContinueKeeps
<1> QED BY <1>3, <1>4, <1>5

\* The end of a segment keeps the invariant.
LEMMA EndSegmentKeeps ==
    ASSUME IInv, EndSegment
    PROVE  IInv'
<1>1. phase = "SEGMENT" /\ (dirty \/ ticks = budget - retired \/ (ticks = 0 /\ Strict))
  BY DEF EndSegment
<1>2. PICK n \in SegmentRetired :
        IF Stuck THEN Publish("INVARIANT", retired, jit)
        ELSE IF ~jit.teb THEN Rollback("INVARIANT")
        ELSE IF retired + n = budget THEN Publish("BUDGET", budget, jit)
        ELSE /\ NextSegment(jit, retired + n)
             /\ resumes' = (IF n = 0 THEN resumes + 1 ELSE 0)
             /\ UNCHANGED transitions
  BY DEF EndSegment
<1>3. retired + n \in 0 .. budget /\ n \in Nat /\ (n = 0 => ticks = 0)
  BY <1>1, SegmentRetiredBound
<1>4. CASE Publish("INVARIANT", retired, jit) BY <1>1, <1>4, Facts, PublishSegment
<1>5. CASE Rollback("INVARIANT") BY <1>5, RollbackKeeps
<1>6. CASE Publish("BUDGET", budget, jit)
  <2>1. budget \in 0 .. budget BY Facts
  <2> QED BY <1>1, <1>6, <2>1, PublishSegment
<1>7. CASE /\ ~Stuck /\ retired + n # budget /\ NextSegment(jit, retired + n)
           /\ resumes' = (IF n = 0 THEN resumes + 1 ELSE 0) /\ UNCHANGED transitions
  <2>1. n = 0 => Strict
    <3>1. dirty => ticks > 0 BY <1>1 DEF IInv, SegmentShape
    <3> QED BY <1>1, <1>3, <1>7, <3>1, Facts
  <2>2. n = 0 => resumes < MaxResumes BY <1>3, <1>7, <2>1, Facts DEF Stuck
  <2>3. resumes' \in 0 .. MaxResumes BY <1>7, <2>2, Facts
  <2>4. Strict => word = jit.count BY <1>1 DEF IInv, RegistersDescribeMemory
  <2>5. transitions' \in 0 .. limit BY <1>7, Facts
  <2> QED BY <1>1, <1>3, <1>7, <2>3, <2>4, <2>5, Facts, NextSegmentKeeps
<1> QED BY Zenon, <1>2, <1>4, <1>5, <1>6, <1>7

\* Running out of budget keeps the invariant.
LEMMA ExpireKeeps ==
    ASSUME IInv, Expire
    PROVE  IInv'
BY Facts, PublishSegment DEF Expire

\* Asking the broker about a helper keeps the invariant.
LEMMA AskBrokerKeeps ==
    ASSUME IInv, AskBroker
    PROVE  IInv'
<1>1. phase = "PRECISE" /\ retired < budget /\ At(jit.pc) = "helper" BY DEF AskBroker
<1>2. Strict => word = jit.count BY <1>1 DEF IInv, RegistersDescribeMemory
<1>3. CASE Publish("INVARIANT", retired, jit) BY <1>1, <1>3, Facts, PublishSegment
<1>4. CASE Publish("TRANSITION", retired, jit)
  <2>1. PublishStored("TRANSITION", retired, jit) /\ word' = word BY <1>4 DEF Publish
  <2>2. word' \in 0 .. Wrap - 1 /\ "TRANSITION" \in Reason BY <2>1, Facts DEF Reason
  <2>3. Strict => word' = jit.count BY <1>2, <2>1
  <2> QED BY <1>1, <2>1, <2>2, <2>3, Facts, PublishKeeps
<1>5. CASE /\ AcceptsResume(jit)
           /\ context' = [jit EXCEPT !.pc = link] /\ Fresh(context')
           /\ transitions' = Counted /\ phase' = "STEP"
           /\ UNCHANGED <<config, mapped, word, budget, retired, resumes, async, requests, stop>>
  <2> DEFINE r == [jit EXCEPT !.pc = link]
  <2>1. r \in Registers /\ r.count = jit.count BY Facts, ResumedTyped
  <2>2. context' = r /\ Fresh(r) BY <1>5 DEF Fresh
  <2> HIDE DEF r
  <2>3. transitions' \in 0 .. limit BY <1>5, CountedTyped DEF AcceptsResume
  <2>4. Strict => word' = r.count BY <1>2, <1>5, <2>1
  <2>5. mapped' \in BOOLEAN /\ async' \in BOOLEAN BY <1>5, Facts
  <2> QED BY <1>1, <1>5, <2>1, <2>2, <2>3, <2>4, <2>5, Facts, ContinueKeeps
<1> QED BY Zenon, <1>3, <1>4, <1>5 DEF AskBroker

\* Both ways into a step: the run is inside the precise loop with budget left.
LEMMA FetchFacts ==
    ASSUME IInv, Fetches
    PROVE  /\ phase \in {"PRECISE", "STEP"} /\ retired < budget
           /\ Strict => word = jit.count
BY DEF Fetches, IInv, StepHasBudget, RegistersDescribeMemory

\* A single step that is redirected keeps the invariant.
LEMMA StepRedirectKeeps ==
    ASSUME IInv, StepRedirect
    PROVE  IInv'
<1>1. At(jit.pc) # "return" /\ Fetches BY DEF StepRedirect
<1>2. Advanced(jit) \in Registers /\ Advanced(jit).count = jit.count
  BY <1>1, Facts, AdvancedTyped
<1>3. /\ Fresh(Advanced(jit)) /\ phase' = "STEP"
      /\ UNCHANGED <<config, mapped, word, context, budget, retired, resumes, transitions,
                     async, requests, stop>>
  BY DEF StepRedirect
<1>4. Strict => word' = Advanced(jit).count BY <1>1, <1>2, <1>3, FetchFacts
<1>5. mapped' \in BOOLEAN /\ async' \in BOOLEAN BY <1>3, Facts
<1> QED BY <1>1, <1>2, <1>3, <1>4, <1>5, FetchFacts, Facts, ContinueKeeps

\* A single step that faults or halts keeps the invariant.
LEMMA StepStopsKeeps ==
    ASSUME IInv, StepStops
    PROVE  IInv'
<1> DEFINE i == At(jit.pc)
<1>1. ASSUME NEW reason \in Reason, Publish(reason, retired, jit),
             reason = "SYSCALL" => i \in {"syscall", "helper"},
             reason = "TRANSITION" => i \in {"helper", "x64"},
             reason = "FAULT" => i = "load"
      PROVE  IInv'
  <2>1. PublishStored(reason, retired, jit) /\ word' = word BY <1>1 DEF Publish
  <2>2. word' \in 0 .. Wrap - 1 BY <2>1, Facts
  <2>3. Fetches BY DEF StepStops
  <2>4. Strict => word' = jit.count BY <2>1, <2>3, FetchFacts
  <2> QED BY <1>1, <2>1, <2>2, <2>4, Facts, PublishKeeps
<1> DEFINE returned == IF attached /\ phase = "PRECISE" THEN "INVARIANT" ELSE "HOST_RETURN"
           marker == IF profile = "SVC" THEN "INVARIANT" ELSE "SYSCALL"
<1>2. returned \in {"INVARIANT", "HOST_RETURN"} /\ marker \in {"INVARIANT", "SYSCALL"} OBVIOUS
<1>3. {"INVARIANT", "HOST_RETURN", "SYSCALL", "TRANSITION", "FAULT"} \subseteq Reason BY DEF Reason
<1>4. CASE i = "return" /\ Publish(returned, retired, jit)
  <2> HIDE DEF returned, i
  <2> QED BY <1>1, <1>2, <1>3, <1>4
<1>5. CASE i = "x64" /\ Publish("TRANSITION", retired, jit) BY <1>1, <1>3, <1>5
<1>6. CASE i = "load" /\ Publish("FAULT", retired, jit) BY <1>1, <1>3, <1>6
<1>7. CASE i = "syscall" /\ Publish("SYSCALL", retired, jit) BY <1>1, <1>3, <1>7
<1>8. CASE i = "helper" /\ Publish(marker, retired, jit)
  <2> HIDE DEF marker, i
  <2> QED BY <1>1, <1>2, <1>3, <1>8
<1> QED BY Zenon, <1>4, <1>5, <1>6, <1>7, <1>8 DEF StepStops

\* A step and its store change the register and the word alike.
LEMMA SteppedTyped ==
    ASSUME IInv, Steps
    PROVE  /\ Stepped \in Registers /\ jit \in Registers
           /\ StepStore => /\ word' \in 0 .. Wrap - 1
                           /\ Strict => word' = Stepped.count
<1>1. Fetches /\ At(jit.pc) \in {"plain", "store", "clobber", "load", "redirect", "x64"}
  BY DEF Steps
<1>2. jit \in Registers /\ word \in 0 .. Wrap - 1 /\ (Strict => word = jit.count)
  BY <1>1, Facts, FetchFacts
<1>3. CASE At(jit.pc) = "store"
  <2>1. Stepped = Stored(jit) BY <1>3 DEF Stepped
  <2>2. Stored(jit) \in Registers /\ Stored(jit).count = (jit.count + 1) % Wrap
    BY <1>2, <1>3, StoredTyped
  <2>3. StepStore => word' = (word + 1) % Wrap BY <1>3 DEF StepStore
  <2>4. (word + 1) % Wrap \in 0 .. Wrap - 1 BY <1>2, WordTyped
  <2> QED BY <1>2, <2>1, <2>2, <2>3, <2>4
<1>4. CASE At(jit.pc) # "store"
  <2>1. StepStore => word' = word BY <1>4 DEF StepStore
  <2>2. Stepped = [Advanced(jit) EXCEPT !.teb = FALSE] \/ Stepped = Advanced(jit)
    BY <1>4 DEF Stepped
  <2>3. Stepped \in Registers /\ Stepped.count = jit.count
    BY <1>1, <1>2, <2>2, AdvancedTyped, ClobberedTyped
  <2> QED BY <1>2, <2>1, <2>3
<1> QED BY <1>3, <1>4

\* A single step that is stopped from outside keeps the invariant.
LEMMA StepAsyncKeeps ==
    ASSUME IInv, StepAsync
    PROVE  IInv'
<1>1. Steps /\ Fetches BY DEF StepAsync, Steps
<1>2. CASE Publish("ASYNC", retired, jit) BY <1>1, <1>2, FetchFacts, Facts, PublishSegment
<1>3. CASE StepStore /\ PublishStored("ASYNC", retired, Stepped)
  <2>1. "ASYNC" \in Reason BY DEF Reason
  <2> QED BY <1>1, <1>3, <2>1, SteppedTyped, Facts, PublishKeeps
<1> QED BY <1>2, <1>3 DEF StepAsync

\* A single step that retires keeps the invariant.
LEMMA StepRetiresKeeps ==
    ASSUME IInv, StepRetires
    PROVE  IInv'
<1>1. Steps /\ Fetches BY DEF StepRetires, Steps
<1>2. retired + 1 \in 0 .. budget BY <1>1, FetchFacts, Facts
<1>3. CASE Publish("INVARIANT", retired, jit) BY <1>1, <1>3, FetchFacts, Facts, PublishSegment
<1>4. CASE StepStore /\ PublishStored("HOST_RETURN", retired + 1, Stepped)
  <2>1. "HOST_RETURN" \in Reason BY DEF Reason
  <2> QED BY <1>1, <1>2, <1>4, <2>1, SteppedTyped, PublishKeeps
<1>5. CASE /\ StepStore
           /\ Fresh(Stepped) /\ ClearHalts
           /\ retired' = retired + 1
           /\ phase' = "PRECISE"
           /\ UNCHANGED <<config, mapped, context, budget, resumes, transitions, stop>>
  <2>1. async' = FALSE /\ requests' = requests BY <1>5 DEF ClearHalts
  <2>2. mapped' \in BOOLEAN /\ async' \in BOOLEAN BY <1>5, <2>1, Facts
  <2>3. retired' \in 0 .. budget' BY <1>2, <1>5
  <2>4. phase # "CLOSED" BY <1>1, FetchFacts
  <2> QED BY <1>1, <1>5, <2>1, <2>2, <2>3, <2>4, SteppedTyped, Facts, ContinueKeeps
<1> QED BY Zenon, <1>3, <1>4, <1>5 DEF StepRetires

-----------------------------------------------------------------------------
(* The host's steps.                                                        *)

\* Entering a run keeps the invariant.
LEMMA RunKeeps ==
    ASSUME IInv, NEW b \in Budgets, Run(b)
    PROVE  IInv'
<1>1. /\ phase = "HOST" /\ b \in 1 .. MaxBudget /\ budget' = b /\ Fresh(context)
      /\ phase' \in {"SEGMENT", "PRECISE"} /\ async' = FALSE /\ requests' = requests
      /\ UNCHANGED <<config, mapped, word, context, retired, resumes, transitions, stop>>
  BY DEF Run, ClearHalts
<1>2. Strict => word' = context.count
  BY <1>1 DEF IInv, StrictStopsAreExact, StopsAreExact
<1>3. retired' \in 0 .. budget'
  <2>1. budget = 0 BY <1>1 DEF IInv, NoBudgetOutside
  <2> QED BY <1>1, <2>1, Facts
<1>4. budget' \in 0 .. MaxBudget BY <1>1
<1>5. mapped' \in BOOLEAN /\ async' \in BOOLEAN BY <1>1, Facts
<1> QED BY <1>1, <1>2, <1>3, <1>4, <1>5, Facts, ContinueKeeps

\* The remaining steps leave the engine's side alone.
LEMMA OutsideKeeps ==
    ASSUME IInv, UNCHANGED <<config, word, jit, segment, phase, budget, retired, resumes,
                             transitions>>,
           mapped' \in BOOLEAN, async' \in BOOLEAN, requests' \in 0 .. MaxRequests,
           context' \in Registers, context'.count = context.count,
           stop' \in [reason : Reason, retired : 0 .. MaxBudget],
           \/ UNCHANGED <<context, stop>>
           \/ phase = "HOST" /\ stop'.reason \in {"NONE", "BUDGET", "INVARIANT"}
    PROVE  IInv'
<1>1. /\ profile' = profile /\ limit' = limit /\ attached' = attached /\ link' = link
      /\ before' = before /\ ticks' = ticks /\ pending' = pending /\ dirty' = dirty
      /\ word' = word /\ jit' = jit /\ phase' = phase /\ budget' = budget
      /\ retired' = retired /\ resumes' = resumes /\ transitions' = transitions
  BY DEF config, segment
<1>2. TypeOK' BY Zenon, <1>1 DEF IInv, TypeOK
<1>3. RegistersDescribeMemory' BY <1>1 DEF IInv, RegistersDescribeMemory, Strict
<1>4. SegmentShape' BY <1>1 DEF IInv, SegmentShape, At
<1>5. StepHasBudget' /\ NoBudgetOutside' BY <1>1 DEF IInv, StepHasBudget, NoBudgetOutside
<1>6. ReturnCloses' BY <1>1 DEF IInv, ReturnCloses
<1>7. StrictStopsAreExact'
  BY <1>1 DEF IInv, ReturnCloses, StrictStopsAreExact, StopsAreExact, Strict
<1>8. StopsAtCause' BY <1>1 DEF IInv, StopsAtCause, At
<1> QED BY <1>2, <1>3, <1>4, <1>5, <1>6, <1>7, <1>8 DEF IInv

\* A refused run keeps the invariant.
LEMMA RefuseKeeps ==
    ASSUME IInv, Refuse
    PROVE  IInv'
<1>1. /\ phase = "HOST"
      /\ \/ stop' = [reason |-> "INVARIANT", retired |-> 0]
         \/ stop' = [reason |-> "BUDGET", retired |-> 0]
  BY DEF Refuse
<1>2. UNCHANGED <<config, mapped, word, context, jit, segment, phase, budget, retired, resumes,
                  transitions, async, requests>>
  BY DEF Refuse
<1>3. 0 \in 0 .. MaxBudget BY EngineAssumption
<1>4. /\ stop' \in [reason : Reason, retired : 0 .. MaxBudget]
      /\ stop'.reason \in {"NONE", "BUDGET", "INVARIANT"}
  BY <1>1, <1>3 DEF Reason
<1>5. mapped' \in BOOLEAN /\ async' \in BOOLEAN BY <1>2, Facts
<1> QED BY <1>1, <1>2, <1>4, <1>5, Facts, OutsideKeeps

\* The caller serves an instruction of the program, never the sentinel.
LEMMA ServeKeeps ==
    ASSUME IInv, Serve
    PROVE  IInv'
<1>1. /\ phase = "HOST" /\ stop.reason \in {"SYSCALL", "TRANSITION"}
      /\ context' = Advanced(context) /\ stop' = [reason |-> "NONE", retired |-> 0]
  BY DEF Serve
<1>2. UNCHANGED <<config, mapped, word, jit, segment, phase, budget, retired, resumes,
                  transitions, async, requests>>
  BY DEF Serve
<1>3. At(context.pc) # "return" BY <1>1 DEF IInv, StopsAtCause
<1>4. context' \in Registers /\ context'.count = context.count
  BY <1>1, <1>3, Facts, AdvancedTyped
<1>5. 0 \in 0 .. MaxBudget BY EngineAssumption
<1>6. stop' \in [reason : Reason, retired : 0 .. MaxBudget] /\ stop'.reason = "NONE"
  BY <1>1, <1>5 DEF Reason
<1>7. mapped' \in BOOLEAN /\ async' \in BOOLEAN BY <1>2, Facts
<1> QED BY <1>1, <1>2, <1>4, <1>6, <1>7, Facts, OutsideKeeps

\* Mapping the page and requesting a stop touch neither registers nor memory.
LEMMA WorldKeeps ==
    ASSUME IInv, MapPage \/ RequestAsyncStop \/ UNCHANGED vars
    PROVE  IInv'
<1>1. UNCHANGED <<config, word, context, jit, segment, phase, budget, retired, resumes,
                  transitions, stop>>
  BY DEF MapPage, RequestAsyncStop, vars
<1>2. mapped' \in BOOLEAN /\ async' \in BOOLEAN
  <2>1. (mapped' = mapped \/ mapped' = TRUE) /\ (async' = async \/ async' = TRUE)
    BY DEF MapPage, RequestAsyncStop, vars
  <2> QED BY Zenon, <2>1, Facts
<1>3. requests' \in 0 .. MaxRequests
  <2>1. requests' = requests \/ (requests < MaxRequests /\ requests' = requests + 1)
    BY DEF MapPage, RequestAsyncStop, vars
  <2> QED BY <2>1, Facts
<1>4. stop' \in [reason : Reason, retired : 0 .. MaxBudget] BY <1>1 DEF IInv, TypeOK
<1> QED BY <1>1, <1>2, <1>3, <1>4, Facts, OutsideKeeps

-----------------------------------------------------------------------------
(* The theorems.                                                            *)

\* A new engine satisfies the invariant.
LEMMA InitIInv == Init => IInv
<1> SUFFICES ASSUME Init PROVE IInv OBVIOUS
<1> DEFINE c == [pc |-> 1, count |-> 0, teb |-> TRUE]
<1>1. c \in Registers
  <2>1. 1 \in Pc /\ 0 \in 0 .. Wrap - 1
    <3>1. Len(Program) \in Nat BY EngineAssumption
    <3> QED BY <3>1, EngineAssumption DEF Pc
  <2> QED BY <2>1 DEF Registers
<1>2. context = c /\ jit = c /\ before = c BY DEF Init
<1>3. context.count = 0 BY <1>2
<1> HIDE DEF c
<1>4. TypeOK
  <2>1. /\ word \in 0 .. Wrap - 1 /\ budget \in 0 .. MaxBudget /\ retired \in 0 .. budget
        /\ ticks \in 0 .. budget - retired /\ resumes \in 0 .. MaxResumes
        /\ transitions \in 0 .. limit /\ requests \in 0 .. MaxRequests
    BY EngineAssumption DEF Init
  <2>2. 0 \in 0 .. MaxBudget BY EngineAssumption
  <2>3. stop \in [reason : Reason, retired : 0 .. MaxBudget] BY <2>2 DEF Init, Reason
  <2>4. /\ phase \in {"HOST", "SEGMENT", "PRECISE", "STEP", "CLOSED"} /\ pending \in Pending
        /\ mapped \in BOOLEAN /\ dirty \in BOOLEAN /\ async \in BOOLEAN
    BY DEF Init, Pending
  <2> QED BY Zenon, <1>1, <1>2, <2>1, <2>3, <2>4 DEF Init, TypeOK
<1>5. phase = "HOST" /\ stop.reason = "NONE" /\ word = 0 /\ budget = 0 BY DEF Init
<1> QED BY <1>3, <1>4, <1>5
     DEF IInv, RegistersDescribeMemory, SegmentShape, StepHasBudget, NoBudgetOutside,
         ReturnCloses, StrictStopsAreExact, StopsAreExact, StopsAtCause

\* Every step keeps the invariant.
LEMMA NextKeeps == IInv /\ [Next]_vars => IInv'
<1> SUFFICES ASSUME IInv, [Next]_vars PROVE IInv' OBVIOUS
<1>1. CASE Engine
  BY Zenon, <1>1, ExecuteKeeps, ReplayFaultKeeps, FollowRedirectKeeps, BoundaryKeeps,
     AsyncStopKeeps, RefuseBlockKeeps, EndSegmentKeeps, ExpireKeeps, AskBrokerKeeps,
     StepRedirectKeeps, StepStopsKeeps, StepAsyncKeeps, StepRetiresKeeps
  DEF Engine
<1>2. CASE Refuse \/ (\E b \in Budgets : Run(b)) \/ Serve
  BY Zenon, <1>2, RefuseKeeps, RunKeeps, ServeKeeps
<1>3. CASE MapPage \/ RequestAsyncStop \/ UNCHANGED vars BY <1>3, WorldKeeps
<1> QED BY Zenon, <1>1, <1>2, <1>3 DEF Next

\* The invariant holds in every reachable state.
LEMMA Invariance == Spec => []IInv
BY InitIInv, NextKeeps, PTL DEF Spec

\* The engine's counters stay in their ranges: no run counts past its budget,
\* the resume and transition limits hold, and the pc never leaves the program.
THEOREM TypeCorrect == Spec => []TypeOK
<1>1. IInv => TypeOK BY DEF IInv
<1> QED BY <1>1, Invariance, PTL

\* In the strict profiles a context that was returned to the caller counts
\* exactly the stores in memory, after replayed faults, stops and expired
\* budgets: gem_arm64ec_dynarmic_run ends each segment at a store, so the
\* snapshot it replays from is never behind memory.
THEOREM StrictContextsAreExact == Spec => []StrictStopsAreExact
<1>1. IInv => StrictStopsAreExact BY DEF IInv
<1> QED BY <1>1, Invariance, PTL

\* The pc published with a stop is that of the instruction that caused it,
\* whichever of the engine's paths found it.
THEOREM CausesArePublished == Spec => []StopsAtCause
<1>1. IInv => StopsAtCause BY DEF IInv
<1> QED BY <1>1, Invariance, PTL
=============================================================================
