----------------------- MODULE HybridCoordinatorProofs -----------------------
(***************************************************************************)
(* Proofs about HybridCoordinator for every address map, stack size,       *)
(* budget and cookie width.                                                *)
(***************************************************************************)
EXTENDS HybridCoordinator, SequenceTheorems, TLAPS

\* While the loop looks at an ARM64EC transition, the ARM64EC side runs.
StoppedInArm == phase = "ARM_STOPPED" => stage \in ArmStages

\* NoStrayRecord for the contents memory of the stack.
NoStray(memory) ==
    \A w \in Word : memory[w] = Sentinel =>
        leaked \/ \E d \in 1 .. depth : frames[d].record = w

\* What a frame gives back to its record's word is no record itself, unless the
\* two frames share the word.
OldWords ==
    \/ leaked
    \/ /\ depth >= 1 => frames[1].old # Sentinel
       /\ depth = 2 /\ frames[2].old = Sentinel => frames[2].record = frames[1].record

\* The inductive invariant.
IInv == TypeOK /\ FrameDiscipline /\ Resumable /\ StoppedInArm /\ NoStrayRecord /\ OldWords

-----------------------------------------------------------------------------
(* Facts about the operators.                                               *)

\* Stack contents are addresses.
LEMMA ValueIsAddress == Value \subseteq Address /\ Sentinel \in Value /\ GuestValue \subseteq Value
BY CoordinatorAssumption DEF Value

\* An empty frame and an empty request are well typed.
LEMMA EmptyTyped == NoFrame \in Frame /\ NoPending \in Pending /\ 0 \in StackPointer
<1>1. 0 \in Word /\ 0 \in StackPointer /\ 0 \in 0 .. MaxCookie
  BY CoordinatorAssumption DEF Word, StackPointer
<1> QED
  BY <1>1, CoordinatorAssumption, ValueIsAddress DEF NoFrame, Frame, NoPending, Pending, Callbacks

\* The next cookie is a cookie and never the one that means "no frame".
LEMMA CookieTyped ==
    ASSUME generation \in 0 .. MaxCookie
    PROVE  NextCookie \in 0 .. MaxCookie /\ NextCookie # 0
BY CoordinatorAssumption DEF NextCookie

\* Rounding a stack pointer down stays on the stack.
LEMMA AlignedTyped ==
    ASSUME NEW sp \in StackPointer
    PROVE  Aligned(sp) \in StackPointer
BY CoordinatorAssumption DEF Aligned, StackPointer

\* generic_restore_records: the words stay typed, and when every transaction
\* commits no record is left.
LEMMA RestoredClean ==
    ASSUME IInv, NEW memory \in [Word -> Value], NoStray(memory),
           NEW ok \in [1 .. 2 -> BOOLEAN]
    PROVE  /\ RestoredStack(memory, ok) \in [Word -> Value]
           /\ leaked \/ (\E d \in 1 .. depth : ~ok[d])
              \/ \A w \in Word : RestoredStack(memory, ok)[w] # Sentinel
<1> DEFINE give(m, d) == IF d <= depth /\ frames[d].written /\ ok[d]
                         THEN [m EXCEPT ![frames[d].record] = frames[d].old]
                         ELSE m
           inner == give(memory, 2)
<1>1. RestoredStack(memory, ok) = give(inner, 1)
  BY DEF RestoredStack
<1>2. \A d \in 1 .. 2 : frames[d].record \in Word /\ frames[d].old \in Value
  BY DEF IInv, TypeOK, Frame
<1>3. inner \in [Word -> Value]
  BY <1>2
<1>4. give(inner, 1) \in [Word -> Value]
  <2> HIDE DEF inner
  <2> QED BY <1>2, <1>3
<1>5. ASSUME ~leaked, \A d \in 1 .. depth : ok[d], NEW w \in Word
      PROVE  give(inner, 1)[w] # Sentinel
  <2>1. depth \in 0 .. 2 /\ \A d \in 1 .. depth : frames[d].written
    BY DEF IInv, TypeOK, FrameDiscipline
  <2>2. CASE depth = 0
    BY <2>2, <1>5 DEF NoStray
  <2>3. CASE depth = 1
    <3>1. inner = memory
      BY <2>3
    <3>2. frames[1].written /\ ok[1] /\ frames[1].old # Sentinel
      BY <1>5, <2>1, <2>3 DEF IInv, OldWords
    <3>3. memory[w] = Sentinel => frames[1].record = w
      BY <1>5, <2>3 DEF NoStray
    <3> HIDE DEF inner
    <3> QED BY <3>1, <3>2, <3>3, <2>3, <1>2
  <2>4. CASE depth = 2
    <3>1. /\ frames[1].written /\ ok[1] /\ frames[2].written /\ ok[2]
          /\ frames[1].old # Sentinel
          /\ frames[2].old = Sentinel => frames[2].record = frames[1].record
      BY <1>5, <2>1, <2>4 DEF IInv, OldWords
    <3>2. memory[w] = Sentinel => frames[1].record = w \/ frames[2].record = w
      BY <1>5, <2>4 DEF NoStray
    <3>3. inner = [memory EXCEPT ![frames[2].record] = frames[2].old]
      BY <3>1, <2>4
    <3>4. give(inner, 1) = [inner EXCEPT ![frames[1].record] = frames[1].old]
      BY <3>1, <2>4
    <3> HIDE DEF inner, give
    <3> QED BY <3>1, <3>2, <3>3, <3>4, <1>2, <1>3
  <2> QED BY <2>1, <2>2, <2>3, <2>4
<1> QED
  <2> HIDE DEF give
  <2> QED BY <1>1, <1>4, <1>5

-----------------------------------------------------------------------------
(* The inductive invariant, operation by operation.                         *)

\* generic_invariant.
LEMMA InvariantKeeps ==
    ASSUME IInv, NEW c \in Context, NEW memory \in [Word -> Value], NoStray(memory),
           Invariant(c, memory),
           remaining' \in 0 .. MaxBudget, generation' \in 0 .. MaxCookie
    PROVE  IInv'
<1>1. PICK ok \in [1 .. 2 -> BOOLEAN] :
        /\ stack' = RestoredStack(memory, ok)
        /\ leaked' = (leaked \/ \E d \in 1 .. depth : ~ok[d])
        /\ ClearSidecar
        /\ Stop([c EXCEPT !.cookie = 0, !.isa = "ARM64EC"])
  BY DEF Invariant
<1>2. stack' \in [Word -> Value]
  BY <1>1, RestoredClean
<1>9. leaked' \/ \A w \in Word : stack'[w] # Sentinel
  BY <1>1, RestoredClean
<1>3. leaked' \in BOOLEAN
  <2>1. (leaked \/ \E d \in 1 .. depth : ~ok[d]) \in BOOLEAN
    OBVIOUS
  <2> QED BY <1>1, <2>1
<1>4. context' \in Context /\ phase' = "HOST"
  <2>1. 0 \in 0 .. MaxCookie
    BY CoordinatorAssumption
  <2> QED BY Zenon, <1>1, <2>1 DEF Stop, Context
<1>5. ClearSidecar
  BY <1>1
<1>6. TypeOK'
  <2>1. frames' \in [1 .. 2 -> Frame] /\ depth' \in 0 .. 2
    BY <1>5, EmptyTyped DEF ClearSidecar
  <2>2. active' \in BOOLEAN /\ stage' \in Stages /\ nativeReturn' \in Address /\ pending' \in Pending
    BY <1>5, EmptyTyped, CoordinatorAssumption DEF ClearSidecar, Stages
  <2> QED BY Zenon, <1>2, <1>3, <1>4, <2>1, <2>2 DEF TypeOK
<1>7. FrameDiscipline' /\ Resumable' /\ StoppedInArm'
  BY <1>4, <1>5 DEF FrameDiscipline, Resumable, StoppedInArm, ClearSidecar
<1>8. NoStrayRecord' /\ OldWords'
  BY <1>9, <1>5 DEF NoStrayRecord, OldWords, ClearSidecar
<1> QED
  BY <1>6, <1>7, <1>8 DEF IInv

\* generic_push_x64.
LEMMA PushKeeps ==
    ASSUME IInv, NEW target \in Address, NEW resumePc \in Address,
           NEW resumeSp \in StackPointer, stage \in ArmStages,
           Push(target, resumePc, resumeSp), remaining' \in 0 .. MaxBudget
    PROVE  IInv'
<1> DEFINE word == context.sp - 1
           parentMissing == stage = "ARM_CALLBACK" /\ (depth = 0 \/ Top.callback = "NONE")
           rejected == \/ depth >= 2 \/ context.sp < 1 \/ context.sp # resumeSp
                       \/ Resolve[target].kind # "X64" \/ parentMissing
           frame == [NoFrame EXCEPT
                    !.cookie = NextCookie, !.resumePc = resumePc, !.resumeSp = resumeSp,
                    !.priorSp = context.originalSp, !.record = word, !.old = stack[word],
                    !.written = TRUE, !.resumeCallback = stage = "ARM_CALLBACK"]
<1>1. NextCookie \in 0 .. MaxCookie /\ NextCookie # 0
  BY CookieTyped DEF IInv, TypeOK
<1>2. ASSUME Invariant(context, stack), generation' \in 0 .. MaxCookie
      PROVE  IInv'
  BY <1>2, InvariantKeeps DEF IInv, TypeOK, NoStray, NoStrayRecord
<1>3. CASE /\ ~rejected
           /\ generation' = NextCookie
           /\ frames' = [frames EXCEPT ![depth + 1] = frame]
           /\ depth' = depth + 1
           /\ stage' = "X64"
           /\ stack' = [stack EXCEPT ![word] = Sentinel]
           /\ context' = [context EXCEPT !.sp = word, !.pc = Resolve[target].va,
                                         !.isa = "X64", !.cookie = NextCookie]
           /\ phase' = "LOOP"
           /\ pending' = NoPending
           /\ UNCHANGED <<active, nativeReturn, leaked>>
  <2>0. depth < 2 /\ context.sp >= 1 /\ context.sp = resumeSp
    BY <1>3 DEF IInv, TypeOK, Context, StackPointer
  <2> HIDE DEF rejected
  <2>1. /\ word \in Word /\ word \in StackPointer /\ stack[word] \in Value
        /\ context.originalSp \in StackPointer /\ Resolve[target].va \in Address
    BY <1>3, <2>0, CoordinatorAssumption DEF IInv, TypeOK, Word, StackPointer, Context
  <2>2. /\ frame \in Frame /\ frame.cookie = NextCookie /\ frame.resumeSp = resumeSp
        /\ frame.record = word /\ frame.old = stack[word] /\ frame.written = TRUE
        /\ frame.resumeCallback = (stage = "ARM_CALLBACK") /\ frame.callback = "NONE"
    <3>1. (stage = "ARM_CALLBACK") \in BOOLEAN
      OBVIOUS
    <3> HIDE DEF word
    <3> QED BY Zenon, <1>1, <2>1, <3>1, EmptyTyped DEF NoFrame, Frame
  <2>3. context' \in Context /\ context'.isa = "X64" /\ context'.cookie = NextCookie
    BY Zenon, <1>1, <1>3, <2>1 DEF IInv, TypeOK, Context
  <2> HIDE DEF frame, word
  <2>4. TypeOK'
    BY <1>1, <1>3, <2>0, <2>1, <2>2, <2>3, EmptyTyped, ValueIsAddress DEF IInv, TypeOK, Stages
  <2>5. FrameDiscipline'
    <3>1. /\ depth' = depth + 1 /\ stage' = "X64" /\ phase' = "LOOP" /\ pending' = NoPending
          /\ frames' = [frames EXCEPT ![depth + 1] = frame]
          /\ active' = active /\ frames \in [1 .. 2 -> Frame]
      BY <1>3 DEF IInv, TypeOK
    <3>2. depth = 0 \/ depth = 1
      BY <2>0 DEF IInv, TypeOK
    <3>3. CASE depth = 0
      <4>1. frames'[1] = frame /\ frames'[2] = NoFrame /\ depth' = 1
        BY <3>1, <3>3 DEF IInv, FrameDiscipline
      <4>2. stage = "ARM"
        BY <3>3 DEF IInv, FrameDiscipline, ArmStages
      <4>3. frame.record + 1 = frame.resumeSp
        BY <2>0, <2>2 DEF word, IInv, TypeOK, Context, StackPointer
      <4>4. frame.resumeCallback = FALSE
        BY <4>2, <2>2
      <4> QED BY <4>1, <4>2, <4>3, <4>4, <3>1, <2>0, <2>1, <2>2, <1>1
           DEF FrameDiscipline, IInv, Top, word, TypeOK, Context, StackPointer
    <3>4. CASE depth = 1
      <4>1. frames'[1] = frames[1] /\ frames'[2] = frame /\ depth' = 2
        BY <3>1, <3>4
      <4>2. stage = "ARM_CALLBACK"
        BY <3>4 DEF IInv, FrameDiscipline, ArmStages
      <4> QED BY <4>1, <4>2, <3>1, <3>4, <2>0, <2>1, <2>2, <1>1
           DEF FrameDiscipline, IInv, Top, word, TypeOK, Context, StackPointer
    <3> QED BY <3>2, <3>3, <3>4
  <2>6. Resumable' /\ StoppedInArm'
    BY <2>0, <1>3, <2>2, <2>3 DEF IInv, TypeOK, Resumable, ContextValid, StoppedInArm, TopCookie, Top
  <2>7. NoStrayRecord'
    BY <1>3, <2>0, <2>1, <2>2 DEF IInv, TypeOK, NoStrayRecord
  <2>8. OldWords'
    BY <1>3, <2>0, <2>1, <2>2 DEF IInv, TypeOK, NoStrayRecord, OldWords
  <2> QED BY <2>4, <2>5, <2>6, <2>7, <2>8 DEF IInv
<1>4. generation \in 0 .. MaxCookie
  BY DEF IInv, TypeOK
<1> QED
  BY Zenon, <1>1, <1>2, <1>3, <1>4 DEF Push

\* generic_pop_x64.
LEMMA PopKeeps ==
    ASSUME IInv, NEW c \in Context, NEW memory \in [Word -> Value], NoStray(memory),
           Pop(c, memory),
           remaining' \in 0 .. MaxBudget, generation' \in 0 .. MaxCookie
    PROVE  IInv'
<1>1. CASE Invariant(c, memory)
  BY <1>1, InvariantKeeps
<1>2. CASE /\ depth # 0 /\ Top.written /\ c.sp = Top.record + 1
           /\ stack' = [memory EXCEPT ![Top.record] = Top.old]
           /\ frames' = [frames EXCEPT ![depth] = NoFrame]
           /\ depth' = depth - 1
           /\ context' = Returned(c)
           /\ stage' = IF Top.resumeCallback THEN "ARM_CALLBACK" ELSE "ARM"
           /\ phase' = "LOOP" /\ pending' = NoPending
           /\ UNCHANGED <<active, nativeReturn, leaked>>
  <2>1. /\ depth \in 1 .. 2 /\ frames \in [1 .. 2 -> Frame] /\ Top = frames[depth]
        /\ Top \in Frame /\ Top.record \in Word /\ Top.old \in Value
        /\ Top.resumePc \in Address /\ Top.resumeSp \in StackPointer
        /\ Top.priorSp \in StackPointer /\ Top.resumeCallback \in BOOLEAN
    BY <1>2 DEF IInv, TypeOK, Top, Frame
  <2>2. OuterCookie \in 0 .. MaxCookie
    BY CoordinatorAssumption DEF OuterCookie, IInv, TypeOK, Frame
  <2>3. context' \in Context /\ context'.isa = "ARM64EC" /\ context'.cookie = OuterCookie
    BY Zenon, <1>2, <2>1, <2>2 DEF Returned, Context
  <2>4. frames' \in [1 .. 2 -> Frame] /\ stack' \in [Word -> Value]
    BY <1>2, <2>1, EmptyTyped
  <2>5. depth' \in 0 .. 2 /\ stage' \in Stages
    BY <1>2, <2>1 DEF Stages
  <2>6. TypeOK'
    BY Zenon, <1>2, <2>3, <2>4, <2>5, EmptyTyped DEF IInv, TypeOK
  <2>7. /\ stack' = [memory EXCEPT ![Top.record] = Top.old] /\ depth' = depth - 1
        /\ frames' = [frames EXCEPT ![depth] = NoFrame] /\ active' = active
        /\ stage' = (IF Top.resumeCallback THEN "ARM_CALLBACK" ELSE "ARM")
        /\ phase' = "LOOP" /\ pending' = NoPending /\ leaked' = leaked
    BY <1>2
  <2>8. CASE depth = 1
    <3>1. depth' = 0 /\ frames'[1] = NoFrame /\ frames'[2] = NoFrame /\ stage' = "ARM" /\ active
      BY <2>1, <2>7, <2>8 DEF IInv, FrameDiscipline, TypeOK
    <3>2. FrameDiscipline' /\ StoppedInArm'
      BY <2>1, <2>7, <2>8, <3>1 DEF FrameDiscipline, StoppedInArm, IInv, TypeOK
    <3>3. Resumable'
      BY <2>8, <3>1, <2>3 DEF Resumable, ContextValid, TopCookie, OuterCookie
    <3>4. NoStrayRecord' /\ OldWords'
      BY <2>1, <2>7, <2>8, <3>1 DEF NoStray, NoStrayRecord, OldWords, IInv
    <3> QED BY <2>6, <3>2, <3>3, <3>4 DEF IInv
  <2>9. CASE depth = 2
    <3>1. /\ depth' = 1 /\ frames'[1] = frames[1] /\ frames'[2] = NoFrame
          /\ stage' = "ARM_CALLBACK" /\ active
      BY <2>1, <2>7, <2>9 DEF IInv, FrameDiscipline, TypeOK
    <3>2. FrameDiscipline' /\ StoppedInArm'
      BY <2>7, <2>9, <3>1 DEF FrameDiscipline, StoppedInArm, IInv, Top
    <3>3. Resumable'
      BY <2>9, <3>1, <2>3 DEF Resumable, ContextValid, TopCookie, Top, OuterCookie
    <3>4. NoStrayRecord' /\ OldWords'
      BY <2>1, <2>7, <2>9, <3>1 DEF NoStray, NoStrayRecord, OldWords, IInv
    <3> QED BY <2>6, <3>2, <3>3, <3>4 DEF IInv
  <2> QED BY <2>1, <2>8, <2>9
<1> QED
  BY Zenon, <1>1, <1>2 DEF Pop

\* generic_enter_callback, called in the x64 stage after an instruction that
\* leaves the cookie alone.
LEMMA EnterCallbackKeeps ==
    ASSUME IInv, stage = "X64", phase = "LOOP",
           NEW c \in Context, c.cookie = context.cookie,
           NEW memory \in [Word -> Value], NoStray(memory),
           NEW preSp \in StackPointer, NEW wasCall \in BOOLEAN,
           EnterCallback(c, memory, preSp, wasCall),
           remaining' \in 0 .. MaxBudget, generation' \in 0 .. MaxCookie
    PROVE  IInv'
<1> DEFINE target == Resolve[c.pc].va
           tail == c.sp = Top.record /\ c.sp < Words /\ memory[c.sp] = Sentinel
           accepted == /\ depth # 0 /\ Top.callback = "NONE"
                       /\ IF wasCall THEN c.sp = preSp - 1 ELSE tail
                       /\ Resolve[Thunk[target]].kind = "ARM"
           callerSp == IF wasCall THEN preSp ELSE c.sp + 1
           resumePc == IF wasCall THEN memory[c.sp] ELSE Sentinel
           entered == [Top EXCEPT !.callback = IF wasCall THEN "CALL" ELSE "TAIL",
                                  !.callbackPc = resumePc, !.callbackSp = callerSp,
                                  !.callbackPriorSp = c.originalSp]
<1>1. CASE Invariant(IF tail /\ ~wasCall THEN [c EXCEPT !.sp = @ + 1] ELSE c, memory)
  <2>1. (IF tail /\ ~wasCall THEN [c EXCEPT !.sp = @ + 1] ELSE c) \in Context
    BY CoordinatorAssumption DEF Context, StackPointer
  <2> HIDE DEF tail
  <2> QED BY <1>1, <2>1, InvariantKeeps
<1>2. CASE /\ accepted
           /\ frames' = [frames EXCEPT ![depth] =
                          [@ EXCEPT !.callback = IF wasCall THEN "CALL" ELSE "TAIL",
                                    !.callbackPc = resumePc, !.callbackSp = callerSp,
                                    !.callbackPriorSp = c.originalSp]]
           /\ context' = [c EXCEPT !.originalSp = callerSp,
                                  !.sp = Aligned(callerSp), !.pc = Resolve[Thunk[target]].va,
                                  !.isa = "ARM64EC"]
           /\ stage' = "ARM_CALLBACK"
           /\ stack' = memory
           /\ phase' = "LOOP"
           /\ UNCHANGED <<active, depth, nativeReturn, pending, leaked>>
  <2>1. /\ depth \in 1 .. 2 /\ frames \in [1 .. 2 -> Frame] /\ Top = frames[depth]
        /\ Top \in Frame /\ depth # 0
    BY <1>2 DEF IInv, TypeOK, Top
  <2>2. callerSp \in StackPointer /\ resumePc \in Address
    BY <1>2, CoordinatorAssumption, ValueIsAddress DEF Context, StackPointer, Word
  <2>3. Aligned(callerSp) \in StackPointer /\ Resolve[Thunk[target]].va \in Address
    BY <2>2, AlignedTyped, CoordinatorAssumption DEF Context
  <2> HIDE DEF callerSp, resumePc, target, tail
  <2>4. /\ context' \in Context /\ context'.isa = "ARM64EC" /\ context'.cookie = c.cookie
    BY Zenon, <1>2, <2>2, <2>3 DEF Context
  <2>5. /\ entered \in Frame /\ entered.cookie = Top.cookie /\ entered.written = Top.written
        /\ entered.record = Top.record /\ entered.old = Top.old
        /\ entered.resumeSp = Top.resumeSp /\ entered.resumeCallback = Top.resumeCallback
        /\ entered.callback = IF wasCall THEN "CALL" ELSE "TAIL"
    <3>1. c.originalSp \in StackPointer /\ (IF wasCall THEN "CALL" ELSE "TAIL") \in Callbacks
      BY DEF Context, Callbacks
    <3> QED BY Zenon, <3>1, <2>1, <2>2 DEF Frame
  <2>6. /\ frames' = [frames EXCEPT ![depth] = entered] /\ stage' = "ARM_CALLBACK"
        /\ stack' = memory /\ phase' = "LOOP" /\ active' = active /\ depth' = depth
        /\ nativeReturn' = nativeReturn /\ pending' = pending /\ leaked' = leaked
    BY <1>2, <2>1
  <2> HIDE DEF entered
  <2>7. frames' \in [1 .. 2 -> Frame] /\ stage' \in Stages
    BY <2>1, <2>5, <2>6 DEF Stages
  <2>8. TypeOK'
    BY Zenon, <2>4, <2>6, <2>7 DEF IInv, TypeOK
  <2>9. entered.callback # "NONE"
    BY <2>5
  <2>10. FrameDiscipline' /\ StoppedInArm'
    BY <2>1, <2>5, <2>6, <2>9 DEF IInv, FrameDiscipline, StoppedInArm, Top
  <2>11. Resumable'
    BY <2>1, <2>4, <2>5, <2>6 DEF IInv, Resumable, ContextValid, TopCookie, Top
  <2>12. NoStrayRecord' /\ OldWords'
    BY <2>1, <2>5, <2>6 DEF NoStray, NoStrayRecord, OldWords, IInv
  <2> QED BY <2>8, <2>10, <2>11, <2>12 DEF IInv
<1> QED
  BY Zenon, <1>1, <1>2 DEF EnterCallback

\* generic_finish_callback.
LEMMA FinishCallbackKeeps ==
    ASSUME IInv, FinishCallback, stage \in ArmStages,
           remaining' \in 0 .. MaxBudget, generation' \in 0 .. MaxCookie
    PROVE  IInv'
<1> DEFINE finished == [Top EXCEPT !.callback = "NONE", !.callbackPc = Sentinel,
                                   !.callbackSp = 0, !.callbackPriorSp = 0]
<1>0. NoStray(stack) /\ stack \in [Word -> Value] /\ context \in Context
  BY DEF IInv, NoStray, NoStrayRecord, TypeOK
<1>1. CASE Invariant(context, stack)
  BY <1>0, <1>1, InvariantKeeps
<1>2. CASE /\ depth # 0 /\ Top.callback = "CALL"
           /\ context' = [context EXCEPT !.pc = Top.callbackPc, !.sp = Top.callbackSp,
                                         !.originalSp = Top.callbackPriorSp, !.isa = "X64",
                                         !.cookie = Top.cookie]
           /\ frames' = [frames EXCEPT ![depth] =
                           [@ EXCEPT !.callback = "NONE", !.callbackPc = Sentinel,
                                     !.callbackSp = 0, !.callbackPriorSp = 0]]
           /\ stage' = "X64" /\ pending' = NoPending /\ phase' = "LOOP"
           /\ UNCHANGED <<active, depth, nativeReturn, stack, leaked>>
  <2>1. /\ depth \in 1 .. 2 /\ frames \in [1 .. 2 -> Frame] /\ Top = frames[depth]
        /\ Top \in Frame /\ depth # 0
        /\ Top.callbackPc \in Address /\ Top.callbackSp \in StackPointer
        /\ Top.callbackPriorSp \in StackPointer /\ Top.cookie \in 0 .. MaxCookie
    BY <1>2 DEF IInv, TypeOK, Top, Frame
  <2>2. /\ context' \in Context /\ context'.isa = "X64" /\ context'.cookie = Top.cookie
    BY Zenon, <1>0, <1>2, <2>1 DEF Context
  <2>3. /\ finished \in Frame /\ finished.cookie = Top.cookie
        /\ finished.written = Top.written
        /\ finished.record = Top.record /\ finished.old = Top.old
        /\ finished.resumeSp = Top.resumeSp /\ finished.resumeCallback = Top.resumeCallback
        /\ finished.callback = "NONE"
    <3>1. Sentinel \in Address /\ "NONE" \in Callbacks
      BY CoordinatorAssumption DEF Callbacks
    <3> QED BY Zenon, <3>1, <2>1, EmptyTyped DEF Frame
  <2>4. /\ frames' = [frames EXCEPT ![depth] = finished] /\ stage' = "X64"
        /\ stack' = stack /\ phase' = "LOOP" /\ active' = active /\ depth' = depth
        /\ nativeReturn' = nativeReturn /\ pending' = NoPending /\ leaked' = leaked
    BY <1>2, <2>1
  <2> HIDE DEF finished
  <2>5. frames' \in [1 .. 2 -> Frame] /\ stage' \in Stages
    BY <2>1, <2>3, <2>4 DEF Stages
  <2>6. TypeOK'
    BY Zenon, <2>2, <2>4, <2>5, EmptyTyped DEF IInv, TypeOK
  <2>7. FrameDiscipline' /\ StoppedInArm'
    BY <2>1, <2>3, <2>4 DEF IInv, FrameDiscipline, StoppedInArm, Top, ArmStages
  <2>8. Resumable'
    BY <2>1, <2>2, <2>3, <2>4 DEF IInv, Resumable, ContextValid, TopCookie, Top
  <2>9. NoStrayRecord' /\ OldWords'
    BY <2>1, <2>3, <2>4 DEF NoStrayRecord, OldWords, IInv
  <2> QED BY <2>6, <2>7, <2>8, <2>9 DEF IInv
<1>3. CASE depth # 0 /\ Pop([context EXCEPT !.sp = Top.record + 1], stack)
  <2>0. depth \in 1 .. 2 /\ Top.record \in Word
    BY <1>3 DEF IInv, TypeOK, Top, Frame
  <2>1. Top.record + 1 \in StackPointer
    BY <2>0, CoordinatorAssumption DEF Word, StackPointer
  <2>2. [context EXCEPT !.sp = Top.record + 1] \in Context
    BY Zenon, <1>0, <2>1 DEF Context
  <2> QED BY <1>0, <1>3, <2>2, PopKeeps
<1> QED
  BY Zenon, <1>1, <1>2, <1>3 DEF FinishCallback

\* An x64 instruction that leaves isa, cookie and original_x64_sp alone, and
\* what the coordinator does with its target.
LEMMA X64InstructionKeeps ==
    ASSUME IInv, NEW c \in Context, c.cookie = context.cookie, c.isa = context.isa,
           NEW memory \in [Word -> Value], NoStray(memory),
           NEW isCall \in BOOLEAN, NEW isRet \in BOOLEAN,
           X64Instruction(c, memory, isCall, isRet)
    PROVE  IInv'
<1>1. /\ remaining' \in 0 .. MaxBudget /\ generation' \in 0 .. MaxCookie
      /\ stage = "X64" /\ phase = "LOOP" /\ context \in Context /\ context.sp \in StackPointer
      /\ stack \in [Word -> Value] /\ NoStray(stack)
  BY CoordinatorAssumption
     DEF X64Instruction, LoopHead, IInv, TypeOK, NoStray, NoStrayRecord, Context
<1>2. CASE Invariant(context, stack) \/ Invariant(c, memory)
  BY <1>1, <1>2, InvariantKeeps
<1>3. CASE Pop(c, memory)
  BY <1>1, <1>3, PopKeeps
<1>4. CASE EnterCallback(c, memory, context.sp, isCall)
  BY <1>1, <1>4, EnterCallbackKeeps
<1>5. CASE context' = c /\ stack' = memory /\ phase' = "LOOP" /\ UNCHANGED <<sidecar, leaked>>
  <2>1. TypeOK'
    BY Zenon, <1>1, <1>5 DEF IInv, TypeOK, sidecar
  <2>2. FrameDiscipline' /\ StoppedInArm' /\ OldWords'
    BY <1>1, <1>5 DEF IInv, FrameDiscipline, StoppedInArm, OldWords, sidecar, Top
  <2>3. Resumable'
    BY <1>5 DEF IInv, Resumable, ContextValid, TopCookie, Top, sidecar
  <2>4. NoStrayRecord'
    BY <1>5 DEF NoStray, NoStrayRecord, sidecar
  <2> QED BY <2>1, <2>2, <2>3, <2>4 DEF IInv
<1> QED
  BY Zenon, <1>2, <1>3, <1>4, <1>5 DEF X64Instruction, X64Stepped

\* The x64 side.
LEMMA X64Keeps ==
    ASSUME IInv, X64
    PROVE  IInv'
<1>0. NoStray(stack) /\ stack \in [Word -> Value] /\ context \in Context
  BY DEF IInv, NoStray, NoStrayRecord, TypeOK
<1>1. CASE X64Stop
  BY <1>1, CoordinatorAssumption
     DEF X64Stop, Stop, LoopHead, IInv, TypeOK, FrameDiscipline, Resumable, StoppedInArm,
         NoStrayRecord, OldWords, sidecar, ContextValid, TopCookie, Top
<1>2. ASSUME NEW pc \in Address, NEW sp \in StackPointer, X64Jump(pc, sp)
      PROVE  IInv'
  <2> DEFINE c == [context EXCEPT !.pc = pc, !.sp = sp]
  <2>1. c \in Context /\ c.cookie = context.cookie /\ c.isa = context.isa
    BY Zenon, <1>0 DEF Context
  <2>2. X64Instruction(c, stack, FALSE, FALSE)
    BY <1>2 DEF X64Jump
  <2> HIDE DEF c
  <2> QED BY <1>0, <2>1, <2>2, X64InstructionKeeps
<1>3. ASSUME NEW pc \in Address, NEW next \in GuestValue, X64Call(pc, next)
      PROVE  IInv'
  <2> DEFINE c == [context EXCEPT !.pc = pc, !.sp = @ - 1]
             memory == [stack EXCEPT ![context.sp - 1] = next]
  <2>1. context.sp - 1 \in StackPointer /\ context.sp - 1 \in Word
    BY <1>0, <1>3, CoordinatorAssumption DEF X64Call, Context, StackPointer, Word
  <2>2. c \in Context /\ c.cookie = context.cookie /\ c.isa = context.isa
    BY Zenon, <1>0, <2>1 DEF Context
  <2>3. memory \in [Word -> Value] /\ NoStray(memory)
    BY <1>0, <2>1, CoordinatorAssumption, ValueIsAddress DEF NoStray
  <2>4. X64Instruction(c, memory, TRUE, FALSE)
    BY <1>3 DEF X64Call
  <2> HIDE DEF c, memory
  <2> QED BY <2>2, <2>3, <2>4, X64InstructionKeeps
<1>4. CASE X64Ret
  <2> DEFINE c == [context EXCEPT !.pc = stack[context.sp], !.sp = @ + 1]
  <2>1. context.sp + 1 \in StackPointer /\ stack[context.sp] \in Address
    BY <1>0, <1>4, CoordinatorAssumption, ValueIsAddress
       DEF X64Ret, Context, StackPointer, Word
  <2>2. c \in Context /\ c.cookie = context.cookie /\ c.isa = context.isa
    BY Zenon, <1>0, <2>1 DEF Context
  <2>3. X64Instruction(c, stack, FALSE, TRUE)
    BY <1>4 DEF X64Ret
  <2> HIDE DEF c
  <2> QED BY <1>0, <2>2, <2>3, X64InstructionKeeps
<1> QED
  BY Zenon, <1>1, <1>2, <1>3, <1>4 DEF X64

\* The engine stops for a transition.
LEMMA ArmTransitionKeeps ==
    ASSUME IInv, LoopHead(ArmStages),
           NEW retired \in 0 .. remaining, NEW sp \in StackPointer, NEW pc \in Address,
           NEW what \in Pending, ArmTransition(retired, sp, pc, what)
    PROVE  IInv'
<1>1. context' \in Context /\ context'.isa = context.isa /\ context'.cookie = context.cookie
  BY Zenon DEF ArmTransition, IInv, TypeOK, Context
<1>2. remaining' \in 0 .. MaxBudget
  BY CoordinatorAssumption DEF ArmTransition, IInv, TypeOK
<1>3. /\ pending' = what /\ phase' = "ARM_STOPPED"
      /\ UNCHANGED <<active, stage, depth, frames, nativeReturn, generation, stack, leaked>>
  BY DEF ArmTransition
<1>4. TypeOK'
  BY Zenon, <1>1, <1>2, <1>3 DEF IInv, TypeOK
<1>5. FrameDiscipline' /\ StoppedInArm' /\ NoStrayRecord' /\ OldWords'
  BY <1>3 DEF IInv, FrameDiscipline, StoppedInArm, NoStrayRecord, OldWords, Top, LoopHead
<1>6. Resumable'
  BY <1>1, <1>3 DEF IInv, Resumable, ContextValid, TopCookie, Top
<1> QED
  BY <1>4, <1>5, <1>6 DEF IInv

\* The ARM64EC side.
LEMMA ArmKeeps ==
    ASSUME IInv, Arm
    PROVE  IInv'
<1>0. context.pc \in Address /\ nativeReturn \in Address /\ Link \subseteq Address
  BY CoordinatorAssumption DEF IInv, TypeOK, Context
<1>1. CASE ArmStop
  BY <1>1, CoordinatorAssumption
     DEF ArmStop, Stop, LoopHead, IInv, TypeOK, FrameDiscipline, Resumable, StoppedInArm,
         NoStrayRecord, OldWords, sidecar, ContextValid, TopCookie, Top
<1>2. ASSUME NEW r \in 0 .. remaining, NEW sp \in StackPointer, NEW lr \in Address,
             ArmReturn(r, sp, lr)
      PROVE  IInv'
  <2>1. [NoPending EXCEPT !.kind = "CALLBACK_RETURN"] \in Pending
    BY EmptyTyped DEF Pending
  <2> QED BY <1>0, <1>2, <2>1, ArmTransitionKeeps DEF ArmReturn
<1>3. ASSUME NEW r \in 0 .. remaining, NEW sp \in StackPointer, ArmNativeReturn(r, sp)
      PROVE  IInv'
  <2>1. [NoPending EXCEPT !.kind = "NATIVE_RETURN"] \in Pending
    BY EmptyTyped DEF Pending
  <2>2. LoopHead(ArmStages)
    BY <1>3 DEF ArmNativeReturn, LoopHead, ArmStages
  <2> QED BY <1>0, <1>3, <2>1, <2>2, ArmTransitionKeeps DEF ArmNativeReturn
<1>4. ASSUME NEW r \in 0 .. remaining, NEW sp \in StackPointer, NEW lr \in Link,
             NEW t \in Address, ArmDispatch(r, sp, lr, t)
      PROVE  IInv'
  <2>1. [kind |-> "DISPATCH", target |-> Resolve[t].va, resumePc |-> lr, resumeSp |-> sp]
           \in Pending
    BY <1>0, CoordinatorAssumption DEF Pending
  <2> QED BY <1>0, <1>4, <2>1, ArmTransitionKeeps DEF ArmDispatch
<1>5. ASSUME NEW r \in 0 .. remaining, NEW sp \in StackPointer, NEW lr \in Link,
             NEW t \in Address, ArmEdge(r, sp, lr, t)
      PROVE  IInv'
  <2>1. [NoPending EXCEPT !.resumePc = lr] \in Pending
    BY <1>0, EmptyTyped DEF Pending
  <2> QED BY <1>5, <2>1, ArmTransitionKeeps DEF ArmEdge
<1> QED
  BY Zenon, <1>1, <1>2, <1>3, <1>4, <1>5 DEF Arm

\* What the loop does with a transition.
LEMMA TransitionKeeps ==
    ASSUME IInv, Transition
    PROVE  IInv'
<1>1. /\ stage \in ArmStages /\ remaining' \in 0 .. MaxBudget
      /\ pending.target \in Address /\ pending.resumePc \in Address
      /\ pending.resumeSp \in StackPointer
      /\ context \in Context /\ context.pc \in Address /\ context.sp \in StackPointer
      /\ generation \in 0 .. MaxCookie
  BY DEF Transition, IInv, TypeOK, StoppedInArm, Pending, Context
<1>2. CASE /\ ClearSidecar
           /\ Stop([context EXCEPT !.cookie = 0, !.isa = "ARM64EC"])
           /\ depth = 0
           /\ UNCHANGED <<generation, stack, leaked>>
  <2>1. 0 \in 0 .. MaxCookie
    BY CoordinatorAssumption
  <2>2. context' \in Context /\ phase' = "HOST"
    BY Zenon, <1>1, <1>2, <2>1 DEF Stop, Context
  <2>3. frames' \in [1 .. 2 -> Frame] /\ depth' \in 0 .. 2
    BY <1>2, EmptyTyped DEF ClearSidecar
  <2>4. /\ active' \in BOOLEAN /\ stage' \in Stages /\ nativeReturn' \in Address
        /\ pending' \in Pending
    BY <1>2, EmptyTyped, CoordinatorAssumption DEF ClearSidecar, Stages
  <2>5. TypeOK'
    BY Zenon, <1>1, <1>2, <2>2, <2>3, <2>4 DEF IInv, TypeOK
  <2>6. ClearSidecar /\ depth = 0 /\ UNCHANGED <<stack, leaked>>
    BY <1>2
  <2>7. FrameDiscipline' /\ Resumable' /\ StoppedInArm'
    BY <2>2, <2>6 DEF FrameDiscipline, Resumable, StoppedInArm, ClearSidecar
  <2>8. NoStrayRecord' /\ OldWords'
    BY <2>6 DEF IInv, NoStrayRecord, OldWords, ClearSidecar
  <2> QED BY <2>5, <2>7, <2>8 DEF IInv
<1>3. CASE FinishCallback /\ UNCHANGED generation
  BY <1>1, <1>3, FinishCallbackKeeps
<1>4. CASE Push(pending.target, pending.resumePc, pending.resumeSp)
  BY <1>1, <1>4, PushKeeps
<1>5. CASE Push(context.pc, pending.resumePc, context.sp)
  BY <1>1, <1>5, PushKeeps
<1> QED
  BY Zenon, <1>2, <1>3, <1>4, <1>5 DEF Transition

\* gem_hybrid_runtime_run accepts a context.
LEMMA RunKeeps ==
    ASSUME IInv, NEW budget \in 1 .. MaxBudget, NEW lr \in Link,
           NEW c \in ResumedContext \cup FreshContext, Run(c, lr, budget)
    PROVE  IInv'
<1>1. c \in Context
  <2>1. CASE c \in ResumedContext
    BY <2>1 DEF ResumedContext, IInv, TypeOK, Context
  <2>2. CASE c \in FreshContext
    BY <2>2, CoordinatorAssumption DEF FreshContext, Context, StackPointer
  <2> QED BY <2>1, <2>2
<1>2. /\ remaining' \in 0 .. MaxBudget /\ phase' = "LOOP"
      /\ UNCHANGED <<generation, stack, leaked>>
  BY CoordinatorAssumption DEF Run
<1>3. CASE active /\ context' = c /\ UNCHANGED sidecar
  <2>1. TypeOK'
    BY Zenon, <1>1, <1>2, <1>3 DEF IInv, TypeOK, sidecar
  <2>2. pending = NoPending
    BY DEF Run, IInv, FrameDiscipline
  <2>3. FrameDiscipline' /\ StoppedInArm' /\ NoStrayRecord' /\ OldWords'
    BY <1>2, <1>3, <2>2
       DEF IInv, FrameDiscipline, StoppedInArm, NoStrayRecord, OldWords, Top, sidecar
  <2>4. Resumable'
    BY <1>3 DEF Run, Accepted, Resumable, ContextValid, TopCookie, Top, sidecar
  <2> QED BY <2>1, <2>3, <2>4 DEF IInv
<1>4. CASE /\ ~active
           /\ context' = [c EXCEPT !.pc = Resolve[c.pc].va]
           /\ active' = TRUE /\ stage' = "ARM" /\ depth' = 0
           /\ frames' = [d \in 1 .. 2 |-> NoFrame]
           /\ nativeReturn' = (IF SvcTrap THEN HostReturn ELSE lr)
           /\ pending' = NoPending
  <2>1. context' \in Context /\ context'.cookie = 0 /\ context'.isa = "ARM64EC"
    BY <1>1, <1>4, CoordinatorAssumption DEF Run, Accepted, MayBegin, Context
  <2>2. frames' \in [1 .. 2 -> Frame] /\ depth' \in 0 .. 2 /\ stage' \in Stages
    BY <1>4, EmptyTyped DEF Stages
  <2>3. nativeReturn' \in Address /\ pending' \in Pending /\ active' \in BOOLEAN
    BY <1>4, EmptyTyped, CoordinatorAssumption
  <2>4. TypeOK'
    BY Zenon, <1>2, <2>1, <2>2, <2>3 DEF IInv, TypeOK
  <2>5. depth = 0
    BY <1>4 DEF IInv, FrameDiscipline
  <2>6. FrameDiscipline' /\ StoppedInArm'
    BY <1>2, <1>4 DEF FrameDiscipline, StoppedInArm
  <2>7. NoStrayRecord' /\ OldWords'
    BY <1>2, <1>4, <2>5 DEF IInv, NoStrayRecord, OldWords
  <2>8. Resumable'
    BY <1>4, <2>1 DEF Resumable, ContextValid, TopCookie
  <2> QED BY <2>4, <2>6, <2>7, <2>8 DEF IInv
<1> QED
  BY Zenon, <1>3, <1>4 DEF Run

\* Every step keeps the inductive invariant.
LEMMA IInvInductive == IInv /\ [Next]_vars => IInv'
<1> SUFFICES ASSUME IInv, [Next]_vars PROVE IInv'
  OBVIOUS
<1>1. ASSUME NEW budget \in 1 .. MaxBudget, NEW lr \in Link,
             NEW c \in ResumedContext \cup FreshContext, Run(c, lr, budget)
      PROVE  IInv'
  BY <1>1, RunKeeps
<1>2. CASE AsyncStop
  BY <1>2, CoordinatorAssumption
     DEF AsyncStop, Stop, IInv, TypeOK, FrameDiscipline, Resumable, StoppedInArm,
         NoStrayRecord, OldWords, sidecar, ContextValid, TopCookie, Top
<1>3. CASE BudgetStop
  BY <1>3
     DEF BudgetStop, Stop, IInv, TypeOK, FrameDiscipline, Resumable, StoppedInArm,
         NoStrayRecord, OldWords, sidecar, ContextValid, TopCookie, Top
<1>4. CASE Arm
  BY <1>4, ArmKeeps
<1>5. CASE Transition
  BY <1>5, TransitionKeeps
<1>6. CASE X64
  BY <1>6, X64Keeps
<1>7. ASSUME NEW w \in Word, NEW d \in GuestValue, GuestStore(w, d)
      PROVE  IInv'
  <2>1. d # Sentinel /\ d \in Value
    BY CoordinatorAssumption, ValueIsAddress
  <2>2. stack' \in [Word -> Value]
    BY <1>7, <2>1 DEF GuestStore, IInv, TypeOK
  <2>3. TypeOK'
    BY Zenon, <1>7, <2>2 DEF GuestStore, sidecar, IInv, TypeOK
  <2>4. FrameDiscipline' /\ Resumable' /\ StoppedInArm' /\ OldWords'
    BY <1>7 DEF GuestStore, IInv, FrameDiscipline, Resumable, StoppedInArm, OldWords,
                sidecar, ContextValid, TopCookie, Top
  <2>5. NoStrayRecord'
    BY <1>7, <2>1 DEF GuestStore, IInv, TypeOK, NoStrayRecord, sidecar
  <2> QED BY <2>3, <2>4, <2>5 DEF IInv
<1>8. CASE UNCHANGED vars
  BY <1>8 DEF vars, IInv, TypeOK, FrameDiscipline, Resumable, StoppedInArm, NoStrayRecord,
              OldWords, ContextValid, TopCookie, Top
<1> QED
  BY Zenon, <1>1, <1>2, <1>3, <1>4, <1>5, <1>6, <1>7, <1>8 DEF Next, Step

\* The initial state.
LEMMA IInvInitially == Init => IInv
<1> SUFFICES ASSUME Init PROVE IInv
  OBVIOUS
<1>1. context \in Context
  BY CoordinatorAssumption DEF Init, Context, StackPointer
<1>2. stack \in [Word -> Value] /\ \A w \in Word : stack[w] # Sentinel
  BY CoordinatorAssumption, ValueIsAddress DEF Init
<1>3. TypeOK
  <2>1. frames \in [1 .. 2 -> Frame] /\ depth \in 0 .. 2 /\ stage \in Stages
    BY EmptyTyped DEF Init, Stages
  <2>2. generation \in 0 .. MaxCookie /\ remaining \in 0 .. MaxBudget
    BY CoordinatorAssumption DEF Init
  <2>3. active \in BOOLEAN /\ leaked \in BOOLEAN /\ nativeReturn \in Address /\ pending \in Pending
    BY EmptyTyped, CoordinatorAssumption DEF Init
  <2>4. phase \in {"HOST", "LOOP", "ARM_STOPPED"}
    BY DEF Init
  <2> QED BY Zenon, <1>1, <1>2, <2>1, <2>2, <2>3, <2>4 DEF TypeOK
<1>4. FrameDiscipline /\ Resumable /\ StoppedInArm /\ OldWords
  BY DEF Init, FrameDiscipline, Resumable, StoppedInArm, OldWords
<1> QED
  BY <1>2, <1>3, <1>4 DEF IInv, NoStrayRecord

\* Spec keeps the inductive invariant.
LEMMA Inductive == Spec => []IInv
BY IInvInitially, IInvInductive, PTL DEF Spec

-----------------------------------------------------------------------------
(* The theorems.                                                            *)

\* Every variable of gem_hybrid_runtime keeps its type.
THEOREM TypeCorrect == Spec => []TypeOK
<1>1. IInv => TypeOK
  BY DEF IInv
<1> QED
  BY <1>1, Inductive, PTL

\* Stage, depth, frames and pending request agree in every reachable state of
\* the coordinator (hybrid_generic_state).
THEOREM FramesDisciplined == Spec => []FrameDiscipline
<1>1. IInv => FrameDiscipline
  BY DEF IInv
<1> QED
  BY <1>1, Inductive, PTL

\* The context gem_hybrid_runtime_run hands out while a thread is active is one
\* generic_context_valid accepts.
THEOREM AlwaysResumable == Spec => []Resumable
<1>1. IInv => Resumable
  BY DEF IInv
<1> QED
  BY <1>1, Inductive, PTL

\* No return record stays behind in guest memory unless the transaction of
\* generic_restore_records that should have removed it failed.
THEOREM RecordsTakenBack == Spec => []NoStrayRecord
<1>1. IInv => NoStrayRecord
  BY DEF IInv
<1> QED
  BY <1>1, Inductive, PTL

-----------------------------------------------------------------------------
(* Termination of a run.                                                    *)

\* What RunTerminates says of a step.
Progress ==
    phase # "HOST" /\ phase' # "HOST"
        => \/ remaining' < remaining
           \/ remaining' = remaining /\ Rank' < Rank

\* A step of the ARM64EC side stops the run or uses budget or lowers the rank.
LEMMA ArmProgress ==
    ASSUME IInv, Arm
    PROVE  Progress
<1>1. CASE ArmStop
  BY <1>1 DEF ArmStop, Stop, Progress
<1>2. ASSUME NEW r \in 0 .. remaining, NEW sp, NEW pc, NEW what,
             phase = "LOOP", stage \in ArmStages, ArmTransition(r, sp, pc, what)
      PROVE  Progress
  <2>1. /\ remaining' = remaining - r /\ phase' = "ARM_STOPPED"
        /\ stage' = stage /\ depth' = depth /\ depth \in 0 .. 2 /\ remaining \in Nat
    BY <1>2, CoordinatorAssumption DEF ArmTransition, IInv, TypeOK
  <2> QED BY <1>2, <2>1 DEF Progress, Rank, ArmStages
<1> QED
  BY Zenon, <1>1, <1>2
     DEF Arm, ArmReturn, ArmNativeReturn, ArmDispatch, ArmEdge, LoopHead, ArmStages

\* generic_pop_x64 at the end of a tail callback lowers the rank.
LEMMA TransitionProgress ==
    ASSUME IInv, Transition
    PROVE  Progress
<1>1. /\ stage \in ArmStages /\ phase = "ARM_STOPPED" /\ remaining' = remaining
      /\ depth \in 0 .. 2 /\ frames \in [1 .. 2 -> Frame]
  BY DEF Transition, IInv, TypeOK, StoppedInArm
<1>2. CASE phase' = "HOST"
  BY <1>2 DEF Progress
<1>3. CASE stage' = "X64"
  BY <1>1, <1>3 DEF Progress, Rank, ArmStages
<1>4. CASE /\ depth' = depth - 1 /\ phase' = "LOOP"
           /\ stage' = IF Top.resumeCallback THEN "ARM_CALLBACK" ELSE "ARM"
  BY <1>1, <1>4 DEF Progress, Rank, ArmStages
<1> QED
  BY Zenon, <1>2, <1>3, <1>4 DEF Transition, FinishCallback, Push, Pop, Invariant, Stop

\* An x64 instruction uses budget.
LEMMA X64Progress ==
    ASSUME IInv, X64
    PROVE  Progress
<1>1. CASE X64Stop
  BY <1>1 DEF X64Stop, Stop, Progress
<1>2. CASE remaining' = remaining - 1
  BY <1>2, CoordinatorAssumption DEF IInv, TypeOK, Progress
<1> QED
  BY Zenon, <1>1, <1>2 DEF X64, X64Jump, X64Call, X64Ret, X64Instruction

\* Every accepted call of gem_hybrid_runtime_run returns: each of its steps
\* uses budget or lowers the rank, both of which are natural numbers.
THEOREM RunsTerminate == Spec => RunTerminates
<1>1. IInv /\ [Next]_vars => [Progress]_<<sidecar, context, phase, remaining>>
  <2> SUFFICES ASSUME IInv, [Next]_vars
               PROVE  Progress \/ UNCHANGED <<sidecar, context, phase, remaining>>
    OBVIOUS
  <2>1. CASE \E budget \in 1 .. MaxBudget, lr \in Link,
                c \in ResumedContext \cup FreshContext : Run(c, lr, budget)
    BY <2>1 DEF Run, Progress
  <2>2. CASE AsyncStop \/ BudgetStop
    BY <2>2 DEF AsyncStop, BudgetStop, Stop, Progress
  <2>3. CASE Arm \/ Transition \/ X64
    BY <2>3, ArmProgress, TransitionProgress, X64Progress
  <2>4. CASE \E w \in Word, d \in GuestValue : GuestStore(w, d)
    BY <2>4 DEF GuestStore
  <2>5. CASE UNCHANGED vars
    BY <2>5 DEF vars, sidecar
  <2> QED
    BY <2>1, <2>2, <2>3, <2>4, <2>5 DEF Next, Step
<1> QED
  BY <1>1, Inductive, PTL DEF Spec, RunTerminates, Progress

-----------------------------------------------------------------------------
(* The sidecar implements a stack of calls.                                 *)

\* The continuations of frame f.
Caller(f) == [isa |-> "ARM64EC", pc |-> f.resumePc, sp |-> f.resumeSp, originalSp |-> f.priorSp]
Callback(f) == [isa |-> "X64", pc |-> f.callbackPc, sp |-> f.callbackSp,
                originalSp |-> f.callbackPriorSp]
CallbackPart(f) == IF f.callback = "CALL" THEN <<Callback(f)>> ELSE <<>>

\* Continuations as a function of depth and frames.
StackOf(d, f) ==
    CASE d = 0 -> <<>>
      [] d = 1 -> <<Caller(f[1])>> \o CallbackPart(f[1])
      [] d = 2 -> ((<<Caller(f[1])>> \o CallbackPart(f[1])) \o <<Caller(f[2])>>)
                     \o CallbackPart(f[2])

Continuation == CallStack!Continuation

\* The two readings of the sidecar agree.
LEMMA ContinuationsAre ==
    Continuations = StackOf(depth, frames) /\ Continuations' = StackOf(depth', frames')
BY DEF Continuations, StackOf, Caller, Callback, CallbackPart

\* The continuations of a typed frame are typed.
LEMMA FrameContinuations ==
    ASSUME NEW f \in Frame
    PROVE  /\ Caller(f) \in Continuation /\ Callback(f) \in Continuation
           /\ CallbackPart(f) \in Seq(Continuation)
           /\ <<Caller(f)>> \in Seq(Continuation)
<1>1. Caller(f) \in Continuation /\ Callback(f) \in Continuation
  BY DEF Caller, Callback, Frame, Continuation, CallStack!Continuation, CallStack!ISA
<1> HIDE DEF Continuation
<1> QED
  BY <1>1 DEF CallbackPart

\* The stack of a typed sidecar is a sequence of continuations.
LEMMA StackTyped ==
    ASSUME NEW d \in 0 .. 2, NEW f \in [1 .. 2 -> Frame]
    PROVE  StackOf(d, f) \in Seq(Continuation)
<1>1. /\ CallbackPart(f[1]) \in Seq(Continuation) /\ <<Caller(f[1])>> \in Seq(Continuation)
      /\ CallbackPart(f[2]) \in Seq(Continuation) /\ <<Caller(f[2])>> \in Seq(Continuation)
  BY FrameContinuations
<1>2. <<Caller(f[1])>> \o CallbackPart(f[1]) \in Seq(Continuation)
  BY <1>1, ConcatProperties
<1>3. (<<Caller(f[1])>> \o CallbackPart(f[1])) \o <<Caller(f[2])>> \in Seq(Continuation)
  BY <1>1, <1>2, ConcatProperties
<1>4. ((<<Caller(f[1])>> \o CallbackPart(f[1])) \o <<Caller(f[2])>>) \o CallbackPart(f[2])
         \in Seq(Continuation)
  BY <1>1, <1>3, ConcatProperties
<1>5. <<>> \in Seq(Continuation)
  OBVIOUS
<1>6. d = 0 \/ d = 1 \/ d = 2
  OBVIOUS
<1>7. CASE d = 0
  BY <1>5, <1>7 DEF StackOf
<1>8. CASE d = 1
  BY <1>2, <1>8 DEF StackOf
<1>9. CASE d = 2
  BY <1>4, <1>9 DEF StackOf
<1> QED
  BY <1>6, <1>7, <1>8, <1>9

\* A frame without a CALL callback on top is one more continuation than the
\* frames below it.
LEMMA FrameOnTop ==
    ASSUME NEW d \in 0 .. 1, NEW f \in [1 .. 2 -> Frame], NEW g \in [1 .. 2 -> Frame],
           d = 1 => f[1] = g[1], g[d + 1].callback # "CALL"
    PROVE  StackOf(d + 1, g) = Append(StackOf(d, f), Caller(g[d + 1]))
<1>1. Caller(g[d + 1]) \in Continuation /\ <<Caller(g[d + 1])>> \in Seq(Continuation)
  BY FrameContinuations
<1>2. CallbackPart(g[d + 1]) = <<>>
  BY DEF CallbackPart
<1>3. CASE d = 0
  <2>0. d + 1 = 1 /\ CallbackPart(g[1]) = <<>>
    BY <1>2, <1>3
  <2>1. StackOf(1, g) = <<Caller(g[1])>> \o <<>>
    BY <2>0 DEF StackOf
  <2>2. StackOf(1, g) = <<Caller(g[1])>>
    BY <2>1, <1>1, <1>3, ConcatEmptySeq
  <2>3. StackOf(0, f) = <<>>
    BY DEF StackOf
  <2>4. <<>> \in Seq(Continuation) /\ <<>> \o <<Caller(g[1])>> = <<Caller(g[1])>>
    BY <1>1, <2>0, ConcatEmptySeq
  <2>5. Append(<<>>, Caller(g[1])) = <<Caller(g[1])>>
    BY <1>1, <2>0, <2>4, AppendIsConcat
  <2> QED BY <1>3, <2>0, <2>2, <2>3, <2>5
<1>4. CASE d = 1
  <2>1. StackOf(2, g) = (StackOf(1, f) \o <<Caller(g[2])>>) \o <<>>
    BY <1>2, <1>4 DEF StackOf
  <2>2. StackOf(1, f) \in Seq(Continuation)
    BY StackTyped
  <2>3. StackOf(1, f) \o <<Caller(g[2])>> \in Seq(Continuation)
    BY <1>1, <1>4, <2>2, ConcatProperties
  <2>4. StackOf(2, g) = StackOf(1, f) \o <<Caller(g[2])>>
    BY <2>1, <2>3, ConcatEmptySeq
  <2> QED BY <1>1, <1>4, <2>2, <2>4, AppendIsConcat
<1> QED
  BY <1>3, <1>4

\* A CALL callback on the top frame is one more continuation.
LEMMA CallbackOnTop ==
    ASSUME NEW d \in 1 .. 2, NEW f \in [1 .. 2 -> Frame], NEW g \in [1 .. 2 -> Frame],
           d = 2 => f[1] = g[1], Caller(f[d]) = Caller(g[d]),
           f[d].callback # "CALL", g[d].callback = "CALL"
    PROVE  StackOf(d, g) = Append(StackOf(d, f), Callback(g[d]))
<1>1. Callback(g[d]) \in Continuation /\ <<Caller(g[d])>> \in Seq(Continuation)
  BY FrameContinuations
<1>2. CallbackPart(g[d]) = <<Callback(g[d])>> /\ CallbackPart(f[d]) = <<>>
  BY DEF CallbackPart
<1>3. StackOf(d, f) \in Seq(Continuation)
  BY StackTyped
<1>4. StackOf(d, g) = StackOf(d, f) \o <<Callback(g[d])>>
  <2>1. CASE d = 1
    <3>1. StackOf(1, g) = <<Caller(g[1])>> \o <<Callback(g[1])>>
      BY <1>2, <2>1 DEF StackOf
    <3>2. StackOf(1, f) = <<Caller(g[1])>> \o <<>>
      BY <1>2, <2>1 DEF StackOf
    <3>3. StackOf(1, f) = <<Caller(g[1])>>
      BY <1>1, <2>1, <3>2, ConcatEmptySeq
    <3> QED BY <2>1, <3>1, <3>3
  <2>2. CASE d = 2
    <3> DEFINE low == (<<Caller(g[1])>> \o CallbackPart(g[1])) \o <<Caller(g[2])>>
    <3>0. /\ f[1] = g[1] /\ Caller(f[2]) = Caller(g[2])
          /\ CallbackPart(g[2]) = <<Callback(g[2])>> /\ CallbackPart(f[2]) = <<>>
      BY <1>2, <2>2
    <3>1. StackOf(2, g) = low \o <<Callback(g[2])>> /\ StackOf(2, f) = low \o <<>>
      BY <3>0 DEF StackOf
    <3>2. low \in Seq(Continuation)
      <4>1. CallbackPart(g[1]) \in Seq(Continuation) /\ <<Caller(g[1])>> \in Seq(Continuation)
        BY FrameContinuations
      <4>2. <<Caller(g[1])>> \o CallbackPart(g[1]) \in Seq(Continuation)
        BY <4>1, ConcatProperties
      <4> QED BY <1>1, <2>2, <4>2, ConcatProperties
    <3> HIDE DEF low
    <3>3. StackOf(2, f) = low
      BY <3>1, <3>2, ConcatEmptySeq
    <3> QED BY <2>2, <3>1, <3>3
  <2> QED BY <2>1, <2>2
<1> QED
  BY <1>1, <1>3, <1>4, AppendIsConcat

\* Appending a continuation that saves the running code's architecture and
\* original_x64_sp is a call of the abstract stack.
LEMMA AbstractCall ==
    ASSUME Continuations \in Seq(Continuation), NEW c \in Continuation,
           Continuations' = Append(Continuations, c),
           c.isa = context.isa, c.originalSp = context.originalSp, context'.isa # context.isa
    PROVE  CallStack!Next
<1>1. Continuations'[Len(Continuations')] = c
  BY AppendProperties
<1>2. Len(Continuations') = Len(Continuations) + 1
  BY AppendProperties
<1>3. c \in CallStack!Continuation
  BY DEF Continuation
<1> QED
  BY Zenon, <1>1, <1>2, <1>3 DEF CallStack!Next, CallStack!Call

\* Removing the last continuation and resuming it is a return.
LEMMA AbstractReturn ==
    ASSUME Continuations' \in Seq(Continuation), NEW c \in Continuation,
           Continuations = Append(Continuations', c),
           context'.isa = c.isa, context'.pc = c.pc, context'.sp = c.sp,
           context'.originalSp = c.originalSp
    PROVE  CallStack!Next
<1> DEFINE old == Continuations
           new == Continuations'
<1>1. old # <<>> /\ old[Len(old)] = c /\ Len(old) = Len(new) + 1 /\ old \in Seq(Continuation)
  BY AppendProperties
<1>2. SubSeq(old, 1, Len(old) - 1) = new
  <2>1. Len(new) \in Nat /\ Len(old) - 1 = Len(new)
    BY <1>1, LenProperties
  <2>2. \A i \in 1 .. Len(new) : old[i] = new[i] /\ new[i] \in Continuation
    BY AppendProperties, ElementOfSeq
  <2> HIDE DEF old, new
  <2>3. /\ SubSeq(old, 1, Len(new)) \in Seq(Continuation)
        /\ Len(SubSeq(old, 1, Len(new))) = Len(new)
        /\ \A i \in 1 .. Len(new) : SubSeq(old, 1, Len(new))[i] = old[i]
    BY <2>1, <2>2, SubSeqProperties
  <2>4. new \in Seq(Continuation)
    BY DEF new
  <2>5. SubSeq(old, 1, Len(new)) = new
    BY <2>2, <2>3, <2>4, SeqEqual
  <2> QED BY <2>1, <2>5
<1> QED
  BY Zenon, <1>1, <1>2 DEF CallStack!Next, CallStack!Return

\* A failed transition, the native return and a fresh start abandon everything.
LEMMA AbstractAbandon ==
    ASSUME context'.isa = "ARM64EC", depth' = 0
    PROVE  CallStack!Next
<1>1. Continuations' = <<>>
  BY ContinuationsAre DEF StackOf
<1> QED
  BY <1>1 DEF CallStack!Next, CallStack!Abandon

\* generic_invariant abandons.
LEMMA InvariantAbandons ==
    ASSUME NEW c \in Context, NEW memory, Invariant(c, memory)
    PROVE  CallStack!Next
<1>1. depth' = 0 /\ context' = [c EXCEPT !.cookie = 0, !.isa = "ARM64EC"]
  BY DEF Invariant, ClearSidecar, Stop
<1>2. context'.isa = "ARM64EC"
  BY Zenon, <1>1 DEF Context
<1> QED
  BY <1>1, <1>2, AbstractAbandon

\* generic_push_x64 calls.
LEMMA PushCalls ==
    ASSUME IInv, NEW target \in Address, NEW resumePc \in Address,
           NEW resumeSp \in StackPointer, stage \in ArmStages,
           Push(target, resumePc, resumeSp), IInv'
    PROVE  CallStack!Next
<1> DEFINE word == context.sp - 1
           parentMissing == stage = "ARM_CALLBACK" /\ (depth = 0 \/ Top.callback = "NONE")
           rejected == \/ depth >= 2 \/ context.sp < 1 \/ context.sp # resumeSp
                       \/ Resolve[target].kind # "X64" \/ parentMissing
           frame == [NoFrame EXCEPT
                    !.cookie = NextCookie, !.resumePc = resumePc, !.resumeSp = resumeSp,
                    !.priorSp = context.originalSp, !.record = word, !.old = stack[word],
                    !.written = TRUE, !.resumeCallback = stage = "ARM_CALLBACK"]
<1>1. CASE Invariant(context, stack)
  BY <1>1, InvariantAbandons DEF IInv, TypeOK
<1>2. CASE /\ ~rejected
           /\ frames' = [frames EXCEPT ![depth + 1] = frame]
           /\ depth' = depth + 1
           /\ context' = [context EXCEPT !.sp = word, !.pc = Resolve[target].va,
                                         !.isa = "X64", !.cookie = NextCookie]
  <2>1. depth \in 0 .. 1 /\ frames \in [1 .. 2 -> Frame] /\ context \in Context
    BY <1>2 DEF IInv, TypeOK
  <2>2. frame.priorSp = context.originalSp /\ frame.callback = "NONE"
    BY Zenon DEF NoFrame
  <2>3. context'.isa = "X64" /\ context.isa = "ARM64EC"
    <3>1. context'.isa = "X64"
      BY Zenon, <1>2, <2>1 DEF Context
    <3>2. context.isa = "ARM64EC"
      BY DEF IInv, FrameDiscipline, Resumable, ContextValid, ArmStages
    <3> QED BY <3>1, <3>2
  <2>4. frames' = [frames EXCEPT ![depth + 1] = frame] /\ depth' = depth + 1
    BY <1>2
  <2> HIDE DEF frame, rejected
  <2>5. frames' \in [1 .. 2 -> Frame] /\ frames'[depth + 1] = frame /\ (depth = 1 => frames[1] = frames'[1])
    BY <2>1, <2>4 DEF IInv, TypeOK
  <2>6. frame \in Frame
    BY <2>1, <2>5
  <2>7. StackOf(depth + 1, frames') = Append(StackOf(depth, frames), Caller(frame))
    BY <2>1, <2>2, <2>5, FrameOnTop
  <2>8. Caller(frame) \in Continuation
    BY <2>6, FrameContinuations
  <2>9. Caller(frame).isa = "ARM64EC" /\ Caller(frame).originalSp = frame.priorSp
    BY DEF Caller
  <2>10. StackOf(depth, frames) \in Seq(Continuation)
    BY <2>1, StackTyped
  <2>11. Continuations' = Append(Continuations, Caller(frame)) /\ Continuations \in Seq(Continuation)
    BY <2>4, <2>7, <2>10, ContinuationsAre
  <2> QED BY <2>2, <2>3, <2>8, <2>9, <2>11, AbstractCall
<1> QED
  BY Zenon, <1>1, <1>2 DEF Push

\* generic_pop_x64 returns, when the top frame has no CALL callback left.
LEMMA PopReturns ==
    ASSUME IInv, IInv', NEW c \in Context, NEW memory, Pop(c, memory),
           depth # 0 => Top.callback # "CALL"
    PROVE  CallStack!Next
<1>1. CASE Invariant(c, memory)
  BY <1>1, InvariantAbandons
<1>2. CASE /\ depth # 0
           /\ frames' = [frames EXCEPT ![depth] = NoFrame]
           /\ depth' = depth - 1
           /\ context' = Returned(c)
  <2>1. /\ depth - 1 \in 0 .. 1 /\ depth' = depth - 1 /\ depth = (depth - 1) + 1
        /\ frames \in [1 .. 2 -> Frame] /\ frames' \in [1 .. 2 -> Frame]
        /\ depth - 1 = 1 => frames'[1] = frames[1]
        /\ frames[depth].callback # "CALL" /\ Top = frames[depth] /\ Top \in Frame
    BY <1>2 DEF IInv, TypeOK, Top
  <2>2. /\ context'.isa = "ARM64EC" /\ context'.pc = Top.resumePc
        /\ context'.sp = Top.resumeSp /\ context'.originalSp = Top.priorSp
    BY Zenon, <1>2 DEF Returned, Context
  <2>3. StackOf(depth, frames) = Append(StackOf(depth - 1, frames'), Caller(Top))
    BY <2>1, FrameOnTop
  <2>4. Continuations = Append(Continuations', Caller(Top))
    BY <2>1, <2>3, ContinuationsAre
  <2>5. Continuations' \in Seq(Continuation)
    BY <2>1, StackTyped, ContinuationsAre
  <2>6. Caller(Top) \in Continuation
    BY <2>1, FrameContinuations
  <2>7. /\ Caller(Top).isa = "ARM64EC" /\ Caller(Top).pc = Top.resumePc
        /\ Caller(Top).sp = Top.resumeSp /\ Caller(Top).originalSp = Top.priorSp
    BY DEF Caller
  <2> QED BY <2>2, <2>4, <2>5, <2>6, <2>7, AbstractReturn
<1> QED
  BY Zenon, <1>1, <1>2 DEF Pop

\* generic_enter_callback calls, or tail-calls.
LEMMA EnterCallbackCalls ==
    ASSUME IInv, IInv', stage = "X64",
           NEW c \in Context, c.isa = context.isa, c.originalSp = context.originalSp,
           NEW memory, NEW preSp, NEW wasCall \in BOOLEAN,
           EnterCallback(c, memory, preSp, wasCall)
    PROVE  CallStack!Next
<1> DEFINE target == Resolve[c.pc].va
           tail == c.sp = Top.record /\ c.sp < Words /\ memory[c.sp] = Sentinel
           callerSp == IF wasCall THEN preSp ELSE c.sp + 1
           resumePc == IF wasCall THEN memory[c.sp] ELSE Sentinel
           entered == [Top EXCEPT !.callback = IF wasCall THEN "CALL" ELSE "TAIL",
                                  !.callbackPc = resumePc, !.callbackSp = callerSp,
                                  !.callbackPriorSp = c.originalSp]
<1>1. CASE Invariant(IF tail /\ ~wasCall THEN [c EXCEPT !.sp = @ + 1] ELSE c, memory)
  <2>1. (IF tail /\ ~wasCall THEN [c EXCEPT !.sp = @ + 1] ELSE c) \in Context
    BY CoordinatorAssumption DEF Context, StackPointer
  <2> HIDE DEF tail
  <2> QED BY <1>1, <2>1, InvariantAbandons
<1>2. CASE /\ depth # 0 /\ Top.callback = "NONE"
           /\ frames' = [frames EXCEPT ![depth] =
                          [@ EXCEPT !.callback = IF wasCall THEN "CALL" ELSE "TAIL",
                                    !.callbackPc = resumePc, !.callbackSp = callerSp,
                                    !.callbackPriorSp = c.originalSp]]
           /\ context' = [c EXCEPT !.originalSp = callerSp,
                                  !.sp = Aligned(callerSp), !.pc = Resolve[Thunk[target]].va,
                                  !.isa = "ARM64EC"]
           /\ depth' = depth
  <2>1. /\ depth \in 1 .. 2 /\ frames \in [1 .. 2 -> Frame] /\ Top = frames[depth]
        /\ Top \in Frame /\ depth' = depth /\ frames' \in [1 .. 2 -> Frame]
    BY <1>2 DEF IInv, TypeOK, Top
  <2> HIDE DEF target, tail, callerSp, resumePc
  <2>2. context'.isa = "ARM64EC"
    BY Zenon, <1>2 DEF Context
  <2>3. /\ entered.resumePc = Top.resumePc /\ entered.resumeSp = Top.resumeSp
        /\ entered.priorSp = Top.priorSp /\ entered.callbackPriorSp = c.originalSp
        /\ entered.callback = IF wasCall THEN "CALL" ELSE "TAIL"
    BY Zenon, <2>1 DEF Frame
  <2>4. frames' = [frames EXCEPT ![depth] = entered] /\ frames[depth].callback # "CALL"
    BY <1>2, <2>1
  <2> HIDE DEF entered
  <2>5. frames'[depth] = entered /\ (depth = 2 => frames[1] = frames'[1])
    BY <2>1, <2>4
  <2>6. Caller(frames[depth]) = Caller(frames'[depth])
    BY <2>1, <2>3, <2>5 DEF Caller
  <2>7. context.isa = "X64"
    BY DEF IInv, FrameDiscipline, Resumable, ContextValid
  <2>8. CASE wasCall
    <3>1. entered.callback = "CALL"
      BY <2>3, <2>8
    <3>2. StackOf(depth, frames') = Append(StackOf(depth, frames), Callback(frames'[depth]))
      BY <2>1, <2>4, <2>5, <2>6, <3>1, CallbackOnTop
    <3>3. Continuations \in Seq(Continuation)
      BY <2>1, StackTyped, ContinuationsAre
    <3>4. Callback(entered) \in Continuation
      BY <2>1, <2>5, FrameContinuations
    <3>5. Callback(entered).isa = "X64" /\ Callback(entered).originalSp = c.originalSp
      BY <2>3 DEF Callback
    <3>6. Continuations' = Append(Continuations, Callback(entered))
      BY <2>1, <2>5, <3>2, ContinuationsAre
    <3> QED BY <2>2, <2>7, <3>3, <3>4, <3>5, <3>6, AbstractCall
  <2>9. CASE ~wasCall
    <3>1. frames'[depth].callback # "CALL"
      BY <2>3, <2>5, <2>9
    <3>2. /\ CallbackPart(frames'[depth]) = <<>> /\ CallbackPart(frames[depth]) = <<>>
      BY <2>4, <3>1 DEF CallbackPart
    <3>3. StackOf(depth, frames') = StackOf(depth, frames)
      <4>1. CASE depth = 1
        BY <2>6, <3>2, <4>1 DEF StackOf
      <4>2. CASE depth = 2
        BY <2>5, <2>6, <3>2, <4>2 DEF StackOf
      <4> QED BY <2>1, <4>1, <4>2
    <3>4. Continuations' = Continuations
      BY <2>1, <3>3, ContinuationsAre
    <3> QED BY <2>2, <2>7, <3>4 DEF CallStack!Next, CallStack!TailCall
  <2> QED BY <2>8, <2>9
<1> QED
  BY Zenon, <1>1, <1>2 DEF EnterCallback

\* generic_finish_callback returns: to the x64 caller, or past it.
LEMMA FinishCallbackReturns ==
    ASSUME IInv, IInv', FinishCallback, stage \in ArmStages
    PROVE  CallStack!Next
<1> DEFINE finished == [Top EXCEPT !.callback = "NONE", !.callbackPc = Sentinel,
                                   !.callbackSp = 0, !.callbackPriorSp = 0]
<1>1. CASE Invariant(context, stack)
  BY <1>1, InvariantAbandons DEF IInv, TypeOK
<1>2. CASE /\ depth # 0 /\ Top.callback = "CALL"
           /\ context' = [context EXCEPT !.pc = Top.callbackPc, !.sp = Top.callbackSp,
                                         !.originalSp = Top.callbackPriorSp, !.isa = "X64",
                                         !.cookie = Top.cookie]
           /\ frames' = [frames EXCEPT ![depth] =
                           [@ EXCEPT !.callback = "NONE", !.callbackPc = Sentinel,
                                     !.callbackSp = 0, !.callbackPriorSp = 0]]
           /\ depth' = depth
  <2>1. /\ depth \in 1 .. 2 /\ frames \in [1 .. 2 -> Frame] /\ Top = frames[depth]
        /\ Top \in Frame /\ depth' = depth /\ frames' \in [1 .. 2 -> Frame]
        /\ context \in Context
    BY <1>2 DEF IInv, TypeOK, Top
  <2>2. /\ context'.isa = "X64" /\ context'.pc = Top.callbackPc
        /\ context'.sp = Top.callbackSp /\ context'.originalSp = Top.callbackPriorSp
    BY Zenon, <1>2, <2>1 DEF Context
  <2>3. /\ finished.resumePc = Top.resumePc /\ finished.resumeSp = Top.resumeSp
        /\ finished.priorSp = Top.priorSp /\ finished.callback = "NONE"
    BY Zenon, <2>1 DEF Frame
  <2>4. frames' = [frames EXCEPT ![depth] = finished] /\ frames[depth].callback = "CALL"
    BY <1>2, <2>1
  <2> HIDE DEF finished
  <2>5. frames'[depth] = finished /\ (depth = 2 => frames'[1] = frames[1])
    BY <2>1, <2>4
  <2>6. Caller(frames'[depth]) = Caller(frames[depth])
    BY <2>1, <2>3, <2>5 DEF Caller
  <2>7. StackOf(depth, frames) = Append(StackOf(depth, frames'), Callback(Top))
    BY <2>1, <2>3, <2>4, <2>5, <2>6, CallbackOnTop
  <2>8. Continuations = Append(Continuations', Callback(Top)) /\ Continuations' \in Seq(Continuation)
    BY <2>1, <2>7, StackTyped, ContinuationsAre
  <2>9. Callback(Top) \in Continuation
    BY <2>1, FrameContinuations
  <2>10. /\ Callback(Top).isa = "X64" /\ Callback(Top).pc = Top.callbackPc
         /\ Callback(Top).sp = Top.callbackSp /\ Callback(Top).originalSp = Top.callbackPriorSp
    BY DEF Callback
  <2> QED BY <2>2, <2>8, <2>9, <2>10, AbstractReturn
<1>3. CASE /\ depth # 0 /\ Top.callback = "TAIL"
           /\ Pop([context EXCEPT !.sp = Top.record + 1], stack)
  <2>0. depth \in 1 .. 2 /\ Top.record \in Word /\ Top.callback # "CALL" /\ context \in Context
    <3>1. depth # 0 /\ Top.callback = "TAIL"
      BY <1>3
    <3> QED BY <3>1 DEF IInv, TypeOK, Top, Frame
  <2>1. Top.record + 1 \in StackPointer
    BY <2>0, CoordinatorAssumption DEF Word, StackPointer
  <2>2. [context EXCEPT !.sp = Top.record + 1] \in Context
    BY Zenon, <2>0, <2>1 DEF Context
  <2> QED BY <1>3, <2>0, <2>2, PopReturns
<1> QED
  BY Zenon, <1>1, <1>2, <1>3 DEF FinishCallback

\* A step that keeps the architecture, original_x64_sp and the frames is
\* execution.
LEMMA AbstractExecute ==
    ASSUME context'.isa = context.isa, context'.originalSp = context.originalSp,
           depth' = depth, frames' = frames
    PROVE  CallStack!Next
<1>1. Continuations' = Continuations
  BY ContinuationsAre
<1> QED
  BY <1>1 DEF CallStack!Next, CallStack!Execute

\* An x64 instruction executes, returns, calls or fails.
LEMMA X64InstructionSimulates ==
    ASSUME IInv, IInv', NEW c \in Context, c.isa = context.isa,
           c.originalSp = context.originalSp, NEW memory,
           NEW isCall \in BOOLEAN, NEW isRet \in BOOLEAN,
           X64Instruction(c, memory, isCall, isRet)
    PROVE  CallStack!Next
<1>1. stage = "X64" /\ context \in Context /\ (depth # 0 => Top.callback # "CALL")
  BY DEF X64Instruction, LoopHead, IInv, TypeOK, FrameDiscipline
<1>2. CASE Invariant(context, stack) \/ Invariant(c, memory)
  BY <1>1, <1>2, InvariantAbandons
<1>3. CASE Pop(c, memory)
  BY <1>1, <1>3, PopReturns
<1>4. CASE EnterCallback(c, memory, context.sp, isCall)
  BY <1>1, <1>4, EnterCallbackCalls
<1>5. CASE context' = c /\ UNCHANGED sidecar
  BY <1>5, AbstractExecute DEF sidecar
<1> QED
  BY Zenon, <1>2, <1>3, <1>4, <1>5 DEF X64Instruction, X64Stepped

\* The x64 side.
LEMMA X64Simulates ==
    ASSUME IInv, IInv', X64
    PROVE  CallStack!Next
<1>0. stack \in [Word -> Value] /\ context \in Context
  BY DEF IInv, TypeOK
<1>1. CASE X64Stop
  BY <1>1, AbstractExecute DEF X64Stop, Stop, sidecar
<1>2. ASSUME NEW pc \in Address, NEW sp \in StackPointer, X64Jump(pc, sp)
      PROVE  CallStack!Next
  <2> DEFINE c == [context EXCEPT !.pc = pc, !.sp = sp]
  <2>1. c \in Context /\ c.originalSp = context.originalSp /\ c.isa = context.isa
    BY Zenon, <1>0 DEF Context
  <2>2. X64Instruction(c, stack, FALSE, FALSE)
    BY <1>2 DEF X64Jump
  <2> HIDE DEF c
  <2> QED BY <2>1, <2>2, X64InstructionSimulates
<1>3. ASSUME NEW pc \in Address, NEW next \in GuestValue, X64Call(pc, next)
      PROVE  CallStack!Next
  <2> DEFINE c == [context EXCEPT !.pc = pc, !.sp = @ - 1]
             memory == [stack EXCEPT ![context.sp - 1] = next]
  <2>1. context.sp - 1 \in StackPointer
    BY <1>0, <1>3, CoordinatorAssumption DEF X64Call, Context, StackPointer
  <2>2. c \in Context /\ c.originalSp = context.originalSp /\ c.isa = context.isa
    BY Zenon, <1>0, <2>1 DEF Context
  <2>3. X64Instruction(c, memory, TRUE, FALSE)
    BY <1>3 DEF X64Call
  <2> HIDE DEF c, memory
  <2> QED BY <2>2, <2>3, X64InstructionSimulates
<1>4. CASE X64Ret
  <2> DEFINE c == [context EXCEPT !.pc = stack[context.sp], !.sp = @ + 1]
  <2>1. context.sp + 1 \in StackPointer /\ stack[context.sp] \in Address
    BY <1>0, <1>4, CoordinatorAssumption, ValueIsAddress
       DEF X64Ret, Context, StackPointer, Word
  <2>2. c \in Context /\ c.originalSp = context.originalSp /\ c.isa = context.isa
    BY Zenon, <1>0, <2>1 DEF Context
  <2>3. X64Instruction(c, stack, FALSE, TRUE)
    BY <1>4 DEF X64Ret
  <2> HIDE DEF c
  <2> QED BY <2>2, <2>3, X64InstructionSimulates
<1> QED
  BY Zenon, <1>1, <1>2, <1>3, <1>4 DEF X64

\* The ARM64EC side executes until its transition is looked at.
LEMMA ArmSimulates ==
    ASSUME IInv, Arm
    PROVE  CallStack!Next
<1>1. CASE ArmStop
  BY <1>1, AbstractExecute DEF ArmStop, Stop, sidecar
<1>2. ASSUME NEW r, NEW sp, NEW pc, NEW what, ArmTransition(r, sp, pc, what)
      PROVE  CallStack!Next
  <2>1. context'.isa = context.isa /\ context'.originalSp = context.originalSp
    BY Zenon, <1>2 DEF ArmTransition, IInv, TypeOK, Context
  <2>2. depth' = depth /\ frames' = frames
    BY <1>2 DEF ArmTransition
  <2> QED BY <2>1, <2>2, AbstractExecute
<1> QED
  BY Zenon, <1>1, <1>2 DEF Arm, ArmReturn, ArmNativeReturn, ArmDispatch, ArmEdge

\* What the loop does with a transition.
LEMMA TransitionSimulates ==
    ASSUME IInv, IInv', Transition
    PROVE  CallStack!Next
<1>1. /\ stage \in ArmStages
      /\ pending.target \in Address /\ pending.resumePc \in Address
      /\ pending.resumeSp \in StackPointer
      /\ context \in Context /\ context.pc \in Address /\ context.sp \in StackPointer
  BY DEF Transition, IInv, TypeOK, StoppedInArm, Pending, Context
<1>2. CASE ClearSidecar /\ Stop([context EXCEPT !.cookie = 0, !.isa = "ARM64EC"])
  <2>1. depth' = 0
    BY <1>2 DEF ClearSidecar
  <2>2. context'.isa = "ARM64EC"
    BY Zenon, <1>1, <1>2 DEF Stop, Context
  <2> QED BY <2>1, <2>2, AbstractAbandon
<1>3. CASE FinishCallback
  BY <1>1, <1>3, FinishCallbackReturns
<1>4. CASE Push(pending.target, pending.resumePc, pending.resumeSp)
  BY <1>1, <1>4, PushCalls
<1>5. CASE Push(context.pc, pending.resumePc, context.sp)
  BY <1>1, <1>5, PushCalls
<1> QED
  BY Zenon, <1>2, <1>3, <1>4, <1>5 DEF Transition

\* An accepted call resumes the thread, or starts it over without frames.
LEMMA RunSimulates ==
    ASSUME IInv, NEW budget \in 1 .. MaxBudget, NEW lr \in Link,
           NEW c \in ResumedContext \cup FreshContext, Run(c, lr, budget)
    PROVE  CallStack!Next
<1>1. CASE active /\ context' = c /\ UNCHANGED sidecar
  <2>1. /\ c.isa = context.isa /\ c.isa = (IF stage = "X64" THEN "X64" ELSE "ARM64EC")
        /\ c.cookie = TopCookie /\ depth' = depth /\ frames' = frames
    BY <1>1 DEF Run, Accepted, IInv, Resumable, ContextValid, sidecar
  <2>2. CASE c \in ResumedContext
    <3>1. c.originalSp = context.originalSp
      BY <2>2 DEF ResumedContext
    <3> QED BY <1>1, <2>1, <3>1, AbstractExecute
  <2>3. CASE c \in FreshContext
    <3>1. c.cookie = 0 /\ c.isa = "ARM64EC"
      BY <2>3 DEF FreshContext
    <3>2. depth = 0
      BY <2>1, <3>1 DEF TopCookie, Top, IInv, TypeOK, FrameDiscipline
    <3> QED BY <1>1, <2>1, <3>1, <3>2, AbstractAbandon
  <2> QED BY <2>2, <2>3
<1>2. CASE ~active /\ context' = [c EXCEPT !.pc = Resolve[c.pc].va] /\ depth' = 0
  <2>1. context'.isa = c.isa /\ c.isa = "ARM64EC"
    BY <1>2 DEF Run, Accepted, MayBegin, ResumedContext, FreshContext
  <2> QED BY <1>2, <2>1, AbstractAbandon
<1> QED
  BY Zenon, <1>1, <1>2 DEF Run

\* The coordinator implements ArchCallStack: across dispatches, edges, RETs to
\* the sentinel, callbacks, tail callbacks, stops and failures, a return
\* resumes exactly the newest caller with the pc, sp and original_x64_sp it
\* had, and a failure drops all callers together.
THEOREM CoordinatorImplementsCallStack == Spec => ImplementsCallStack
<1>1. Init => CallStack!Init
  <2> SUFFICES ASSUME Init PROVE CallStack!Init
    OBVIOUS
  <2>1. depth = 0 /\ context.isa = "ARM64EC"
    BY DEF Init
  <2>2. Continuations = <<>>
    BY <2>1, ContinuationsAre DEF StackOf
  <2> QED BY <2>1, <2>2 DEF CallStack!Init
<1>2. IInv /\ IInv' /\ [Next]_vars => [CallStack!Next]_CallStack!vars
  <2> SUFFICES ASSUME IInv, IInv', [Next]_vars
               PROVE  CallStack!Next \/ UNCHANGED CallStack!vars
    OBVIOUS
  <2>1. ASSUME NEW budget \in 1 .. MaxBudget, NEW lr \in Link,
               NEW c \in ResumedContext \cup FreshContext, Run(c, lr, budget)
        PROVE  CallStack!Next
    BY <2>1, RunSimulates
  <2>2. CASE AsyncStop \/ BudgetStop
    BY <2>2, AbstractExecute DEF AsyncStop, BudgetStop, Stop, sidecar
  <2>3. CASE Arm
    BY <2>3, ArmSimulates
  <2>4. CASE Transition
    BY <2>4, TransitionSimulates
  <2>5. CASE X64
    BY <2>5, X64Simulates
  <2>6. CASE \E w \in Word, d \in GuestValue : GuestStore(w, d)
    BY <2>6, AbstractExecute DEF GuestStore, sidecar
  <2>7. CASE UNCHANGED vars
    BY <2>7, AbstractExecute DEF vars
  <2> QED
    BY Zenon, <2>1, <2>2, <2>3, <2>4, <2>5, <2>6, <2>7 DEF Next, Step
<1> QED
  BY <1>1, <1>2, Inductive, PTL DEF Spec, ImplementsCallStack, CallStack!Spec
=============================================================================
