------------------------- MODULE HybridOneShotProofs -------------------------
(***************************************************************************)
(* Proofs about HybridOneShot for every address map, stack size, budget    *)
(* and cookie width.                                                       *)
(***************************************************************************)
EXTENDS HybridOneShot, TLAPS

\* The segments of each operation.
Segments ==
    /\ op = "NONE" <=> at = "HOST"
    /\ op = "ROUNDTRIP" => at \in {"ARM_TO_X64", "X64_OUTER", "ARM_ENTRY", "ARM_RETURN"}
    /\ op = "RETURN" => at \in {"ARM_TO_X64", "X64_OUTER", "ARM_RETURN"}
    /\ op = "CALLBACK" => at \in {"X64_OUTER", "CALLBACK_ARM"}
    /\ op = "NESTED" => at \in {"ARM_TO_X64", "X64_OUTER", "CALLBACK_ARM", "X64_INNER",
                                "CALLBACK_ARM_AGAIN", "X64_RESUMED", "ARM_RETURN"}

\* The operation has not pushed its outer frame yet.
Before == at \in {"HOST", "ARM_TO_X64"} \/ (op = "CALLBACK" /\ at = "X64_OUTER")

\* Which frames are live in which segment, and which of them have a record.
Shapes ==
    /\ root.active <=> ~Before
    /\ nested.active <=> at = "X64_INNER"
    /\ ~root.active => root = NoFrame
    /\ ~nested.active => nested = NoFrame
    /\ op = "CALLBACK" => ~root.written
    /\ op \in {"RETURN", "NESTED"} /\ root.active /\ at # "ARM_RETURN" => root.written
    /\ nested.active => nested.written

\* How many frames have been pushed and popped in which segment.
Counts ==
    /\ at = "HOST" => pushes = pops
    /\ at # "HOST" /\ Before => pushes = 0 /\ pops = 0
    /\ ~Before /\ at \in {"X64_OUTER", "CALLBACK_ARM", "ARM_ENTRY"} => pushes = 1 /\ pops = 0
    /\ at = "X64_INNER" => pushes = 2 /\ pops = 0
    /\ at \in {"CALLBACK_ARM_AGAIN", "X64_RESUMED"} => pushes = 2 /\ pops = 1
    /\ at = "ARM_RETURN" => pushes = pops + 1

\* Only two operations set targets, and callers bring no cookie.
Targets ==
    /\ op \notin {"RETURN", "NESTED"} => expected = NoTargets
    /\ entry.cookie = 0

\* What the frames r and n give back to the words of their records is no
\* record itself, unless the two share the word.
OldWords(r, n) ==
    /\ r.written /\ r.old = Sentinel => leaked
    /\ n.written /\ n.old = Sentinel => leaked \/ (r.written /\ r.record = n.record)

\* NoStrayRecord for the contents memory of the stack and the frames r and n.
NoStray(memory, r, n) ==
    \A w \in Word : memory[w] = Sentinel =>
        leaked \/ (r.written /\ r.record = w) \/ (n.written /\ n.record = w)

\* The bookkeeping: everything but types and records.
Books == Segments /\ Shapes /\ Counts /\ Targets /\ FramesBalanced

\* The inductive invariant.
IInv == TypeOK /\ Books /\ OldWords(root, nested) /\ NoStrayRecord

-----------------------------------------------------------------------------
(* Facts about the operators.                                               *)

\* Stack contents are addresses.
LEMMA ValueIsAddress ==
    /\ Value \subseteq Address /\ Sentinel \in Value /\ GuestValue \subseteq Value
    /\ Sentinel \notin GuestValue
BY OneShotAssumption DEF Value

\* An empty frame and empty targets are well typed.
LEMMA EmptyTyped == NoFrame \in Frame /\ NoTargets \in [outer : Address, inner : Address]
<1>1. 0 \in Word /\ 0 \in StackPointer /\ 0 \in 0 .. MaxCookie
  BY OneShotAssumption DEF Word, StackPointer
<1> QED
  BY <1>1, OneShotAssumption, ValueIsAddress DEF NoFrame, Frame, NoTargets

\* An empty frame is not live, has cookie zero and no record.
LEMMA EmptyFields == ~NoFrame.active /\ ~NoFrame.written /\ NoFrame.cookie = 0
BY DEF NoFrame

\* The next cookie is a cookie.
LEMMA CookieTyped ==
    ASSUME generation \in 0 .. MaxCookie
    PROVE  NextCookie \in 0 .. MaxCookie
BY OneShotAssumption DEF NextCookie

\* Rounding a stack pointer down stays on the stack.
LEMMA AlignedTyped ==
    ASSUME NEW sp \in StackPointer
    PROVE  Aligned(sp) \in StackPointer
BY OneShotAssumption DEF Aligned, StackPointer

\* The two forms of NoStrayRecord agree.
LEMMA StrayForms == NoStrayRecord <=> NoStray(stack, root, nested)
BY DEF NoStrayRecord, NoStray

\* The fields of a frame.
LEMMA FrameFields ==
    ASSUME NEW f \in Frame
    PROVE  /\ f.active \in BOOLEAN /\ f.written \in BOOLEAN /\ f.cookie \in 0 .. MaxCookie
           /\ f.resumePc \in Address /\ f.dispatchSp \in StackPointer
           /\ f.record \in Word /\ f.old \in Value /\ f.callSp \in StackPointer
BY DEF Frame

\* The fields of a context.
LEMMA ContextFields ==
    ASSUME NEW c \in Context
    PROVE  /\ c.isa \in {"ARM64EC", "X64"} /\ c.pc \in Address /\ c.lr \in Address
           /\ c.sp \in StackPointer /\ c.originalSp \in StackPointer
           /\ c.cookie \in 0 .. MaxCookie
BY DEF Context

\* Pushing a frame makes it live, gives it its cookie and keeps its record.
LEMMA PushedFrame ==
    ASSUME NEW f \in Frame, NEW k \in 0 .. MaxCookie
    PROVE  LET q == [f EXCEPT !.active = TRUE, !.cookie = k]
           IN /\ q \in Frame /\ q.active /\ q.cookie = k
              /\ q.written = f.written /\ q.record = f.record /\ q.old = f.old
BY Zenon DEF Frame

\* A frame with a record remembers the word it replaced.
LEMMA RecordedFrame ==
    ASSUME NEW f \in Frame, NEW sp \in StackPointer, sp >= 1, stack \in [Word -> Value]
    PROVE  /\ sp - 1 \in Word
           /\ WithRecord(f, sp) \in Frame
           /\ WithRecord(f, sp).active = f.active /\ WithRecord(f, sp).cookie = f.cookie
           /\ WithRecord(f, sp).written /\ WithRecord(f, sp).record = sp - 1
           /\ WithRecord(f, sp).old = stack[sp - 1]
<1>1. sp - 1 \in Word
  BY OneShotAssumption DEF StackPointer, Word
<1>2. stack[sp - 1] \in Value
  BY <1>1
<1> DEFINE w == sp - 1
<1>3. w \in Word /\ stack[w] \in Value
  BY <1>1, <1>2
<1>4. WithRecord(f, sp) = [f EXCEPT !.record = w, !.old = stack[w], !.written = TRUE]
  BY DEF WithRecord
<1> HIDE DEF w
<1>5. /\ WithRecord(f, sp) \in Frame
      /\ WithRecord(f, sp).active = f.active /\ WithRecord(f, sp).cookie = f.cookie
      /\ WithRecord(f, sp).written /\ WithRecord(f, sp).record = w
      /\ WithRecord(f, sp).old = stack[w]
  BY <1>3, <1>4, Zenon DEF Frame
<1> QED
  BY <1>1, <1>5 DEF w

-----------------------------------------------------------------------------
(* Failing.                                                                 *)

\* Giving the records back: the words stay typed, and when the transaction
\* commits no record is left.
LEMMA RestoredClean ==
    ASSUME NEW r \in Frame, NEW n \in Frame, stack \in [Word -> Value],
           OldWords(r, n), NoStray(stack, r, n), NEW ok \in BOOLEAN
    PROVE  /\ Restored(r, n, stack, ok) \in [Word -> Value]
           /\ leaked \/ (~ok /\ (r.written \/ n.written))
              \/ \A w \in Word : Restored(r, n, stack, ok)[w] # Sentinel
<1>1. r.record \in Word /\ r.old \in Value /\ n.record \in Word /\ n.old \in Value
  BY FrameFields
<1> DEFINE m1 == IF n.written /\ ok THEN [stack EXCEPT ![n.record] = n.old] ELSE stack
           m2 == IF r.written /\ ok THEN [m1 EXCEPT ![r.record] = r.old] ELSE m1
<1>2. Restored(r, n, stack, ok) = m2
  BY DEF Restored
<1>3. m1 \in [Word -> Value] /\ m2 \in [Word -> Value]
  BY <1>1
<1>4. ASSUME ~leaked, ok \/ ~(r.written \/ n.written), NEW w \in Word
      PROVE  m2[w] # Sentinel
  <2>1. CASE r.written /\ ok /\ w = r.record
    BY <2>1, <1>1, <1>3, <1>4 DEF OldWords
  <2>2. CASE ~(r.written /\ ok /\ w = r.record) /\ n.written /\ ok /\ w = n.record
    <3>1. m2[w] = n.old
      BY <2>2, <1>1, <1>3
    <3> QED
      BY <3>1, <2>2, <1>4 DEF OldWords
  <2>3. CASE ~(r.written /\ ok /\ w = r.record) /\ ~(n.written /\ ok /\ w = n.record)
    <3>1. m2[w] = stack[w]
      BY <2>3, <1>1, <1>3
    <3> QED
      BY <3>1, <2>3, <1>4 DEF NoStray
  <2> QED
    BY <2>1, <2>2, <2>3
<1> QED
  BY <1>2, <1>3, <1>4

\* The frames r and n, with pushed more than counted so far, can be given up.
Leavable(r, n, pushed) ==
    /\ r \in Frame /\ n \in Frame
    /\ OldWords(r, n) /\ NoStray(stack, r, n)
    /\ pushes + pushed \in 0 .. 2
    /\ pushes + pushed = pops + Active(r) + Active(n)

\* However the operation leaves, everything is put back.
LEMMA FailWithKeeps ==
    ASSUME IInv, NEW r, NEW n, NEW pushed, Leavable(r, n, pushed), FailWith(r, n, pushed),
           generation' \in 0 .. MaxCookie
    PROVE  IInv'
<1>1. PICK ok \in BOOLEAN :
        /\ stack' = Restored(r, n, stack, ok)
        /\ leaked' = (leaked \/ (~ok /\ (r.written \/ n.written)))
        /\ root' = NoFrame /\ nested' = NoFrame
        /\ pushes' = pushes + pushed
        /\ pops' = pops + Popped(r, n)
        /\ expected' = TargetsAfter
        /\ context' = entry
        /\ at' = "HOST" /\ op' = "NONE" /\ remaining' = 0
        /\ UNCHANGED <<checks, entry>>
  BY DEF FailWith
<1>2. TypeOK
  BY DEF IInv
<1>3. /\ stack' \in [Word -> Value]
      /\ leaked' \/ \A w \in Word : stack'[w] # Sentinel
  BY <1>1, <1>2, RestoredClean DEF Leavable, TypeOK
<1>4. pushes' \in 0 .. 2 /\ pops' = pushes'
  BY <1>1, <1>2 DEF Leavable, Popped, Active, TypeOK
<1>5. expected' = NoTargets
  BY <1>1 DEF IInv, Books, Targets, TargetsAfter
<1>6. TypeOK'
  <2>1. leaked' \in BOOLEAN
    BY <1>1, <1>2, Zenon DEF TypeOK
  <2>2. remaining' \in 0 .. MaxBudget /\ checks' \in 0 .. 2
    BY <1>1, <1>2, OneShotAssumption DEF TypeOK
  <2>3. op' \in Operations \cup {"NONE"} /\ at' \in {"HOST"} \cup ArmSegments \cup X64Segments
    BY <1>1
  <2>4. context' \in Context /\ entry' \in Context
    BY <1>1, <1>2 DEF TypeOK
  <2> QED
    BY <1>1, <1>3, <1>4, <1>5, <2>1, <2>2, <2>3, <2>4, EmptyTyped DEF TypeOK
<1>7. Books'
  <2>1. Segments' /\ Shapes'
    BY <1>1, EmptyFields DEF Segments, Shapes, Before
  <2>2. Counts'
    BY <1>1, <1>4 DEF Counts, Before
  <2>3. Targets'
    BY <1>1, <1>5 DEF IInv, Books, Targets
  <2>4. FramesBalanced'
    <3>1. context'.cookie = 0
      BY <1>1 DEF IInv, Books, Targets
    <3> QED
      BY <1>1, <1>2, <1>4, <3>1, EmptyFields DEF FramesBalanced, Active, TypeOK
  <2> QED
    BY <2>1, <2>2, <2>3, <2>4 DEF Books
<1>8. OldWords(root, nested)' /\ NoStrayRecord'
  BY <1>1, <1>3, EmptyFields DEF OldWords, NoStrayRecord
<1> QED
  BY <1>6, <1>7, <1>8 DEF IInv

\* The live frames can be given up at any time.
LEMMA FailKeeps == ASSUME IInv, Fail PROVE IInv'
<1>1. Leavable(root, nested, 0)
  <2>1. pushes + 0 = pops + Active(root) + Active(nested) /\ pushes + 0 \in 0 .. 2
    BY DEF IInv, TypeOK, Books, FramesBalanced, Active
  <2> QED
    BY <2>1, StrayForms DEF Leavable, IInv, TypeOK
<1>2. generation' \in 0 .. MaxCookie
  BY DEF IInv, TypeOK, Fail
<1> QED
  BY <1>1, <1>2, FailWithKeeps DEF Fail

\* A frame that has just been pushed and has no record can be given up with
\* the others.
LEMMA FreshLeavable ==
    ASSUME IInv, ~root.active, ~nested.active, Running,
           NEW f \in Frame, f.active, ~f.written
    PROVE  Leavable(f, nested, 1)
<1>1. pushes = 0 /\ pops = 0
  BY DEF IInv, Books, Shapes, Counts, Running
<1>2. root = NoFrame /\ nested = NoFrame
  BY DEF IInv, Books, Shapes
<1>3. OldWords(f, nested)
  BY <1>2, EmptyFields DEF OldWords
<1>4. NoStray(stack, f, nested)
  BY <1>2, EmptyFields DEF IInv, NoStrayRecord, NoStray
<1>5. pushes + 1 \in 0 .. 2 /\ pushes + 1 = pops + Active(f) + Active(nested)
  BY <1>1 DEF Active
<1> QED
  BY <1>2, <1>3, <1>4, <1>5, EmptyTyped DEF Leavable

\* The callback operation fails with its frame just pushed.
LEMMA FailPushedKeeps == ASSUME IInv, FailPushed PROVE IInv'
<1> DEFINE f == [root EXCEPT !.active = TRUE, !.cookie = NextCookie]
<1>1. NextCookie \in 0 .. MaxCookie /\ root \in Frame
  BY CookieTyped DEF IInv, TypeOK
<1>2. ~root.active /\ ~nested.active /\ Running
  BY DEF FailPushed, IInv, Books, Shapes, Before, Running
<1>3. ~root.written
  BY <1>2, EmptyFields DEF IInv, Books, Shapes
<1>4. f \in Frame /\ f.active /\ ~f.written
  BY <1>1, <1>3, PushedFrame
<1> HIDE DEF f
<1>5. Leavable(f, nested, 1)
  BY <1>2, <1>4, FreshLeavable
<1>6. FailWith(f, nested, 1) /\ generation' \in 0 .. MaxCookie
  BY <1>1 DEF FailPushed, f
<1> QED
  BY <1>5, <1>6, FailWithKeeps

-----------------------------------------------------------------------------
(* Calling, and the checker.                                                *)

\* A caller's context is a context.
LEMMA EntryTyped == EntryContext \subseteq Context
<1>1. Words \in StackPointer /\ 0 \in StackPointer /\ 0 \in 0 .. MaxCookie
  BY OneShotAssumption DEF StackPointer
<1>2. Control.start \in Address /\ Control.outer \in Address /\ HostReturn \in Address
  BY OneShotAssumption
<1> QED
  BY <1>1, <1>2 DEF EntryContext, Context

\* A call starts with no frame, no cookie and only its own targets.
LEMMA CallKeeps ==
    ASSUME IInv, NEW o \in Operations, NEW c \in EntryContext, NEW budget \in 1 .. MaxBudget,
           Call(o, c, budget)
    PROVE  IInv'
<1>1. TypeOK /\ Books
  BY DEF IInv
<1>2. /\ at = "HOST" /\ ~root.active /\ ~nested.active /\ c.cookie = 0
      /\ op' = o /\ entry' = c /\ remaining' = budget
      /\ at' = (IF o = "CALLBACK" THEN "X64_OUTER" ELSE "ARM_TO_X64")
      /\ checks' = 0 /\ pushes' = 0 /\ pops' = 0
      /\ UNCHANGED <<root, nested, generation, stack, leaked>>
  BY DEF Call
<1>3. c \in Context
  BY EntryTyped
<1>4. context' \in Context /\ context'.cookie = 0
  <2>1. context' = (IF o \in {"RETURN", "NESTED"} THEN [c EXCEPT !.pc = Resolve[c.pc].va] ELSE c)
    BY DEF Call
  <2>2. Resolve[c.pc].va \in Address
    BY <1>3, ContextFields, OneShotAssumption
  <2> DEFINE va == Resolve[c.pc].va
  <2> HIDE DEF va
  <2>3. va \in Address => [c EXCEPT !.pc = va] \in Context /\ [c EXCEPT !.pc = va].cookie = c.cookie
    BY <1>3, Zenon DEF Context
  <2> QED
    BY <2>1, <2>2, <2>3, <1>2, <1>3 DEF va
<1>5. /\ expected' \in [outer : Address, inner : Address]
      /\ o \notin {"RETURN", "NESTED"} => expected' = NoTargets
  <2>1. expected = NoTargets
    BY <1>1, <1>2 DEF Books, Segments, Targets
  <2>2. Control.outer \in Address /\ Control.inner \in Address
    BY OneShotAssumption
  <2>3. CASE o = "RETURN"
    BY <2>1, <2>2, <2>3, EmptyTyped DEF Call
  <2>4. CASE o = "NESTED"
    BY <2>1, <2>2, <2>4 DEF Call
  <2>5. CASE o \notin {"RETURN", "NESTED"}
    BY <2>1, <2>5, EmptyTyped DEF Call
  <2> QED
    BY <2>3, <2>4, <2>5
<1>6. TypeOK'
  <2>1. op' \in Operations /\ at' \in {"HOST"} \cup ArmSegments \cup X64Segments
    BY <1>2 DEF ArmSegments, X64Segments
  <2>2. /\ remaining' \in 0 .. MaxBudget /\ checks' \in 0 .. 2
        /\ pushes' \in 0 .. 2 /\ pops' \in 0 .. 2
    BY <1>2, OneShotAssumption
  <2>3. /\ root' \in Frame /\ nested' \in Frame /\ generation' \in 0 .. MaxCookie
        /\ stack' \in [Word -> Value] /\ leaked' \in BOOLEAN
    BY <1>1, <1>2, Zenon DEF TypeOK
  <2> QED
    BY <1>2, <1>3, <1>4, <1>5, <2>1, <2>2, <2>3 DEF TypeOK
<1>7. root = NoFrame /\ nested = NoFrame
  BY <1>1, <1>2 DEF Books, Shapes
<1>8. Books'
  <2>1. Segments'
    BY <1>2 DEF Segments, Operations
  <2>2. Shapes'
    BY <1>2, <1>7, EmptyFields DEF Shapes, Before
  <2>3. Counts'
    BY <1>2 DEF Counts, Before
  <2>4. Targets'
    BY <1>2, <1>5 DEF Targets
  <2>5. FramesBalanced'
    BY <1>2, <1>4, <1>7, EmptyFields DEF FramesBalanced, Active
  <2> QED
    BY <2>1, <2>2, <2>3, <2>4, <2>5 DEF Books
<1>9. OldWords(root, nested)' /\ NoStrayRecord'
  BY <1>2 DEF IInv, OldWords, NoStrayRecord
<1> QED
  BY <1>6, <1>8, <1>9 DEF IInv

\* A helper check counts and charges the budget.
LEMMA CheckKeeps ==
    ASSUME IInv, NEW retired, NEW target, ArmCheck(retired, target)
    PROVE  IInv'
<1>1. /\ retired \in 0 .. remaining /\ checks' = checks + 1
      /\ remaining' = remaining - retired
      /\ UNCHANGED <<control, root, nested, generation, pushes, pops, context, entry, stack,
                     leaked>>
      /\ checks = 0 \/ checks = 1
  BY DEF ArmCheck, ArmRun, CheckerAccepts
<1>2. TypeOK'
  <2>1. remaining' \in 0 .. MaxBudget /\ checks' \in 0 .. 2
    BY <1>1, OneShotAssumption DEF IInv, TypeOK
  <2> QED
    BY <1>1, <2>1, Zenon DEF IInv, TypeOK, control
<1>3. Books'
  BY <1>1, Zenon DEF IInv, Books, Segments, Shapes, Before, Counts, Targets, FramesBalanced, control
<1>4. OldWords(root, nested)' /\ NoStrayRecord'
  BY <1>1 DEF IInv, OldWords, NoStrayRecord
<1> QED
  BY <1>2, <1>3, <1>4 DEF IInv

-----------------------------------------------------------------------------
(* Pushing frames.                                                          *)

\* Calling x64 code leaves a context and a stack with one more record.
LEMMA CallTyped ==
    ASSUME IInv, NEW f \in Frame, NEW pc \in Address, NEW sp \in StackPointer, sp >= 1,
           NEW left, NEW segment, CallX64(f, pc, sp, left, segment)
    PROVE  /\ context' \in Context /\ context'.cookie = f.cookie
           /\ stack' \in [Word -> Value]
           /\ \A w \in Word : stack'[w] = IF w = sp - 1 THEN Sentinel ELSE stack[w]
<1>1. context \in Context /\ stack \in [Word -> Value]
  BY DEF IInv, TypeOK
<1>2. sp - 1 \in Word /\ sp - 1 \in StackPointer
  BY OneShotAssumption DEF StackPointer, Word
<1>3. f.cookie \in 0 .. MaxCookie
  BY FrameFields
<1>4. stack' \in [Word -> Value]
      /\ \A w \in Word : stack'[w] = IF w = sp - 1 THEN Sentinel ELSE stack[w]
  BY <1>1, <1>2, ValueIsAddress DEF CallX64
<1> DEFINE below == sp - 1
           k == f.cookie
<1>5. context' = [context EXCEPT !.isa = "X64", !.pc = pc, !.sp = below, !.cookie = k]
  BY DEF CallX64
<1>6. below \in StackPointer /\ k \in 0 .. MaxCookie
  BY <1>2, <1>3
<1> HIDE DEF below, k
<1>7. context' \in Context /\ context'.cookie = k
  BY <1>1, <1>5, <1>6, Zenon DEF Context
<1> QED
  BY <1>4, <1>7 DEF k

\* The outer frame is pushed, or its record cannot be written and the
\* operation fails.
LEMMA PushRootKeeps ==
    ASSUME IInv, at = "ARM_TO_X64", op \in {"ROUNDTRIP", "RETURN", "NESTED"},
           NEW frame \in Frame, ~frame.written,
           NEW pc \in Address, NEW sp \in StackPointer, NEW left \in 0 .. MaxBudget,
           PushRoot(frame, pc, sp, left)
    PROVE  IInv'
<1> DEFINE pushed == [frame EXCEPT !.active = TRUE, !.cookie = NextCookie]
<1>1. NextCookie \in 0 .. MaxCookie
  BY CookieTyped DEF IInv, TypeOK
<1>2. pushed \in Frame /\ pushed.active /\ ~pushed.written /\ pushed.cookie = NextCookie
  BY <1>1, PushedFrame
<1>3. ~root.active /\ ~nested.active /\ Running
  BY DEF IInv, Books, Shapes, Before, Running
<1>4. root = NoFrame /\ nested = NoFrame /\ pushes = 0 /\ pops = 0
  BY <1>3 DEF IInv, Books, Shapes, Counts, Before, Running
<1>5. /\ generation' = NextCookie
      /\ \/ FailWith(pushed, nested, 1)
         \/ /\ sp >= 1
            /\ root' = WithRecord(pushed, sp) /\ UNCHANGED nested
            /\ CallX64(pushed, pc, sp, left, "X64_OUTER")
  BY DEF PushRoot
<1> HIDE DEF pushed
<1>6. CASE FailWith(pushed, nested, 1)
  BY <1>1, <1>2, <1>3, <1>5, <1>6, FreshLeavable, FailWithKeeps
<1>7. CASE /\ sp >= 1
           /\ root' = WithRecord(pushed, sp) /\ UNCHANGED nested
           /\ CallX64(pushed, pc, sp, left, "X64_OUTER")
  <2>1. stack \in [Word -> Value] /\ TypeOK
    BY DEF IInv, TypeOK
  <2>2. /\ sp - 1 \in Word
        /\ root' \in Frame /\ root'.active /\ root'.cookie = NextCookie
        /\ root'.written /\ root'.record = sp - 1 /\ root'.old = stack[sp - 1]
    BY <1>2, <1>7, <2>1, RecordedFrame
  <2>3. /\ context' \in Context /\ context'.cookie = NextCookie
        /\ stack' \in [Word -> Value]
        /\ \A w \in Word : stack'[w] = IF w = sp - 1 THEN Sentinel ELSE stack[w]
    BY <1>2, <1>7, CallTyped
  <2>4. /\ pushes' = pushes + 1 /\ at' = "X64_OUTER" /\ remaining' = left
        /\ UNCHANGED <<op, expected, pops, checks, entry, leaked>>
    BY <1>7 DEF CallX64
  <2>5. TypeOK'
    <3>1. pushes' \in 0 .. 2 /\ generation' \in 0 .. MaxCookie /\ remaining' \in 0 .. MaxBudget
      BY <1>1, <1>4, <1>5, <2>4
    <3>2. at' \in {"HOST"} \cup ArmSegments \cup X64Segments
      BY <2>4 DEF X64Segments
    <3> QED
      BY <1>7, <2>1, <2>2, <2>3, <2>4, <3>1, <3>2, Zenon DEF TypeOK
  <2>6. Books'
    <3>1. Segments'
      BY <2>4 DEF Segments
    <3>2. Shapes'
      BY <1>4, <1>7, <2>2, <2>4, EmptyFields DEF Shapes, Before
    <3>3. Counts'
      BY <1>4, <2>4 DEF Counts, Before
    <3>4. Targets'
      BY <2>4 DEF IInv, Books, Targets
    <3>5. FramesBalanced'
      BY <1>4, <1>7, <2>2, <2>3, <2>4, EmptyFields DEF FramesBalanced, Active
    <3> QED
      BY <3>1, <3>2, <3>3, <3>4, <3>5 DEF Books
  <2>7. \A w \in Word : stack[w] = Sentinel => leaked
    BY <1>4, EmptyFields DEF IInv, NoStrayRecord
  <2>8. OldWords(root, nested)'
    BY <1>4, <1>7, <2>2, <2>4, <2>7, EmptyFields DEF OldWords
  <2>9. NoStrayRecord'
    BY <2>2, <2>3, <2>4, <2>7 DEF NoStrayRecord
  <2> QED
    BY <2>5, <2>6, <2>8, <2>9 DEF IInv
<1> QED
  BY <1>5, <1>6, <1>7

\* The round trip leaves through the dispatch-call helper.
LEMMA DispatchCallKeeps ==
    ASSUME IInv, NEW retired, NEW sp \in StackPointer, NEW lr \in Address, NEW target \in Address,
           ArmDispatchCall(retired, sp, lr, target)
    PROVE  IInv'
<1> DEFINE f == [root EXCEPT !.resumePc = lr, !.dispatchSp = sp]
<1>1. root \in Frame /\ ~root.written /\ at = "ARM_TO_X64" /\ op = "ROUNDTRIP"
  BY EmptyFields DEF IInv, TypeOK, Books, Shapes, ArmDispatchCall, ArmRun
<1>2. f \in Frame /\ f.written = root.written
  BY <1>1, Zenon DEF Frame
<1>3. remaining - retired \in 0 .. MaxBudget
  BY OneShotAssumption DEF IInv, TypeOK, ArmDispatchCall, ArmRun
<1>4. Resolve[target].va \in Address
  BY OneShotAssumption
<1>5. PushRoot(f, Resolve[target].va, sp, remaining - retired)
  BY DEF ArmDispatchCall
<1> HIDE DEF f
<1> QED
  BY <1>1, <1>2, <1>3, <1>4, <1>5, PushRootKeeps

\* The return and nested operations leave by a branch.
LEMMA BranchKeeps ==
    ASSUME IInv, NEW retired, NEW sp \in StackPointer, NEW lr \in Address, NEW pc \in Address,
           ArmBranch(retired, sp, lr, pc)
    PROVE  IInv'
<1>1. /\ root \in Frame /\ ~root.written /\ at = "ARM_TO_X64"
      /\ op \in {"ROUNDTRIP", "RETURN", "NESTED"}
  BY EmptyFields DEF IInv, TypeOK, Books, Shapes, Before, ArmBranch, ArmRun
<1>2. remaining - retired \in 0 .. MaxBudget
  BY OneShotAssumption DEF IInv, TypeOK, ArmBranch, ArmRun
<1>3. Control.outer \in Address
  BY OneShotAssumption
<1>4. PushRoot(root, Control.outer, sp, remaining - retired)
  BY DEF ArmBranch
<1> QED
  BY <1>1, <1>2, <1>3, <1>4, PushRootKeeps

\* The frame of an inner call, before its record is written.
InnerPushed(k, lr, sp) ==
    [NoFrame EXCEPT !.active = TRUE, !.cookie = k, !.resumePc = lr, !.dispatchSp = sp]

\* It is live and has no record yet.
LEMMA InnerFrame ==
    ASSUME NEW k \in 0 .. MaxCookie, NEW lr \in Address, NEW sp \in StackPointer
    PROVE  /\ InnerPushed(k, lr, sp) \in Frame
           /\ InnerPushed(k, lr, sp).active /\ InnerPushed(k, lr, sp).cookie = k
           /\ ~InnerPushed(k, lr, sp).written
<1>1. NoFrame \in Frame /\ ~NoFrame.written
  BY EmptyTyped, EmptyFields
<1>2. /\ InnerPushed(k, lr, sp) \in Frame
      /\ InnerPushed(k, lr, sp).active /\ InnerPushed(k, lr, sp).cookie = k
      /\ InnerPushed(k, lr, sp).written = NoFrame.written
  BY <1>1, Zenon DEF Frame, InnerPushed
<1> QED
  BY <1>1, <1>2

\* The nested operation pushes its inner frame, or fails with it pushed.
LEMMA BranchInnerKeeps ==
    ASSUME IInv, NEW retired, NEW sp \in StackPointer, NEW lr \in Address,
           ArmBranchInner(retired, sp, lr)
    PROVE  IInv'
<1> DEFINE pushed == InnerPushed(NextCookie, lr, sp)
<1>1. NextCookie \in 0 .. MaxCookie /\ TypeOK
  BY CookieTyped DEF IInv, TypeOK
<1>2. pushed \in Frame /\ pushed.active /\ ~pushed.written /\ pushed.cookie = NextCookie
  BY <1>1, InnerFrame
<1>3. /\ at = "CALLBACK_ARM" /\ op = "NESTED" /\ sp >= 1 /\ generation' = NextCookie
      /\ retired \in 0 .. remaining
      /\ \/ FailWith(root, pushed, 1)
         \/ /\ nested' = WithRecord(pushed, sp) /\ UNCHANGED root
            /\ CallX64(pushed, Control.inner, sp, remaining - retired, "X64_INNER")
  BY DEF ArmBranchInner, ArmRun, InnerPushed
<1>4. /\ root.active /\ root.written /\ ~nested.active /\ nested = NoFrame
      /\ pushes = 1 /\ pops = 0
  BY <1>3 DEF IInv, Books, Shapes, Counts, Before
<1>5. \A w \in Word : stack[w] = Sentinel => leaked \/ root.record = w
  BY <1>4, EmptyFields DEF IInv, NoStrayRecord
<1> HIDE DEF pushed
<1>6. CASE FailWith(root, pushed, 1)
  <2>1. OldWords(root, pushed)
    BY <1>2 DEF IInv, OldWords
  <2>2. NoStray(stack, root, pushed)
    BY <1>4, <1>5 DEF NoStray
  <2>3. pushes + 1 \in 0 .. 2 /\ pushes + 1 = pops + Active(root) + Active(pushed)
    BY <1>2, <1>4 DEF Active
  <2>4. Leavable(root, pushed, 1)
    BY <1>1, <1>2, <2>1, <2>2, <2>3 DEF Leavable, TypeOK
  <2> QED
    BY <1>1, <1>3, <1>6, <2>4, FailWithKeeps
<1>7. CASE /\ nested' = WithRecord(pushed, sp) /\ UNCHANGED root
           /\ CallX64(pushed, Control.inner, sp, remaining - retired, "X64_INNER")
  <2>1. stack \in [Word -> Value] /\ Control.inner \in Address
    BY <1>1, OneShotAssumption DEF TypeOK
  <2>2. /\ sp - 1 \in Word
        /\ nested' \in Frame /\ nested'.active /\ nested'.cookie = NextCookie
        /\ nested'.written /\ nested'.record = sp - 1 /\ nested'.old = stack[sp - 1]
    BY <1>2, <1>3, <1>7, <2>1, RecordedFrame
  <2>3. /\ context' \in Context /\ context'.cookie = NextCookie
        /\ stack' \in [Word -> Value]
        /\ \A w \in Word : stack'[w] = IF w = sp - 1 THEN Sentinel ELSE stack[w]
    BY <1>2, <1>3, <1>7, <2>1, CallTyped
  <2>4. /\ pushes' = pushes + 1 /\ at' = "X64_INNER" /\ remaining' = remaining - retired
        /\ UNCHANGED <<op, expected, pops, checks, entry, leaked>>
    BY <1>7 DEF CallX64
  <2>5. TypeOK'
    <3>1. pushes' \in 0 .. 2 /\ generation' \in 0 .. MaxCookie /\ remaining' \in 0 .. MaxBudget
      BY <1>1, <1>3, <1>4, <2>4, OneShotAssumption DEF TypeOK
    <3>2. at' \in {"HOST"} \cup ArmSegments \cup X64Segments
      BY <2>4 DEF X64Segments
    <3> QED
      BY <1>1, <1>7, <2>2, <2>3, <2>4, <3>1, <3>2, Zenon DEF TypeOK
  <2>6. Books'
    <3>1. Segments'
      BY <1>3, <2>4 DEF Segments
    <3>2. Shapes'
      BY <1>3, <1>4, <1>7, <2>2, <2>4 DEF Shapes, Before
    <3>3. Counts'
      BY <1>4, <2>4 DEF Counts, Before
    <3>4. Targets'
      BY <2>4 DEF IInv, Books, Targets
    <3>5. FramesBalanced'
      BY <1>4, <1>7, <2>2, <2>3, <2>4 DEF FramesBalanced, Active
    <3> QED
      BY <3>1, <3>2, <3>3, <3>4, <3>5 DEF Books
  <2>7. OldWords(root, nested)'
    BY <1>4, <1>5, <1>7, <2>2, <2>4 DEF IInv, OldWords
  <2>8. NoStrayRecord'
    BY <1>4, <1>5, <1>7, <2>2, <2>3, <2>4 DEF NoStrayRecord
  <2> QED
    BY <2>5, <2>6, <2>7, <2>8 DEF IInv
<1> QED
  BY <1>3, <1>6, <1>7

-----------------------------------------------------------------------------
(* Returning.                                                               *)

\* A complete operation leaves no frame, cookie or target.
LEMMA SucceedKeeps ==
    ASSUME IInv, NEW c \in Context, ~nested.active, pushes = pops + 1, Succeed(c),
           UNCHANGED stack, leaked' = (leaked \/ root.written)
    PROVE  IInv'
<1>1. TypeOK /\ nested = NoFrame
  BY DEF IInv, Books, Shapes
<1>2. /\ root' = NoFrame /\ pops' = pops + 1 /\ at' = "HOST" /\ op' = "NONE" /\ remaining' = 0
      /\ UNCHANGED <<checks, pushes, nested, generation, entry>>
  BY DEF Succeed
<1>3. expected' = NoTargets
  BY DEF Succeed, IInv, Books, Targets, TargetsAfter
<1>4. context' \in Context /\ context'.cookie = 0
  <2>1. 0 \in 0 .. MaxCookie
    BY OneShotAssumption
  <2> DEFINE osp == entry.originalSp
  <2>2. osp \in StackPointer
    BY <1>1, ContextFields DEF TypeOK
  <2>3. context' = [c EXCEPT !.cookie = 0, !.originalSp = osp]
    BY DEF Succeed
  <2> HIDE DEF osp
  <2> QED
    BY <2>1, <2>2, <2>3, Zenon DEF Context
<1>5. TypeOK'
  <2>1. pops' \in 0 .. 2 /\ remaining' \in 0 .. MaxBudget
    BY <1>1, <1>2, OneShotAssumption DEF TypeOK
  <2>2. leaked' \in BOOLEAN
    BY <1>1, FrameFields, Zenon DEF TypeOK
  <2>3. at' \in {"HOST"} \cup ArmSegments \cup X64Segments /\ op' \in Operations \cup {"NONE"}
    BY <1>2
  <2> QED
    BY <1>1, <1>2, <1>3, <1>4, <2>1, <2>2, <2>3, EmptyTyped, Zenon DEF TypeOK
<1>6. Books'
  <2>1. Segments' /\ Shapes'
    BY <1>1, <1>2, EmptyFields DEF Segments, Shapes, Before
  <2>2. Counts'
    BY <1>2 DEF Counts, Before
  <2>3. Targets'
    BY <1>2, <1>3 DEF IInv, Books, Targets
  <2>4. FramesBalanced'
    BY <1>1, <1>2, <1>4, EmptyFields DEF FramesBalanced, Active, TypeOK
  <2> QED
    BY <2>1, <2>2, <2>3, <2>4 DEF Books
<1>7. OldWords(root, nested)'
  BY <1>1, <1>2, EmptyFields DEF OldWords
<1>8. NoStrayRecord'
  BY <1>1, <1>2, EmptyFields DEF IInv, NoStrayRecord
<1> QED
  BY <1>5, <1>6, <1>7, <1>8 DEF IInv

\* Moving a context to another place keeps its cookie.
LEMMA ContextMoved ==
    ASSUME NEW c \in Context, NEW pc \in Address, NEW sp \in StackPointer
    PROVE  /\ [c EXCEPT !.pc = pc, !.sp = sp] \in Context
           /\ [c EXCEPT !.pc = pc, !.sp = sp].cookie = c.cookie
           /\ [c EXCEPT !.pc = pc, !.sp = sp, !.isa = "X64"] \in Context
BY Zenon DEF Context

\* A step that keeps frames, counts and stack and goes on in segment.
GoesOn(segment) ==
    /\ at' = segment
    /\ context' \in Context /\ context'.cookie = context.cookie
    /\ remaining' \in 0 .. MaxBudget
    /\ UNCHANGED <<op, expected, root, nested, generation, stats, entry, stack, leaked>>

\* Such a step preserves the invariant.
LEMMA GoesOnKeeps ==
    ASSUME IInv, NEW segment \in ArmSegments \cup X64Segments, GoesOn(segment),
           ~Before, ~Before', at # "X64_INNER", segment # "X64_INNER", Segments', Counts',
           at # "ARM_RETURN"
    PROVE  IInv'
<1>1. UNCHANGED <<op, expected, root, nested, generation, stats, entry, stack, leaked>>
  BY DEF GoesOn
<1>2. TypeOK'
  <2>1. at' \in {"HOST"} \cup ArmSegments \cup X64Segments
    BY DEF GoesOn
  <2> QED
    BY <1>1, <2>1, Zenon DEF IInv, TypeOK, GoesOn, stats
<1>3. Shapes'
  <2>1. at' # "X64_INNER"
    BY DEF GoesOn
  <2> QED
    BY <1>1, <2>1, Zenon DEF IInv, Books, Shapes
<1>4. Targets'
  BY <1>1 DEF IInv, Books, Targets
<1>5. FramesBalanced'
  BY <1>1 DEF IInv, Books, FramesBalanced, GoesOn, stats, Active
<1>6. OldWords(root, nested)' /\ NoStrayRecord'
  BY <1>1 DEF IInv, OldWords, NoStrayRecord
<1> QED
  BY <1>2, <1>3, <1>4, <1>5, <1>6 DEF IInv, Books

\* The callee returns: one case for each operation.
LEMMA DispatchReturnKeeps ==
    ASSUME IInv, NEW retired, NEW sp, NEW lr, ArmDispatchReturn(retired, sp, lr)
    PROVE  IInv'
<1>1. /\ at \in {"ARM_ENTRY", "CALLBACK_ARM", "CALLBACK_ARM_AGAIN"}
      /\ retired \in 0 .. remaining
  BY DEF ArmDispatchReturn, ArmRun
<1>2. TypeOK /\ Books
  BY DEF IInv
<1>3. /\ context \in Context /\ root \in Frame /\ Control.resume \in Address
      /\ root.resumePc \in Address /\ root.dispatchSp \in StackPointer
      /\ root.callSp \in StackPointer /\ entry.originalSp \in StackPointer
  BY <1>2, FrameFields, ContextFields, OneShotAssumption DEF TypeOK
<1>4. remaining - retired \in 0 .. MaxBudget
  BY <1>1, <1>2, OneShotAssumption DEF TypeOK
<1>5. CASE op = "ROUNDTRIP"
  <2>1. /\ context' = [context EXCEPT !.pc = root.resumePc, !.sp = root.dispatchSp]
        /\ at' = "ARM_RETURN" /\ remaining' = remaining - retired
        /\ UNCHANGED <<op, expected, root, nested, generation, stats, entry, stack, leaked>>
    BY <1>5 DEF ArmDispatchReturn
  <2>2. context' \in Context /\ context'.cookie = context.cookie
    BY <1>3, <2>1, ContextMoved
  <2>3. GoesOn("ARM_RETURN")
    BY <1>4, <2>1, <2>2 DEF GoesOn
  <2>4. at = "ARM_ENTRY"
    BY <1>1, <1>2, <1>5 DEF Books, Segments
  <2>5. ~Before /\ ~Before' /\ Segments' /\ Counts'
    BY <1>2, <1>5, <2>1, <2>4 DEF Books, Before, Segments, Counts, stats
  <2> QED
    BY <2>3, <2>4, <2>5, GoesOnKeeps DEF ArmSegments
<1>6. CASE op = "CALLBACK"
  <2>1. /\ Succeed([context EXCEPT !.pc = Control.resume, !.sp = root.callSp, !.isa = "X64"])
        /\ UNCHANGED <<stack, leaked>>
    BY <1>6 DEF ArmDispatchReturn
  <2>2. [context EXCEPT !.pc = Control.resume, !.sp = root.callSp, !.isa = "X64"] \in Context
    BY <1>3, ContextMoved
  <2>3. at = "CALLBACK_ARM" /\ ~root.written /\ ~nested.active
    BY <1>1, <1>2, <1>6 DEF Books, Segments, Shapes
  <2>4. pushes = pops + 1
    BY <1>2, <1>6, <2>3 DEF Books, Counts, Before
  <2>5. leaked' = (leaked \/ root.written)
    BY <1>2, <2>1, <2>3, Zenon DEF TypeOK
  <2> QED
    BY <2>1, <2>2, <2>3, <2>4, <2>5, SucceedKeeps
<1>7. CASE op = "NESTED"
  <2>1. /\ at = "CALLBACK_ARM_AGAIN"
        /\ context' = [context EXCEPT !.pc = Control.resume, !.sp = root.callSp,
                                      !.isa = "X64", !.originalSp = entry.originalSp]
        /\ at' = "X64_RESUMED" /\ remaining' = remaining - retired
        /\ UNCHANGED <<op, expected, root, nested, generation, stats, entry, stack, leaked>>
    BY <1>7 DEF ArmDispatchReturn
  <2>2. context' \in Context /\ context'.cookie = context.cookie
    <3> DEFINE pc == Control.resume
               call == root.callSp
               osp == entry.originalSp
    <3>1. context' = [context EXCEPT !.pc = pc, !.sp = call, !.isa = "X64", !.originalSp = osp]
      BY <2>1
    <3>2. pc \in Address /\ call \in StackPointer /\ osp \in StackPointer
      BY <1>3
    <3> HIDE DEF pc, call, osp
    <3> QED
      BY <1>3, <3>1, <3>2, Zenon DEF Context
  <2>3. GoesOn("X64_RESUMED")
    BY <1>4, <2>1, <2>2 DEF GoesOn
  <2>4. ~Before /\ ~Before' /\ Segments' /\ Counts'
    BY <1>2, <1>7, <2>1 DEF Books, Before, Segments, Counts, stats
  <2> QED
    BY <2>1, <2>3, <2>4, GoesOnKeeps DEF X64Segments
<1>8. op \in {"ROUNDTRIP", "CALLBACK", "NESTED"}
  BY <1>1, <1>2 DEF TypeOK, Books, Segments, Operations
<1> QED
  BY <1>5, <1>6, <1>7, <1>8

\* The ARM64EC caller returns to the host.
LEMMA HostReturnKeeps ==
    ASSUME IInv, NEW sp \in StackPointer, ArmHostReturn(sp)
    PROVE  IInv'
<1>1. /\ at = "ARM_RETURN" /\ Succeed([context EXCEPT !.pc = HostReturn, !.sp = sp])
      /\ leaked' = (leaked \/ root.written) /\ UNCHANGED stack
  BY DEF ArmHostReturn
<1>2. [context EXCEPT !.pc = HostReturn, !.sp = sp] \in Context
  BY ContextMoved, OneShotAssumption DEF IInv, TypeOK
<1>3. ~nested.active /\ pushes = pops + 1
  BY <1>1 DEF IInv, Books, Shapes, Counts
<1> QED
  BY <1>1, <1>2, <1>3, SucceedKeeps

-----------------------------------------------------------------------------
(* x64 instructions.                                                        *)

\* An instruction ends in a context with the cookie it started with, and
\* writes no record.
Executed(c, memory) ==
    /\ c \in Context /\ c.cookie = context.cookie
    /\ memory \in [Word -> Value]
    /\ \A w \in Word : memory[w] = Sentinel => stack[w] = Sentinel
    /\ remaining' \in 0 .. MaxBudget

\* An instruction inside x64 code preserves the invariant.
LEMMA ContinuesKeeps ==
    ASSUME IInv, NEW c, NEW memory, Executed(c, memory), X64Continues(c, memory)
    PROVE  IInv'
<1>1. /\ context' = c /\ stack' = memory
      /\ UNCHANGED <<control, root, nested, generation, stats, entry, leaked>>
  BY DEF X64Continues
<1>2. TypeOK'
  BY <1>1, Zenon DEF IInv, TypeOK, Executed, control, stats
<1>3. Books'
  <2>1. Segments' /\ Shapes' /\ Counts' /\ Targets'
    BY <1>1, Zenon DEF IInv, Books, Segments, Shapes, Before, Counts, Targets, control, stats
  <2>2. FramesBalanced'
    BY <1>1 DEF IInv, Books, FramesBalanced, Executed, stats, Active
  <2> QED
    BY <2>1, <2>2 DEF Books
<1>4. OldWords(root, nested)'
  BY <1>1 DEF IInv, OldWords
<1>5. NoStrayRecord'
  BY <1>1 DEF IInv, NoStrayRecord, Executed
<1> QED
  BY <1>2, <1>3, <1>4, <1>5 DEF IInv

\* The context in which ARM64EC code is entered.
LEMMA EnterTyped ==
    ASSUME NEW c \in Context, NEW memory, NEW target \in Address, NEW callSp \in StackPointer,
           NEW lr \in Address, NEW segment, NEW cookie \in 0 .. MaxCookie,
           EnterArm(c, memory, target, callSp, lr, segment, cookie)
    PROVE  context' \in Context /\ context'.cookie = cookie
<1> DEFINE pc == Resolve[Thunk[target]].va
           sp == Aligned(callSp)
<1>1. pc \in Address
  BY OneShotAssumption
<1>2. sp \in StackPointer
  BY AlignedTyped
<1>3. context' = [c EXCEPT !.isa = "ARM64EC", !.pc = pc, !.lr = lr, !.sp = sp,
                           !.originalSp = callSp, !.cookie = cookie]
  BY DEF EnterArm
<1> HIDE DEF pc, sp
<1> QED
  BY <1>1, <1>2, <1>3, Zenon DEF Context

\* The frame r is the outer one or has just been pushed without a record.
Entering(r, segment) ==
    /\ r \in Frame /\ r.active
    /\ r.written = root.written /\ r.old = root.old
    /\ root.written => r.record = root.record
    /\ context' \in Context /\ context'.cookie = r.cookie
    /\ generation' \in 0 .. MaxCookie
    /\ root' = r /\ at' = segment /\ pushes' = 1

\* Entering ARM64EC code with such a frame preserves the invariant.
LEMMA EnterKeeps ==
    ASSUME IInv, NEW c, NEW memory, Executed(c, memory), at = "X64_OUTER",
           NEW target, NEW callSp, NEW lr, NEW cookie, NEW r, NEW segment,
           EnterArm(c, memory, target, callSp, lr, segment, cookie),
           Entering(r, segment),
           \/ op = "ROUNDTRIP" /\ segment = "ARM_ENTRY"
           \/ op \in {"CALLBACK", "NESTED"} /\ segment = "CALLBACK_ARM"
    PROVE  IInv'
<1>1. /\ at' = segment /\ stack' = memory
      /\ UNCHANGED <<op, expected, nested, checks, pops, entry, leaked>>
  BY DEF EnterArm
<1>2. TypeOK /\ Books
  BY DEF IInv
<1>3. ~nested.active /\ nested = NoFrame /\ pops = 0
  BY <1>2 DEF Books, Shapes, Counts
<1>4. TypeOK'
  <2>1. at' \in {"HOST"} \cup ArmSegments \cup X64Segments
    BY <1>1 DEF ArmSegments
  <2>2. pushes' \in 0 .. 2
    BY DEF Entering
  <2> QED
    BY <1>1, <1>2, <2>1, <2>2, Zenon DEF TypeOK, Executed, Entering
<1>5. Books'
  <2>1. Segments'
    BY <1>1 DEF Segments
  <2>2. Shapes'
    BY <1>1, <1>2, <1>3, EmptyFields DEF Shapes, Before, Entering, Books
  <2>3. Counts'
    BY <1>1, <1>3 DEF Counts, Before, Entering
  <2>4. Targets'
    BY <1>1, <1>2 DEF Books, Targets
  <2>5. FramesBalanced'
    BY <1>1, <1>3 DEF FramesBalanced, Active, Entering
  <2> QED
    BY <2>1, <2>2, <2>3, <2>4, <2>5 DEF Books
<1>6. OldWords(root, nested)'
  BY <1>1, <1>3, EmptyFields DEF IInv, OldWords, Entering
<1>7. NoStrayRecord'
  BY <1>1, <1>3, EmptyFields DEF IInv, NoStrayRecord, Entering, Executed
<1> QED
  BY <1>4, <1>5, <1>6, <1>7 DEF IInv

\* The round trip enters its finish function.
LEMMA FinishesKeeps ==
    ASSUME IInv, NEW c, NEW memory, Executed(c, memory), X64Finishes(c, memory)
    PROVE  IInv'
<1> DEFINE r == [root EXCEPT !.callSp = c.sp + 1]
<1>1. /\ at = "X64_OUTER" /\ op = "ROUNDTRIP" /\ c.sp < Words /\ root' = r
      /\ EnterArm(c, memory, Control.finish, c.sp + 1, Sentinel, "ARM_ENTRY", c.cookie)
      /\ UNCHANGED <<pushes, generation>>
  BY DEF X64Finishes
<1>2. /\ c \in Context /\ c.cookie = context.cookie /\ c.cookie \in 0 .. MaxCookie
      /\ c.sp \in StackPointer /\ root \in Frame
  BY ContextFields DEF Executed, IInv, TypeOK
<1>3. c.sp + 1 \in StackPointer /\ Control.finish \in Address /\ Sentinel \in Address
  BY <1>1, <1>2, OneShotAssumption DEF StackPointer
<1>4. root.active /\ ~nested.active /\ pushes = 1 /\ context.cookie = root.cookie
  BY <1>1 DEF IInv, Books, Shapes, Counts, Before, FramesBalanced
<1>5. /\ r \in Frame /\ r.active = root.active /\ r.written = root.written /\ r.old = root.old
      /\ r.record = root.record /\ r.cookie = root.cookie
  BY <1>2, <1>3, Zenon DEF Frame
<1> HIDE DEF r
<1>6. context' \in Context /\ context'.cookie = c.cookie
  BY <1>1, <1>2, <1>3, EnterTyped
<1>7. at' = "ARM_ENTRY" /\ generation' \in 0 .. MaxCookie
  BY <1>1 DEF EnterArm, IInv, TypeOK
<1>8. Entering(r, "ARM_ENTRY")
  BY <1>1, <1>2, <1>4, <1>5, <1>6, <1>7 DEF Entering
<1> QED
  BY <1>1, <1>8, EnterKeeps

\* A callback's frame: the outer frame with the caller's stack pointer.
CalledFrame(f, callSp, record) == [f EXCEPT !.callSp = callSp, !.record = record]

\* It differs from the outer frame in these fields only.
LEMMA CalledTyped ==
    ASSUME NEW f \in Frame, NEW callSp \in StackPointer, NEW record \in Word
    PROVE  /\ CalledFrame(f, callSp, record) \in Frame
           /\ CalledFrame(f, callSp, record).active = f.active
           /\ CalledFrame(f, callSp, record).cookie = f.cookie
           /\ CalledFrame(f, callSp, record).written = f.written
           /\ CalledFrame(f, callSp, record).old = f.old
           /\ CalledFrame(f, callSp, record).record = record
BY Zenon DEF Frame, CalledFrame

\* The callback and nested operations enter the callback.
LEMMA CallsKeeps ==
    ASSUME IInv, NEW c, NEW memory, NEW isCall, Executed(c, memory), X64Calls(c, memory, isCall)
    PROVE  IInv'
<1>1. TypeOK /\ Books /\ root \in Frame /\ generation \in 0 .. MaxCookie
  BY DEF IInv, TypeOK
<1>2. /\ c \in Context /\ c.cookie = context.cookie /\ c.cookie \in 0 .. MaxCookie
      /\ c.sp \in StackPointer /\ context.sp \in StackPointer
  BY <1>1, ContextFields DEF Executed, TypeOK
<1>3. /\ at = "X64_OUTER" /\ op \in {"CALLBACK", "NESTED"} /\ c.sp = context.sp - 1
      /\ EnterArm(c, memory, Control.callback, context.sp, Control.resume, "CALLBACK_ARM",
                  IF op = "CALLBACK" THEN NextCookie ELSE c.cookie)
  BY DEF X64Calls
<1>4. c.sp \in Word /\ Control.callback \in Address /\ Control.resume \in Address
  BY <1>2, <1>3, OneShotAssumption DEF StackPointer, Word
<1>5. NextCookie \in 0 .. MaxCookie
  BY <1>1, CookieTyped
<1>6. at' = "CALLBACK_ARM"
  BY <1>3 DEF EnterArm
<1>7. CASE op = "CALLBACK"
  <2> DEFINE called == CalledFrame(root, context.sp, c.sp)
             r == [called EXCEPT !.active = TRUE, !.cookie = NextCookie]
  <2>1. root' = r /\ pushes' = pushes + 1 /\ generation' = NextCookie
    BY <1>7 DEF X64Calls, CalledFrame
  <2>2. /\ called \in Frame /\ called.written = root.written /\ called.old = root.old
    BY <1>1, <1>2, <1>4, CalledTyped
  <2> HIDE DEF called
  <2>3. /\ r \in Frame /\ r.active /\ r.cookie = NextCookie
        /\ r.written = called.written /\ r.old = called.old
    BY <1>5, <2>2, PushedFrame
  <2> HIDE DEF r
  <2>4. ~root.written /\ pushes = 0
    BY <1>1, <1>3, <1>7 DEF Books, Shapes, Counts, Before
  <2>5. context' \in Context /\ context'.cookie = NextCookie
    BY <1>2, <1>3, <1>4, <1>5, <1>7, EnterTyped
  <2>6. Entering(r, "CALLBACK_ARM")
    BY <1>5, <1>6, <2>1, <2>2, <2>3, <2>4, <2>5 DEF Entering
  <2> QED
    BY <1>3, <2>6, EnterKeeps
<1>8. CASE op = "NESTED"
  <2> DEFINE r == CalledFrame(root, context.sp, root.record)
  <2>1. root' = r /\ UNCHANGED <<pushes, generation>>
    BY <1>8 DEF X64Calls, CalledFrame
  <2>2. root.record \in Word
    BY <1>1, FrameFields
  <2>3. /\ r \in Frame /\ r.active = root.active /\ r.cookie = root.cookie
        /\ r.written = root.written /\ r.old = root.old /\ r.record = root.record
    BY <1>1, <1>2, <2>2, CalledTyped
  <2> HIDE DEF r
  <2>4. root.active /\ ~nested.active /\ pushes = 1 /\ context.cookie = root.cookie
    BY <1>1, <1>3, <1>8 DEF Books, Shapes, Counts, Before, FramesBalanced
  <2>5. context' \in Context /\ context'.cookie = c.cookie
    BY <1>2, <1>3, <1>4, <1>8, EnterTyped
  <2>6. Entering(r, "CALLBACK_ARM")
    BY <1>1, <1>2, <1>6, <2>1, <2>3, <2>4, <2>5 DEF Entering
  <2> QED
    BY <1>3, <2>6, EnterKeeps
<1> QED
  BY <1>3, <1>7, <1>8

\* Returning over a frame's record gives the word back.
LEMMA GivenBack ==
    ASSUME NEW c, NEW memory, NEW isRet, NEW frame \in Frame, Executed(c, memory),
           X64Returns(c, memory, isRet, frame)
    PROVE  /\ stack' \in [Word -> Value]
           /\ \A w \in Word : stack'[w] = Sentinel =>
                 IF w = frame.record THEN frame.old = Sentinel ELSE stack[w] = Sentinel
<1>1. frame.record \in Word /\ frame.old \in Value
  BY FrameFields
<1> QED
  BY <1>1 DEF X64Returns, Executed

\* The inner x64 function returns.
LEMMA ReturnsInnerKeeps ==
    ASSUME IInv, NEW c, NEW memory, NEW isRet, Executed(c, memory),
           X64ReturnsInner(c, memory, isRet)
    PROVE  IInv'
<1>1. TypeOK /\ Books /\ root \in Frame /\ nested \in Frame /\ c \in Context
  BY DEF IInv, TypeOK, Executed
<1>2. /\ at = "X64_INNER" /\ X64Returns(c, memory, isRet, nested)
      /\ nested' = NoFrame /\ pops' = pops + 1 /\ at' = "CALLBACK_ARM_AGAIN"
      /\ UNCHANGED <<op, expected, root, generation, checks, pushes, entry, leaked>>
  BY DEF X64ReturnsInner
<1>3. context' \in Context /\ context'.cookie = root.cookie
  <2> DEFINE pc == nested.resumePc
             sp == nested.dispatchSp
             osp == root.callSp
             k == root.cookie
  <2>1. /\ pc \in Address /\ sp \in StackPointer /\ osp \in StackPointer
        /\ k \in 0 .. MaxCookie
    BY <1>1, FrameFields
  <2>2. context' = [c EXCEPT !.isa = "ARM64EC", !.pc = pc, !.sp = sp, !.originalSp = osp,
                             !.cookie = k]
    BY DEF X64ReturnsInner, InnerReturnCookie
  <2> HIDE DEF pc, sp, osp, k
  <2>3. context' \in Context /\ context'.cookie = k
    BY <1>1, <2>1, <2>2, Zenon DEF Context
  <2> QED
    BY <2>3 DEF k
<1>4. op = "NESTED" /\ root.active /\ root.written /\ pushes = 2 /\ pops = 0
  BY <1>1, <1>2 DEF Books, Segments, Shapes, Counts, Before, TypeOK, Operations
<1>5. /\ stack' \in [Word -> Value]
      /\ \A w \in Word : stack'[w] = Sentinel =>
            IF w = nested.record THEN nested.old = Sentinel ELSE stack[w] = Sentinel
  BY <1>1, <1>2, GivenBack
<1>6. TypeOK'
  <2>1. at' \in {"HOST"} \cup ArmSegments \cup X64Segments
    BY <1>2 DEF ArmSegments
  <2>2. pops' \in 0 .. 2
    BY <1>2, <1>4
  <2> QED
    BY <1>1, <1>2, <1>3, <1>5, <2>1, <2>2, EmptyTyped, Zenon DEF TypeOK, Executed
<1>7. Books'
  <2>1. Segments'
    BY <1>2, <1>4 DEF Segments
  <2>2. Shapes'
    BY <1>2, <1>4, EmptyFields DEF Shapes, Before
  <2>3. Counts'
    BY <1>2, <1>4 DEF Counts, Before
  <2>4. Targets'
    BY <1>1, <1>2 DEF Books, Targets
  <2>5. FramesBalanced'
    BY <1>2, <1>3, <1>4, EmptyFields DEF FramesBalanced, Active
  <2> QED
    BY <2>1, <2>2, <2>3, <2>4, <2>5 DEF Books
<1>8. OldWords(root, nested)'
  BY <1>2, EmptyFields DEF IInv, OldWords
<1>9. NoStrayRecord'
  <2> SUFFICES ASSUME NEW w \in Word, stack'[w] = Sentinel, ~leaked
               PROVE  root.record = w
    BY <1>2, <1>4 DEF NoStrayRecord
  <2>1. CASE w = nested.record
    <3>1. nested.old = Sentinel /\ nested.written
      BY <1>1, <1>2, <1>5, <2>1 DEF Books, Shapes
    <3> QED
      BY <2>1, <3>1 DEF IInv, OldWords
  <2>2. CASE w # nested.record
    BY <1>5, <2>2 DEF IInv, NoStrayRecord
  <2> QED
    BY <2>1, <2>2
<1> QED
  BY <1>6, <1>7, <1>8, <1>9 DEF IInv

\* The outer x64 function returns.
LEMMA ReturnsOuterKeeps ==
    ASSUME IInv, NEW c, NEW memory, NEW isRet, Executed(c, memory),
           X64ReturnsOuter(c, memory, isRet)
    PROVE  IInv'
<1>1. TypeOK /\ Books /\ root \in Frame /\ c \in Context /\ c.cookie = context.cookie
  BY DEF IInv, TypeOK, Executed
<1>2. /\ (at = "X64_OUTER" /\ op = "RETURN") \/ at = "X64_RESUMED"
      /\ X64Returns(c, memory, isRet, root)
      /\ root' = [root EXCEPT !.written = FALSE] /\ at' = "ARM_RETURN"
      /\ UNCHANGED <<op, expected, nested, generation, stats, entry, leaked>>
  BY DEF X64ReturnsOuter
<1>3. context' \in Context /\ context'.cookie = c.cookie
  <2> DEFINE lr == c.lr
             back == entry.lr
             sp == entry.sp
             osp == entry.originalSp
  <2>1. lr \in Address /\ back \in Address /\ sp \in StackPointer /\ osp \in StackPointer
    BY <1>1, ContextFields DEF TypeOK
  <2>2. \/ context' = [c EXCEPT !.isa = "ARM64EC", !.pc = lr]
        \/ context' = [c EXCEPT !.isa = "ARM64EC", !.pc = back, !.lr = back, !.sp = sp,
                                !.originalSp = osp]
    BY Zenon DEF X64ReturnsOuter
  <2> HIDE DEF lr, back, sp, osp
  <2>3. /\ [c EXCEPT !.isa = "ARM64EC", !.pc = lr] \in Context
        /\ [c EXCEPT !.isa = "ARM64EC", !.pc = lr].cookie = c.cookie
    BY <1>1, <2>1, Zenon DEF Context
  <2>4. CASE context' = [c EXCEPT !.isa = "ARM64EC", !.pc = back, !.lr = back, !.sp = sp,
                                  !.originalSp = osp]
    BY <1>1, <2>1, <2>4, Zenon DEF Context
  <2> QED
    BY <2>2, <2>3, <2>4
<1>4. /\ op \in {"RETURN", "NESTED"} /\ root.active /\ root.written
      /\ ~nested.active /\ nested = NoFrame
      /\ pushes = pops + 1
  BY <1>1, <1>2 DEF Books, Segments, Shapes, Counts, Before, TypeOK, Operations
<1>5. /\ stack' \in [Word -> Value]
      /\ \A w \in Word : stack'[w] = Sentinel =>
            IF w = root.record THEN root.old = Sentinel ELSE stack[w] = Sentinel
  BY <1>1, <1>2, GivenBack
<1>6. root' \in Frame /\ root'.active /\ ~root'.written /\ root'.cookie = root.cookie
  BY <1>1, <1>2, <1>4, Zenon DEF Frame
<1>7. TypeOK'
  <2>1. at' \in {"HOST"} \cup ArmSegments \cup X64Segments
    BY <1>2 DEF ArmSegments
  <2> QED
    BY <1>1, <1>2, <1>3, <1>5, <1>6, <2>1, Zenon DEF TypeOK, Executed, stats
<1>8. Books'
  <2>1. Segments'
    BY <1>2, <1>4 DEF Segments
  <2>2. Shapes'
    BY <1>2, <1>4, <1>6, EmptyFields DEF Shapes, Before
  <2>3. Counts'
    BY <1>2, <1>4 DEF Counts, Before, stats
  <2>4. Targets'
    BY <1>1, <1>2 DEF Books, Targets
  <2>5. FramesBalanced'
    BY <1>1, <1>2, <1>3, <1>4, <1>6 DEF FramesBalanced, Active, Books, stats
  <2> QED
    BY <2>1, <2>2, <2>3, <2>4, <2>5 DEF Books
<1>9. OldWords(root, nested)'
  BY <1>2, <1>4, <1>6, EmptyFields DEF OldWords
<1>10. NoStrayRecord'
  <2> SUFFICES ASSUME NEW w \in Word, stack'[w] = Sentinel PROVE leaked
    BY <1>2 DEF NoStrayRecord
  <2>1. CASE w = root.record
    BY <1>4, <1>5, <2>1 DEF IInv, OldWords
  <2>2. CASE w # root.record
    BY <1>4, <1>5, <2>2, EmptyFields DEF IInv, NoStrayRecord
  <2> QED
    BY <2>1, <2>2
<1> QED
  BY <1>7, <1>8, <1>9, <1>10 DEF IInv

\* Every x64 instruction preserves the invariant.
LEMMA InstructionKeeps ==
    ASSUME IInv, NEW c, NEW memory, NEW isCall, NEW isRet, c \in Context,
           c.cookie = context.cookie, memory \in [Word -> Value],
           \A w \in Word : memory[w] = Sentinel => stack[w] = Sentinel,
           X64Instruction(c, memory, isCall, isRet)
    PROVE  IInv'
<1>1. remaining' \in 0 .. MaxBudget
  BY OneShotAssumption DEF X64Instruction, X64Remaining, IInv, TypeOK
<1>2. Executed(c, memory)
  BY <1>1 DEF Executed
<1>3. \/ X64Continues(c, memory) \/ X64Finishes(c, memory) \/ X64Calls(c, memory, isCall)
      \/ X64ReturnsInner(c, memory, isRet) \/ X64ReturnsOuter(c, memory, isRet)
  BY DEF X64Instruction
<1> QED
  BY <1>2, <1>3, ContinuesKeeps, FinishesKeeps, CallsKeeps, ReturnsInnerKeeps, ReturnsOuterKeeps

\* Jumps, CALLs and RETs are such instructions.
LEMMA X64Keeps == ASSUME IInv, X64 PROVE IInv'
<1>1. context \in Context /\ stack \in [Word -> Value] /\ context.sp \in StackPointer
  BY ContextFields DEF IInv, TypeOK
<1>2. ASSUME NEW pc \in Address, NEW sp \in StackPointer,
             X64Instruction([context EXCEPT !.pc = pc, !.sp = sp], stack, FALSE, FALSE)
      PROVE  IInv'
  <2> DEFINE c == [context EXCEPT !.pc = pc, !.sp = sp]
  <2>1. c \in Context /\ c.cookie = context.cookie
    BY <1>1, ContextMoved
  <2> HIDE DEF c
  <2>2. X64Instruction(c, stack, FALSE, FALSE)
    BY <1>2 DEF c
  <2> QED
    BY <1>1, <2>1, <2>2, InstructionKeeps
<1>3. ASSUME NEW pc \in Address, NEW next \in GuestValue, context.sp > 0,
             X64Instruction([context EXCEPT !.pc = pc, !.sp = @ - 1],
                            [stack EXCEPT ![context.sp - 1] = next], TRUE, FALSE)
      PROVE  IInv'
  <2> DEFINE below == context.sp - 1
             c == [context EXCEPT !.pc = pc, !.sp = below]
             memory == [stack EXCEPT ![below] = next]
  <2>1. below \in StackPointer /\ below \in Word
    BY <1>1, <1>3, OneShotAssumption DEF StackPointer, Word
  <2>2. X64Instruction(c, memory, TRUE, FALSE)
    BY <1>3
  <2> HIDE DEF below
  <2>3. c \in Context /\ c.cookie = context.cookie
    BY <1>1, <2>1, ContextMoved
  <2>4. /\ memory \in [Word -> Value]
        /\ \A w \in Word : memory[w] = Sentinel => stack[w] = Sentinel
    BY <1>1, <2>1, ValueIsAddress
  <2> HIDE DEF c, memory
  <2> QED
    BY <2>2, <2>3, <2>4, InstructionKeeps
<1>4. ASSUME context.sp < Words,
             X64Instruction([context EXCEPT !.pc = stack[context.sp], !.sp = @ + 1],
                            stack, FALSE, TRUE)
      PROVE  IInv'
  <2> DEFINE above == context.sp + 1
             pc == stack[context.sp]
             c == [context EXCEPT !.pc = pc, !.sp = above]
  <2>1. above \in StackPointer /\ context.sp \in Word
    BY <1>1, <1>4, OneShotAssumption DEF StackPointer, Word
  <2>2. pc \in Address
    BY <1>1, <2>1, ValueIsAddress
  <2>3. X64Instruction(c, stack, FALSE, TRUE)
    BY <1>4
  <2> HIDE DEF above, pc
  <2>4. c \in Context /\ c.cookie = context.cookie
    BY <1>1, <2>1, <2>2, ContextMoved
  <2> HIDE DEF c
  <2> QED
    BY <1>1, <2>3, <2>4, InstructionKeeps
<1> QED
  BY <1>2, <1>3, <1>4 DEF X64

-----------------------------------------------------------------------------
(* All steps.                                                               *)

\* Every ARM64EC step preserves the invariant.
LEMMA ArmKeeps == ASSUME IInv, Arm PROVE IInv'
<1>1. \/ \E r \in 0 .. remaining, t \in Address : ArmCheck(r, t)
      \/ \E r \in 0 .. remaining, sp \in StackPointer, lr \in Address, t \in Address :
            ArmDispatchCall(r, sp, lr, t) \/ ArmBranch(r, sp, lr, t)
      \/ \E r \in 0 .. remaining, sp \in StackPointer, lr \in Address : ArmBranchInner(r, sp, lr)
      \/ \E r \in 0 .. remaining, sp \in StackPointer, lr \in Address : ArmDispatchReturn(r, sp, lr)
      \/ \E sp \in StackPointer : ArmHostReturn(sp)
  BY Zenon DEF Arm
<1> QED
  BY <1>1, CheckKeeps, DispatchCallKeeps, BranchKeeps, BranchInnerKeeps, DispatchReturnKeeps,
     HostReturnKeeps

\* Guest stores write no sentinel.
LEMMA StoreKeeps ==
    ASSUME IInv, NEW w \in Word, NEW d \in GuestValue, GuestStore(w, d)
    PROVE  IInv'
<1>1. /\ stack' = [stack EXCEPT ![w] = d]
      /\ UNCHANGED <<control, root, nested, generation, stats, context, entry, remaining, leaked>>
  BY DEF GuestStore
<1>2. /\ stack' \in [Word -> Value]
      /\ \A v \in Word : stack'[v] = Sentinel => stack[v] = Sentinel
  BY <1>1, ValueIsAddress DEF IInv, TypeOK
<1>3. TypeOK'
  BY <1>1, <1>2, Zenon DEF IInv, TypeOK, control, stats
<1>4. Books'
  BY <1>1, Zenon DEF IInv, Books, Segments, Shapes, Before, Counts, Targets, FramesBalanced,
                     control, stats
<1>5. OldWords(root, nested)' /\ NoStrayRecord'
  BY <1>1, <1>2 DEF IInv, OldWords, NoStrayRecord
<1> QED
  BY <1>3, <1>4, <1>5 DEF IInv

\* The initial states satisfy the invariant.
LEMMA InitKeeps == ASSUME Init PROVE IInv
<1>1. /\ op = "NONE" /\ at = "HOST" /\ root = NoFrame /\ nested = NoFrame
      /\ expected = NoTargets /\ generation = 0 /\ checks = 0 /\ pushes = 0 /\ pops = 0
      /\ context \in EntryContext /\ entry = context /\ remaining = 0 /\ leaked = FALSE
  BY DEF Init
<1>2. stack \in [Word -> Value] /\ \A w \in Word : stack[w] # Sentinel
  <2>1. PICK d \in GuestValue : stack = [w \in Word |-> d]
    BY DEF Init
  <2> QED
    BY <2>1, ValueIsAddress
<1>3. context \in Context /\ context.cookie = 0
  BY <1>1, EntryTyped DEF EntryContext
<1>4. TypeOK
  <2>1. /\ generation \in 0 .. MaxCookie /\ remaining \in 0 .. MaxBudget
        /\ checks \in 0 .. 2 /\ pushes \in 0 .. 2 /\ pops \in 0 .. 2
    BY <1>1, OneShotAssumption
  <2> QED
    BY <1>1, <1>2, <1>3, <2>1, EmptyTyped DEF TypeOK
<1>5. Books
  BY <1>1, <1>3, EmptyFields DEF Books, Segments, Shapes, Before, Counts, Targets,
                                 FramesBalanced, Active
<1>6. OldWords(root, nested) /\ NoStrayRecord
  BY <1>1, <1>2, EmptyFields DEF OldWords, NoStrayRecord
<1> QED
  BY <1>4, <1>5, <1>6 DEF IInv

\* Every step preserves the invariant.
LEMMA NextKeeps == ASSUME IInv, [Next]_vars PROVE IInv'
<1>1. CASE UNCHANGED vars
  <2>1. UNCHANGED <<op, at, expected, root, nested, generation, checks, pushes, pops, context,
                    entry, remaining, stack, leaked>>
    BY <1>1 DEF vars, control, stats
  <2>2. TypeOK'
    BY <2>1, Zenon DEF IInv, TypeOK
  <2>3. Books'
    BY <2>1, Zenon DEF IInv, Books, Segments, Shapes, Before, Counts, Targets, FramesBalanced
  <2>4. OldWords(root, nested)' /\ NoStrayRecord'
    BY <2>1 DEF IInv, OldWords, NoStrayRecord
  <2> QED
    BY <2>2, <2>3, <2>4 DEF IInv
<1>2. CASE \E o \in Operations, c \in EntryContext, budget \in 1 .. MaxBudget : Call(o, c, budget)
  BY <1>2, CallKeeps
<1>3. CASE Step
  BY <1>3, FailKeeps, FailPushedKeeps, ArmKeeps, X64Keeps DEF Step
<1>4. CASE \E w \in Word, d \in GuestValue : GuestStore(w, d)
  BY <1>4, StoreKeeps
<1> QED
  BY <1>1, <1>2, <1>3, <1>4 DEF Next

\* The inductive invariant always holds.
LEMMA Invariance == Spec => []IInv
<1>1. Init => IInv
  BY InitKeeps
<1>2. IInv /\ [Next]_vars => IInv'
  BY NextKeeps
<1> QED
  BY <1>1, <1>2, PTL DEF Spec

\* However a one-shot operation ends, no frame, cookie or expected target of it
\* is left to steer the next one.
THEOREM LeavesNothing == Spec => []IdleIsClean
<1>1. IInv => IdleIsClean
  <2> SUFFICES ASSUME IInv, ~Running PROVE
         root = NoFrame /\ nested = NoFrame /\ expected = NoTargets /\ context.cookie = 0
    BY DEF IdleIsClean
  <2>1. at = "HOST" /\ op = "NONE"
    BY DEF Running, IInv, Books, Segments
  <2>2. root = NoFrame /\ nested = NoFrame
    BY <2>1 DEF IInv, Books, Shapes, Before
  <2> QED
    BY <2>1, <2>2, EmptyFields DEF IInv, Books, Targets, FramesBalanced
<1> QED
  BY <1>1, Invariance, PTL

\* Every frame an operation pushes is popped exactly once on each of its exits,
\* and the context carries the cookie of the innermost frame.
THEOREM FramesStayBalanced == Spec => []FramesBalanced
<1>1. IInv => FramesBalanced
  BY DEF IInv, Books
<1> QED
  BY <1>1, Invariance, PTL

\* A word of the stack that holds the return sentinel is the record of a live
\* frame, unless a restoring transaction failed or a round trip has completed.
THEOREM RecordsGivenBack == Spec => []NoStrayRecord
<1>1. IInv => NoStrayRecord
  BY DEF IInv
<1> QED
  BY <1>1, Invariance, PTL
=============================================================================
