---------------------------- MODULE HybridOneShot ----------------------------
(***************************************************************************)
(* The four one-shot operations of src/gem/hybrid_runtime.c: round trip,   *)
(* return, callback resume and nested call.  Each runs a fixed sequence of *)
(* ARM64EC and x64 segments under one budget and either completes or puts  *)
(* everything back: context, return records and frames.                    *)
(*                                                                         *)
(* Guest code is any code.  Where the operation refuses what it did, and   *)
(* where an engine faults or the budget ends, the code jumps to the exit   *)
(* labels modelled by Fail; the other actions are what it accepts.         *)
(***************************************************************************)
EXTENDS Integers, FiniteSets

CONSTANTS
    Address,      \* guest code addresses, the two sentinels included
    Resolve,      \* hybrid_resolve: kind and resolved_va of each address
    Thunk,        \* where the entry-thunk descriptor of a function points
    Sentinel,     \* config.x64_return_sentinel
    HostReturn,   \* config.host_return_sentinel
    Control,      \* addresses the caller says the operation will use
    Words,        \* words of the guest stack
    GuestValue,   \* what guest code stores on the stack
    MaxBudget,    \* config.max_budget
    MaxCookie     \* stands for UINT64_MAX

Word == 0 .. Words - 1
StackPointer == 0 .. Words
Value == GuestValue \cup {Sentinel}

ASSUME OneShotAssumption ==
    /\ Resolve \in [Address -> [kind : {"ARM", "X64", "NONE"}, va : Address]]
    /\ Thunk \in [Address -> Address]
    /\ Sentinel \in Address /\ HostReturn \in Address /\ Sentinel # HostReturn
    /\ Resolve[Sentinel].kind = "NONE" /\ Resolve[HostReturn].kind = "NONE"
    /\ Control \in [start : Address, outer : Address, callback : Address, resume : Address,
                    inner : Address, finish : Address]
    /\ Words \in Nat \ {0} /\ MaxBudget \in Nat /\ MaxCookie \in Nat \ {0}
    /\ GuestValue \subseteq Address \ {Sentinel} /\ GuestValue # {}

VARIABLES
    op,           \* the operation under way
    at,           \* where it is; determines runtime->stage
    root, nested, \* runtime->frame and runtime->nested_frame
    expected,     \* expected_x64_target, expected_nested_x64_target
    generation,   \* source of the transition cookies
    checks,       \* stats.checker_boundaries
    pushes, pops, \* stats: frames
    context, entry,  \* the caller's context, and its copy on entry
    remaining,    \* of the budget
    stack,        \* guest memory
    leaked        \* history: a record was left, by failure or by design

control == <<op, at, expected>>
stats == <<checks, pushes, pops>>
vars == <<control, root, nested, generation, stats, context, entry, remaining, stack, leaked>>

Operations == {"ROUNDTRIP", "RETURN", "CALLBACK", "NESTED"}

\* Segments in the order they run.  The code's stage stays ARM_TO_X64 in
\* X64_OUTER, and CALLBACK_ARM_ENTRY from CALLBACK_ARM to X64_RESUMED.
ArmSegments == {"ARM_TO_X64", "ARM_ENTRY", "CALLBACK_ARM", "CALLBACK_ARM_AGAIN", "ARM_RETURN"}
X64Segments == {"X64_OUTER", "X64_INNER", "X64_RESUMED"}
Running == at # "HOST"

\* struct hybrid_frame with the record fields the operations keep in locals.
\* callSp is original_x64_sp or callback_original_x64_sp (= callback_call_sp).
Frame == [active : BOOLEAN, cookie : 0 .. MaxCookie, resumePc : Address,
          dispatchSp : StackPointer, record : Word, old : Value, written : BOOLEAN,
          callSp : StackPointer]
NoFrame == [active |-> FALSE, cookie |-> 0, resumePc |-> Sentinel, dispatchSp |-> 0,
            record |-> 0, old |-> Sentinel, written |-> FALSE, callSp |-> 0]

\* Zero expected targets (and a zero return_mode) are NoTargets.
NoTargets == [outer |-> Sentinel, inner |-> Sentinel]

Context == [isa : {"ARM64EC", "X64"}, pc : Address, sp : StackPointer, lr : Address,
            originalSp : StackPointer, cookie : 0 .. MaxCookie]

Aligned(sp) == sp - (sp % 2)
Is(kind, pc) == Resolve[pc].kind = kind /\ Resolve[pc].va = pc

\* Faulty variant: no bound.
NextCookieUnbounded == generation + 1

NextCookie == IF generation = MaxCookie THEN 1 ELSE generation + 1

\* What a caller passes: a context at rest.
EntryContext ==
    [isa : {"ARM64EC", "X64"}, pc : {Control.start, Control.outer}, sp : {Words},
     lr : {HostReturn}, originalSp : {0}, cookie : {0}]

Init ==
    /\ op = "NONE" /\ at = "HOST" /\ root = NoFrame /\ nested = NoFrame
    /\ expected = NoTargets /\ generation = 0
    /\ checks = 0 /\ pushes = 0 /\ pops = 0
    /\ context \in EntryContext /\ entry = context
    /\ remaining = 0
    /\ \E d \in GuestValue : stack = [w \in Word |-> d]
    /\ leaked = FALSE

-----------------------------------------------------------------------------
(* Accepting a call.                                                        *)

\* The stack page is readable and writable as well (stack_record_supported);
\* a call that is refused changes nothing.
StackUsable(c) == c.sp >= 1

RoundtripAccepts(c) == c.isa = "ARM64EC" /\ c.pc = Control.start /\ StackUsable(c)

ReturnAccepts(c) ==
    /\ c.isa = "ARM64EC" /\ c.pc = Control.start /\ StackUsable(c)
    /\ Resolve[c.pc].kind = "ARM"

CallbackAccepts(c) ==
    /\ c.isa = "X64" /\ Is("X64", c.pc)
    /\ Is("ARM", Control.callback) /\ Is("X64", Control.resume)

NestedAccepts(c) ==
    /\ ReturnAccepts(c)
    /\ Is("X64", Control.outer) /\ Is("ARM", Control.callback)
    /\ Is("X64", Control.resume) /\ Is("X64", Control.inner)

Accepts(o, c) == CASE o = "ROUNDTRIP" -> RoundtripAccepts(c)
                   [] o = "RETURN" -> ReturnAccepts(c)
                   [] o = "CALLBACK" -> CallbackAccepts(c)
                   [] o = "NESTED" -> NestedAccepts(c)

Call(o, c, budget) ==
    /\ at = "HOST" /\ ~root.active /\ ~nested.active /\ c.cookie = 0
    /\ budget \in 1 .. MaxBudget /\ Accepts(o, c)
    /\ op' = o /\ entry' = c /\ remaining' = budget
    /\ at' = (IF o = "CALLBACK" THEN "X64_OUTER" ELSE "ARM_TO_X64")
    /\ expected' = CASE o = "RETURN" -> [expected EXCEPT !.outer = Control.outer]
                     [] o = "NESTED" -> [outer |-> Control.outer, inner |-> Control.inner]
                     [] OTHER -> expected
    /\ context' = (IF o \in {"RETURN", "NESTED"} THEN [c EXCEPT !.pc = Resolve[c.pc].va] ELSE c)
    /\ checks' = 0 /\ pushes' = 0 /\ pops' = 0
    /\ UNCHANGED <<root, nested, generation, stack, leaked>>

-----------------------------------------------------------------------------
(* Leaving.                                                                 *)

Active(frame) == IF frame.active THEN 1 ELSE 0

\* Faulty variant: the outer record first.
RestoredOuterFirst(r, n, memory, ok) ==
    LET give(m, f) == IF f.written /\ ok THEN [m EXCEPT ![f.record] = f.old] ELSE m
    IN give(give(memory, r), n)

\* The written records go back, the inner one first.
Restored(r, n, memory, ok) ==
    LET give(m, f) == IF f.written /\ ok THEN [m EXCEPT ![f.record] = f.old] ELSE m
    IN give(give(memory, n), r)

\* Faulty variant: the next call finds the old targets.
TargetsAfterKept == expected

\* Only the operations that set the targets clear them.
TargetsAfter == IF op \in {"RETURN", "NESTED"} THEN NoTargets ELSE expected

\* Faulty variant: only the outer frame is counted.
PoppedRootOnly(r, n) == Active(r)

Popped(r, n) == Active(r) + Active(n)

\* The exit labels Budget, Propagate, Invariant and Failure with the frames r
\* and n: give the records back (which may fail: the page may have been
\* changed), clear the frames, restore the context.
FailWith(r, n, pushed) ==
    \E ok \in BOOLEAN :
        /\ stack' = Restored(r, n, stack, ok)
        /\ leaked' = (leaked \/ (~ok /\ (r.written \/ n.written)))
        /\ root' = NoFrame /\ nested' = NoFrame
        /\ pushes' = pushes + pushed
        /\ pops' = pops + Popped(r, n)
        /\ expected' = TargetsAfter
        /\ context' = entry
        /\ at' = "HOST" /\ op' = "NONE" /\ remaining' = 0
        /\ UNCHANGED <<checks, entry>>

\* Budget, fault, system call, a boundary the broker fails, or anything the
\* operation refuses.
Fail ==
    /\ Running
    /\ FailWith(root, nested, 0)
    /\ UNCHANGED generation

\* The callback operation pushes its frame before it looks at the entry thunk
\* and at what is left of the budget.
FailPushed ==
    /\ op = "CALLBACK" /\ at = "X64_OUTER"
    /\ generation' = NextCookie
    /\ FailWith([root EXCEPT !.active = TRUE, !.cookie = NextCookie], nested, 1)

\* The operation is complete.
Succeed(c) ==
    /\ context' = [c EXCEPT !.cookie = 0, !.originalSp = entry.originalSp]
    /\ root' = NoFrame
    /\ pops' = pops + 1
    /\ expected' = TargetsAfter
    /\ at' = "HOST" /\ op' = "NONE" /\ remaining' = 0
    /\ UNCHANGED <<checks, pushes, nested, generation, entry>>

-----------------------------------------------------------------------------
(* Segments of ARM64EC code, and the broker hybrid_boundary inside them.    *)
(* The counts of dispatch-call and dispatch-return boundaries are left out: *)
(* each ends its segment, and no segment accepts one twice.                 *)

ArmRun(segments, retired) == at \in segments /\ retired \in 0 .. remaining

\* The checker helper with target x11, at most one for each call.
CheckerAccepts(target) ==
    /\ Resolve[target].kind = "X64"
    /\ \/ at = "ARM_TO_X64" /\ checks = 0
          /\ expected.outer \in {Sentinel, Resolve[target].va}
       \/ at = "CALLBACK_ARM" /\ op = "NESTED" /\ checks = 1
          /\ ~nested.active /\ Resolve[target].va = expected.inner

ArmCheck(retired, target) ==
    /\ ArmRun({"ARM_TO_X64", "CALLBACK_ARM"}, retired)
    /\ CheckerAccepts(target)
    /\ checks' = checks + 1
    /\ remaining' = remaining - retired
    /\ UNCHANGED <<control, root, nested, generation, pushes, pops, context, entry, stack,
                   leaked>>

\* The frame with a return record in the word below sp.
WithRecord(frame, sp) ==
    [frame EXCEPT !.record = sp - 1, !.old = stack[sp - 1], !.written = TRUE]

\* x64 code is called at pc with frame's record below sp and left of the budget.
CallX64(frame, pc, sp, left, segment) ==
    /\ stack' = [stack EXCEPT ![sp - 1] = Sentinel]
    /\ context' = [context EXCEPT !.isa = "X64", !.pc = pc, !.sp = sp - 1, !.cookie = frame.cookie]
    /\ pushes' = pushes + 1
    /\ at' = segment /\ remaining' = left
    /\ UNCHANGED <<op, expected, pops, checks, entry, leaked>>

\* Push the outer frame.  The frame is active before its record is written,
\* and the write may fail.
PushRoot(frame, pc, sp, left) ==
    LET pushed == [frame EXCEPT !.active = TRUE, !.cookie = NextCookie]
    IN /\ generation' = NextCookie
       /\ \/ FailWith(pushed, nested, 1)
          \/ /\ sp >= 1
             /\ root' = WithRecord(pushed, sp) /\ UNCHANGED nested
             /\ CallX64(pushed, pc, sp, left, "X64_OUTER")

\* The dispatch-call helper with x9 = target: the round trip's way out.  The
\* other operations fail at this boundary.
ArmDispatchCall(retired, sp, lr, target) ==
    /\ ArmRun({"ARM_TO_X64"}, retired) /\ op = "ROUNDTRIP"
    /\ checks = 1 /\ ~root.active
    /\ Resolve[target].kind = "X64" /\ expected.outer \in {Sentinel, Resolve[target].va}
    /\ retired < remaining
    /\ PushRoot([root EXCEPT !.resumePc = lr, !.dispatchSp = sp], Resolve[target].va, sp,
                remaining - retired)

\* A branch to x64 code, the way out of the return and nested operations.
ArmBranch(retired, sp, lr, pc) ==
    /\ ArmRun({"ARM_TO_X64"}, retired) /\ op \in {"RETURN", "NESTED"}
    /\ Resolve[pc].kind = "X64" /\ Is("X64", Control.outer)
    /\ op = "NESTED" => pc = Control.outer
    /\ checks = 1 /\ sp = entry.sp /\ lr = entry.lr
    /\ retired < remaining
    /\ PushRoot(root, Control.outer, sp, remaining - retired)

\* The callback of a nested operation branches to the inner x64 function.
ArmBranchInner(retired, sp, lr) ==
    LET pushed == [NoFrame EXCEPT !.active = TRUE, !.cookie = NextCookie, !.resumePc = lr,
                                  !.dispatchSp = sp]
    IN /\ ArmRun({"CALLBACK_ARM"}, retired) /\ op = "NESTED"
       /\ checks = 2 /\ sp >= 1
       /\ retired < remaining
       /\ generation' = NextCookie
       /\ \/ FailWith(root, pushed, 1)
          \/ /\ nested' = WithRecord(pushed, sp) /\ UNCHANGED root
             /\ CallX64(pushed, Control.inner, sp, remaining - retired, "X64_INNER")

\* The dispatch-return helper: gem_hybrid_frame_contract_validate, with the
\* record of the CALL checked for a leaf callback only.
ContractHolds(sp, lr) ==
    /\ root.active
    /\ context.cookie = root.cookie
    /\ lr = (IF at = "ARM_ENTRY" THEN Sentinel ELSE Control.resume)
    /\ sp = Aligned(root.callSp)
    /\ context.originalSp = root.callSp
    /\ op = "CALLBACK" => stack[root.record] = Control.resume

ArmDispatchReturn(retired, sp, lr) ==
    /\ ArmRun({"ARM_ENTRY", "CALLBACK_ARM", "CALLBACK_ARM_AGAIN"}, retired)
    /\ ContractHolds(sp, lr)
    /\ CASE op = "ROUNDTRIP" ->
              /\ retired < remaining
              /\ context' = [context EXCEPT !.pc = root.resumePc, !.sp = root.dispatchSp]
              /\ at' = "ARM_RETURN" /\ remaining' = remaining - retired
              /\ UNCHANGED <<op, expected, root, nested, generation, stats, entry, stack, leaked>>
         [] op = "CALLBACK" ->
              /\ Succeed([context EXCEPT !.pc = Control.resume, !.sp = root.callSp, !.isa = "X64"])
              /\ UNCHANGED <<stack, leaked>>
         [] op = "NESTED" ->
              /\ at = "CALLBACK_ARM_AGAIN"
              /\ context' = [context EXCEPT !.pc = Control.resume, !.sp = root.callSp,
                                            !.isa = "X64", !.originalSp = entry.originalSp]
              /\ at' = "X64_RESUMED" /\ remaining' = remaining - retired
              /\ UNCHANGED <<op, expected, root, nested, generation, stats, entry, stack, leaked>>

\* The ARM64EC caller returns to the host.  A completed round trip leaves its
\* record in the dead word below the stack pointer.
ArmHostReturn(sp) ==
    /\ at = "ARM_RETURN"
    /\ Succeed([context EXCEPT !.pc = HostReturn, !.sp = sp])
    /\ leaked' = (leaked \/ root.written)
    /\ UNCHANGED stack

-----------------------------------------------------------------------------
(* Segments of x64 code, one instruction at a time.                         *)

\* Faulty variant: instructions are not charged to the budget.
X64RemainingUncharged == remaining

X64Remaining == remaining - 1

\* The loop goes on: the target is x64 code, reached directly except that
\* the round trip follows redirections.
X64Continues(c, memory) ==
    /\ at \in X64Segments
    /\ IF op = "ROUNDTRIP" THEN Resolve[c.pc].kind = "X64" ELSE Is("X64", c.pc)
    /\ context' = c /\ stack' = memory
    /\ UNCHANGED <<control, root, nested, generation, stats, entry, leaked>>

\* ARM64EC code is entered through its entry thunk with the x64 stack
\* pointer callSp.
EnterArm(c, memory, target, callSp, lr, segment, cookie) ==
    /\ Resolve[Thunk[target]].kind = "ARM" /\ X64Remaining > 0
    /\ context' = [c EXCEPT !.isa = "ARM64EC", !.pc = Resolve[Thunk[target]].va,
                            !.lr = lr, !.sp = Aligned(callSp), !.originalSp = callSp,
                            !.cookie = cookie]
    /\ at' = segment /\ stack' = memory
    /\ UNCHANGED <<op, expected, nested, checks, pops, entry, leaked>>

\* Round trip: a jump to the finish function with the record on top.
X64Finishes(c, memory) ==
    /\ at = "X64_OUTER" /\ op = "ROUNDTRIP"
    /\ Resolve[c.pc].kind = "ARM" /\ Resolve[c.pc].va = Control.finish
    /\ c.sp < Words /\ memory[c.sp] = Sentinel
    /\ root' = [root EXCEPT !.callSp = c.sp + 1]
    /\ EnterArm(c, memory, Control.finish, c.sp + 1, Sentinel, "ARM_ENTRY", c.cookie)
    /\ UNCHANGED <<pushes, generation>>

\* Callback and nested: a CALL of the callback that will return to resume.
\* The callback operation pushes its frame here, with no record of its own.
X64Calls(c, memory, isCall) ==
    LET called == [root EXCEPT !.callSp = context.sp, !.record = IF op = "CALLBACK" THEN c.sp ELSE @]
    IN /\ at = "X64_OUTER" /\ op \in {"CALLBACK", "NESTED"}
       /\ c.pc = Control.callback /\ isCall
       /\ c.sp = context.sp - 1 /\ memory[c.sp] = Control.resume
       /\ IF op = "CALLBACK"
          THEN /\ root' = [called EXCEPT !.active = TRUE, !.cookie = NextCookie]
               /\ pushes' = pushes + 1 /\ generation' = NextCookie
          ELSE root' = called /\ UNCHANGED <<pushes, generation>>
       /\ EnterArm(c, memory, Control.callback, context.sp, Control.resume, "CALLBACK_ARM",
                   IF op = "CALLBACK" THEN NextCookie ELSE c.cookie)

\* Return and nested: a RET to the sentinel with the stack pointer just above
\* frame's record, which is given back.
X64Returns(c, memory, isRet, frame) ==
    /\ c.pc = Sentinel /\ isRet
    /\ c.sp = frame.record + 1
    /\ stack' = [memory EXCEPT ![frame.record] = frame.old]
    /\ X64Remaining > 0

InnerReturnCookie(c) == root.cookie

X64ReturnsInner(c, memory, isRet) ==
    /\ at = "X64_INNER" /\ X64Returns(c, memory, isRet, nested)
    /\ context' = [c EXCEPT !.isa = "ARM64EC", !.pc = nested.resumePc, !.sp = nested.dispatchSp,
                            !.originalSp = root.callSp, !.cookie = InnerReturnCookie(c)]
    /\ nested' = NoFrame /\ pops' = pops + 1 /\ at' = "CALLBACK_ARM_AGAIN"
    /\ UNCHANGED <<op, expected, root, generation, checks, pushes, entry, leaked>>

X64ReturnsOuter(c, memory, isRet) ==
    /\ \/ at = "X64_OUTER" /\ op = "RETURN"
       \/ at = "X64_RESUMED"
    /\ X64Returns(c, memory, isRet, root)
    /\ root' = [root EXCEPT !.written = FALSE]
    /\ IF op = "RETURN"
       THEN /\ c.lr = entry.lr
            /\ context' = [c EXCEPT !.isa = "ARM64EC", !.pc = c.lr]
       ELSE context' = [c EXCEPT !.isa = "ARM64EC", !.pc = entry.lr, !.lr = entry.lr,
                                 !.sp = entry.sp, !.originalSp = entry.originalSp]
    /\ at' = "ARM_RETURN"
    /\ UNCHANGED <<op, expected, nested, generation, stats, entry, leaked>>

\* One instruction that ends with context c and the stack in memory.
X64Instruction(c, memory, isCall, isRet) ==
    /\ remaining > 0
    /\ remaining' = X64Remaining
    /\ \/ X64Continues(c, memory)
       \/ X64Finishes(c, memory)
       \/ X64Calls(c, memory, isCall)
       \/ X64ReturnsInner(c, memory, isRet)
       \/ X64ReturnsOuter(c, memory, isRet)

X64 ==
    /\ at \in X64Segments
    /\ \/ \E pc \in Address, sp \in StackPointer :
             X64Instruction([context EXCEPT !.pc = pc, !.sp = sp], stack, FALSE, FALSE)
       \/ \E pc \in Address, next \in GuestValue :
             /\ context.sp > 0
             /\ X64Instruction([context EXCEPT !.pc = pc, !.sp = @ - 1],
                               [stack EXCEPT ![context.sp - 1] = next], TRUE, FALSE)
       \/ /\ context.sp < Words
          /\ X64Instruction([context EXCEPT !.pc = stack[context.sp], !.sp = @ + 1],
                            stack, FALSE, TRUE)

Arm ==
    \E r \in 0 .. remaining :
        \/ /\ at \in {"ARM_TO_X64", "CALLBACK_ARM"}
           /\ \E t \in Address : ArmCheck(r, t)
        \/ /\ at = "ARM_TO_X64" /\ checks = 1
           /\ \E sp \in StackPointer, lr \in Address, t \in Address :
                 ArmDispatchCall(r, sp, lr, t) \/ ArmBranch(r, sp, lr, t)
        \/ /\ at = "CALLBACK_ARM" /\ checks = 2
           /\ \E sp \in StackPointer, lr \in Address : ArmBranchInner(r, sp, lr)
        \/ /\ at \in {"ARM_ENTRY", "CALLBACK_ARM", "CALLBACK_ARM_AGAIN"}
           /\ \E sp \in StackPointer, lr \in Address : ArmDispatchReturn(r, sp, lr)
        \/ /\ at = "ARM_RETURN"
           /\ \E sp \in StackPointer : ArmHostReturn(sp)

\* Guest code, or another guest thread, stores to the stack.
GuestStore(w, d) ==
    /\ stack' = [stack EXCEPT ![w] = d]
    /\ UNCHANGED <<control, root, nested, generation, stats, context, entry, remaining, leaked>>

Step == Fail \/ FailPushed \/ Arm \/ X64

Next ==
    \/ \E o \in Operations, c \in EntryContext, budget \in 1 .. MaxBudget : Call(o, c, budget)
    \/ Step
    \/ \E w \in Word, d \in GuestValue : GuestStore(w, d)

\* The thread inside the operation keeps running.
Spec == Init /\ [][Next]_vars /\ WF_vars(Step)

-----------------------------------------------------------------------------
(* Properties.                                                              *)

TypeOK ==
    /\ op \in Operations \cup {"NONE"} /\ at \in {"HOST"} \cup ArmSegments \cup X64Segments
    /\ root \in Frame /\ nested \in Frame
    /\ expected \in [outer : Address, inner : Address]
    /\ generation \in 0 .. MaxCookie
    /\ checks \in 0 .. 2 /\ pushes \in 0 .. 2 /\ pops \in 0 .. 2
    /\ context \in Context /\ entry \in Context
    /\ remaining \in 0 .. MaxBudget
    /\ stack \in [Word -> Value] /\ leaked \in BOOLEAN

\* However an operation ends, the runtime is reusable: no frame, cookie or
\* expected target of an earlier operation is left to steer the next one
\* ("clears the sidecar frame, and remains reusable", hybrid_runtime.h).
IdleIsClean ==
    ~Running => /\ root = NoFrame /\ nested = NoFrame
                /\ expected = NoTargets
                /\ context.cookie = 0

\* Every frame pushed is popped exactly once, on each of the exits, and while
\* the operation runs the context carries the cookie of the innermost frame.
FramesBalanced ==
    /\ pushes - pops = Active(root) + Active(nested)
    /\ context.cookie = IF nested.active THEN nested.cookie ELSE root.cookie

\* Broker records are "restored independently": a word that holds the
\* sentinel is the record of a live frame, or the restoring transaction
\* failed, or it is the one a completed round trip leaves behind.
NoStrayRecord ==
    \A w \in Word : stack[w] = Sentinel =>
        leaked \/ \E f \in {root, nested} : f.written /\ f.record = w

\* Each operation ends: the budget is shared by all of its segments.
OperationEnds == Running ~> ~Running
=============================================================================
