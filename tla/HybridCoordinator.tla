-------------------------- MODULE HybridCoordinator --------------------------
(***************************************************************************)
(* The stateful ARM64EC/x64 coordinator of src/gem/hybrid_runtime.c: one   *)
(* gem_hybrid_runtime with its two-frame sidecar, the guest stack words    *)
(* its return records live in, and the thread context it is called with.   *)
(*                                                                         *)
(* Guest code is any code: an engine run may move pc, sp and x30 anywhere  *)
(* and store to the stack.  Stack words are eight bytes, so sp & ~15 is    *)
(* the even word below sp.  Register x18 (checked equal to the TEB before  *)
(* every use) and the retired-instruction statistics are left out.         *)
(***************************************************************************)
EXTENDS Integers, Sequences, FiniteSets

CONSTANTS
    Address,      \* guest code addresses, the two sentinels included
    Resolve,      \* hybrid_resolve: kind and resolved_va of each address
    Thunk,        \* where the entry-thunk descriptor of a function points
    Sentinel,     \* config.x64_return_sentinel
    HostReturn,   \* config.host_return_sentinel
    SvcTrap,      \* boundary_delivery = GEM_ARM64EC_BOUNDARY_SVC_TRAP
    Words,        \* words of the guest stack
    GuestValue,   \* what guest code stores on the stack
    Link,         \* what it has in x30 when it calls
    MaxBudget,    \* config.max_budget
    MaxCookie     \* stands for UINT64_MAX

Word == 0 .. Words - 1
StackPointer == 0 .. Words
Value == GuestValue \cup {Sentinel}

ASSUME CoordinatorAssumption ==
    /\ Resolve \in [Address -> [kind : {"ARM", "X64", "NONE"}, va : Address]]
    /\ Thunk \in [Address -> Address]
    /\ Sentinel \in Address /\ HostReturn \in Address /\ Sentinel # HostReturn
    /\ Resolve[Sentinel].kind = "NONE" /\ Resolve[HostReturn].kind = "NONE"
    /\ SvcTrap \in BOOLEAN
    /\ Words \in Nat \ {0} /\ MaxBudget \in Nat /\ MaxCookie \in Nat \ {0}
    /\ GuestValue \subseteq Address \ {Sentinel} /\ GuestValue # {}
    /\ Link \subseteq Address /\ Link # {}

VARIABLES
    active, stage, depth, frames, nativeReturn, pending,  \* hybrid_generic_state
    generation,   \* source of the transition cookies
    context,      \* the caller's gem_thread_context
    phase,        \* where gem_hybrid_runtime_run is
    remaining,    \* of its budget
    stack,        \* guest memory
    leaked        \* history: a record could not be taken back

sidecar == <<active, stage, depth, frames, nativeReturn, pending>>
vars == <<active, stage, depth, frames, nativeReturn, pending, generation, context, phase,
          remaining, stack, leaked>>

Stages == {"IDLE", "ARM", "X64", "ARM_CALLBACK"}
Callbacks == {"NONE", "CALL", "TAIL"}

\* struct hybrid_generic_frame; callback_arm_entry_sp is Aligned(callbackSp)
\* and callback_nested is never read.
Frame == [cookie : 0 .. MaxCookie, resumePc : Address, resumeSp : StackPointer,
          priorSp : StackPointer, record : Word, old : Value,
          callback : Callbacks, callbackPc : Address, callbackSp : StackPointer,
          callbackPriorSp : StackPointer, written : BOOLEAN, resumeCallback : BOOLEAN]

NoFrame == [cookie |-> 0, resumePc |-> Sentinel, resumeSp |-> 0, priorSp |-> 0,
            record |-> 0, old |-> Sentinel, callback |-> "NONE",
            callbackPc |-> Sentinel, callbackSp |-> 0, callbackPriorSp |-> 0,
            written |-> FALSE, resumeCallback |-> FALSE]

Context == [isa : {"ARM64EC", "X64"}, pc : Address, sp : StackPointer,
            originalSp : StackPointer, cookie : 0 .. MaxCookie]

\* The pending_* fields: what the boundary broker left for the run loop.
NoPending == [kind |-> "NONE", target |-> Sentinel, resumePc |-> Sentinel, resumeSp |-> 0]
Pending == [kind : {"NONE", "DISPATCH", "CALLBACK_RETURN", "NATIVE_RETURN"},
            target : Address, resumePc : Address, resumeSp : StackPointer]

Aligned(sp) == sp - (sp % 2)
Top == frames[depth]                  \* generic_current_frame
TopCookie == IF depth = 0 THEN 0 ELSE Top.cookie

Init ==
    /\ active = FALSE /\ stage = "IDLE" /\ depth = 0
    /\ frames = [d \in 1 .. 2 |-> NoFrame]
    /\ nativeReturn = Sentinel /\ pending = NoPending
    /\ generation = 0
    /\ context \in [isa : {"ARM64EC"}, pc : Address, sp : {Words}, originalSp : {0},
                    cookie : {0}]
    /\ phase = "HOST" /\ remaining = 0
    /\ \E d \in GuestValue : stack = [w \in Word |-> d]
    /\ leaked = FALSE

-----------------------------------------------------------------------------
(* Leaving the run loop.                                                    *)

\* generic_return: the sidecar stays for the next run.
Stop(c) == context' = c /\ phase' = "HOST"

\* memset(&runtime->generic, 0, ...).
ClearSidecar ==
    /\ active' = FALSE /\ stage' = "IDLE" /\ depth' = 0
    /\ frames' = [d \in 1 .. 2 |-> NoFrame]
    /\ nativeReturn' = Sentinel /\ pending' = NoPending

\* Faulty variant: outermost frame first.
RestoredStackOutermostFirst(memory, ok) ==
    LET give(m, d) == IF d <= depth /\ ok[d] THEN [m EXCEPT ![frames[d].record] = frames[d].old]
                                             ELSE m
    IN give(give(memory, 1), 2)

\* generic_restore_records, deepest frame first; ok[d] tells whether the
\* memory transaction of frame d commits.  Any may fail: another thread can
\* protect, remap or write the stack page at any time.
RestoredStack(memory, ok) ==
    LET give(m, d) == IF d <= depth /\ frames[d].written /\ ok[d]
                      THEN [m EXCEPT ![frames[d].record] = frames[d].old]
                      ELSE m
    IN give(give(memory, 2), 1)

\* generic_invariant: give the records back, forget the sidecar, fail.
Invariant(c, memory) ==
    \E ok \in [1 .. 2 -> BOOLEAN] :
        /\ stack' = RestoredStack(memory, ok)
        /\ leaked' = (leaked \/ \E d \in 1 .. depth : ~ok[d])
        /\ ClearSidecar
        /\ Stop([c EXCEPT !.cookie = 0, !.isa = "ARM64EC"])

\* Faulty variants: no bound, and plain wrap-around.
NextCookieUnbounded == generation + 1
NextCookieWraps == (generation + 1) % (MaxCookie + 1)

\* The cookie source skips zero, which means "no frame".
NextCookie == IF generation = MaxCookie THEN 1 ELSE generation + 1

-----------------------------------------------------------------------------
(* Frames.                                                                  *)

\* generic_push_x64: call x64 code at target; the return record goes into
\* the word below sp.
Push(target, resumePc, resumeSp) ==
    LET word == context.sp - 1
        parentMissing == stage = "ARM_CALLBACK" /\ (depth = 0 \/ Top.callback = "NONE")
        rejected == \/ depth >= 2 \/ context.sp < 1 \/ context.sp # resumeSp
                    \/ Resolve[target].kind # "X64" \/ parentMissing
        frame == [NoFrame EXCEPT
                    !.cookie = NextCookie, !.resumePc = resumePc, !.resumeSp = resumeSp,
                    !.priorSp = context.originalSp, !.record = word, !.old = stack[word],
                    !.written = TRUE, !.resumeCallback = stage = "ARM_CALLBACK"]
    IN \/ Invariant(context, stack) /\ UNCHANGED generation      \* or unsupported page
       \/ ~rejected /\ Invariant(context, stack) /\ generation' = NextCookie
       \/ /\ ~rejected
          /\ generation' = NextCookie
          /\ frames' = [frames EXCEPT ![depth + 1] = frame]
          /\ depth' = depth + 1
          /\ stage' = "X64"
          /\ stack' = [stack EXCEPT ![word] = Sentinel]
          /\ context' = [context EXCEPT !.sp = word, !.pc = Resolve[target].va,
                                        !.isa = "X64", !.cookie = NextCookie]
          /\ phase' = "LOOP"
          /\ pending' = NoPending
          /\ UNCHANGED <<active, nativeReturn, leaked>>

\* Faulty variant: a return always clears the cookie.
OuterCookieCleared == 0

OuterCookie == IF depth = 2 THEN frames[1].cookie ELSE 0

\* Faulty variant: the caller's original_x64_sp is not restored.
ReturnedKeepsOriginalSp(c) ==
    [c EXCEPT !.pc = Top.resumePc, !.sp = Top.resumeSp, !.isa = "ARM64EC",
              !.cookie = OuterCookie]

\* The context generic_pop_x64 hands back to the ARM64EC caller.
Returned(c) ==
    [c EXCEPT !.pc = Top.resumePc, !.sp = Top.resumeSp, !.originalSp = Top.priorSp,
              !.isa = "ARM64EC", !.cookie = OuterCookie]

\* generic_pop_x64: return to the ARM64EC caller of the top frame.  memory is
\* the stack after the instruction that returns.
Pop(c, memory) ==
    \/ Invariant(c, memory)                 \* rejected, or the commit failed
    \/ /\ depth # 0 /\ Top.written /\ c.sp = Top.record + 1
       /\ stack' = [memory EXCEPT ![Top.record] = Top.old]
       /\ frames' = [frames EXCEPT ![depth] = NoFrame]
       /\ depth' = depth - 1
       /\ context' = Returned(c)
       /\ stage' = IF Top.resumeCallback THEN "ARM_CALLBACK" ELSE "ARM"
       /\ phase' = "LOOP" /\ pending' = NoPending
       /\ UNCHANGED <<active, nativeReturn, leaked>>

\* generic_enter_callback: x64 code calls, or jumps to, ARM64EC code.
EnterCallback(c, memory, preSp, wasCall) ==
    LET target == Resolve[c.pc].va
        tail == c.sp = Top.record /\ c.sp < Words /\ memory[c.sp] = Sentinel
        accepted == /\ depth # 0 /\ Top.callback = "NONE"
                    /\ IF wasCall THEN c.sp = preSp - 1 ELSE tail
                    /\ Resolve[Thunk[target]].kind = "ARM"
        callerSp == IF wasCall THEN preSp ELSE c.sp + 1
        resumePc == IF wasCall THEN memory[c.sp] ELSE Sentinel
    IN \/ ~accepted /\ Invariant(IF tail /\ ~wasCall THEN [c EXCEPT !.sp = @ + 1] ELSE c, memory)
       \/ /\ accepted
          /\ frames' = [frames EXCEPT ![depth] =
                          [@ EXCEPT !.callback = IF wasCall THEN "CALL" ELSE "TAIL",
                                    !.callbackPc = resumePc, !.callbackSp = callerSp,
                                    !.callbackPriorSp = c.originalSp]]
          /\ context' = [c EXCEPT !.originalSp = callerSp,
                                  !.sp = Aligned(callerSp), !.pc = Resolve[Thunk[target]].va,
                                  !.isa = "ARM64EC"]
          /\ stage' = "ARM_CALLBACK"
          /\ stack' = memory
          /\ phase' = "LOOP"
          /\ UNCHANGED <<active, depth, nativeReturn, pending, leaked>>

\* generic_finish_callback: the ARM64EC callee returned through the
\* dispatch-return helper.
FinishCallback ==
    \/ (depth = 0 \/ Top.callback = "NONE") /\ Invariant(context, stack)
    \/ /\ depth # 0 /\ Top.callback = "CALL"
       /\ context' = [context EXCEPT !.pc = Top.callbackPc, !.sp = Top.callbackSp,
                                     !.originalSp = Top.callbackPriorSp, !.isa = "X64",
                                     !.cookie = Top.cookie]
       /\ frames' = [frames EXCEPT ![depth] =
                       [@ EXCEPT !.callback = "NONE", !.callbackPc = Sentinel,
                                 !.callbackSp = 0, !.callbackPriorSp = 0]]
       /\ stage' = "X64" /\ pending' = NoPending /\ phase' = "LOOP"
       /\ UNCHANGED <<active, depth, nativeReturn, stack, leaked>>
    \/ /\ depth # 0 /\ Top.callback = "TAIL"
       /\ Pop([context EXCEPT !.sp = Top.record + 1], stack)
-----------------------------------------------------------------------------
(* gem_hybrid_runtime_run.                                                  *)

\* generic_context_valid, for the stage, depth and frames given.
ContextValid(c, st) ==
    /\ st # "IDLE"
    /\ c.isa = (IF st = "X64" THEN "X64" ELSE "ARM64EC")
    /\ c.cookie = TopCookie

\* generic_begin's conditions; a zero x30 is refused as well.
MayBegin(c) == c.isa = "ARM64EC" /\ c.cookie = 0 /\ Resolve[c.pc].kind = "ARM"

Accepted(c, budget) ==
    /\ budget \in 1 .. MaxBudget
    /\ IF active THEN ContextValid(c, stage) ELSE MayBegin(c)

\* A call that starts or continues the thread.  Any other call is refused and
\* changes nothing but the reported stop.
Run(c, lr, budget) ==
    /\ phase = "HOST" /\ Accepted(c, budget)
    /\ phase' = "LOOP" /\ remaining' = budget
    /\ IF active
       THEN context' = c /\ UNCHANGED sidecar
       ELSE /\ context' = [c EXCEPT !.pc = Resolve[c.pc].va]
            /\ active' = TRUE /\ stage' = "ARM" /\ depth' = 0
            /\ frames' = [d \in 1 .. 2 |-> NoFrame]
            /\ nativeReturn' = (IF SvcTrap THEN HostReturn ELSE lr)
            /\ pending' = NoPending
    /\ UNCHANGED <<generation, stack, leaked>>

\* Contexts a caller may pass: the one it got back with registers Wine
\* changed (the bridge keeps the cookie and original_x64_sp), or a new one.
ResumedContext ==
    [isa : {"ARM64EC", "X64"}, pc : Address, sp : StackPointer,
     originalSp : {context.originalSp}, cookie : {context.cookie}]
FreshContext ==
    [isa : {"ARM64EC"}, pc : Address, sp : {Words}, originalSp : {0}, cookie : {0}]

LoopHead(wanted) == phase = "LOOP" /\ remaining > 0 /\ stage \in wanted

\* The loop head consumes async_stop_requested before anything else runs; any
\* thread may have set it, so the flag itself is not kept.
AsyncStop ==
    /\ phase = "LOOP"
    /\ Stop(context) /\ remaining' = 0
    /\ UNCHANGED <<sidecar, generation, stack, leaked>>

BudgetStop ==
    /\ phase = "LOOP" /\ remaining = 0
    /\ Stop(context)
    /\ UNCHANGED <<sidecar, generation, remaining, stack, leaked>>

\* Guest code of either architecture, or another guest thread, stores to the
\* stack.  A store of the sentinel itself (a tail callback that spills x30)
\* is left out: NoStrayRecord could not tell it from a record.
GuestStore(w, d) ==
    /\ stack' = [stack EXCEPT ![w] = d]
    /\ UNCHANGED <<sidecar, generation, context, phase, remaining, leaked>>

-----------------------------------------------------------------------------
(* The ARM64EC side: one gem_arm64ec_runtime_run and, inside it, the        *)
(* boundary broker generic_boundary.                                        *)

ArmStages == {"ARM", "ARM_CALLBACK"}

\* The engine yields, faults, reaches a system call, or reports that the
\* broker refused a helper call: an unresolved checker target, a dispatch at
\* depth two or to no x64 code, a return MayReturn rejects.  The sidecar stays.
\* The registers it leaves are the ones Run may start from, so they need not
\* be chosen here.
ArmStop ==
    /\ LoopHead(ArmStages)
    /\ Stop(context) /\ remaining' = 0
    /\ UNCHANGED <<sidecar, generation, stack, leaked>>

\* The engine stops for a transition after retired instructions; what names
\* it, and x30, is left in pending.
ArmTransition(retired, sp, pc, what) ==
    /\ remaining' = remaining - retired
    /\ context' = [context EXCEPT !.sp = sp, !.pc = pc]
    /\ pending' = what
    /\ phase' = "ARM_STOPPED"
    /\ UNCHANGED <<active, stage, depth, frames, nativeReturn, generation,
                   stack, leaked>>

\* The dispatch-call or dispatch-jump helper with x9 = target.
ArmDispatch(retired, sp, lr, target) ==
    /\ LoopHead(ArmStages)
    /\ pending.kind # "DISPATCH" /\ depth < 2 /\ Resolve[target].kind = "X64"
    /\ ArmTransition(retired, sp, context.pc,
                     [kind |-> "DISPATCH", target |-> Resolve[target].va,
                      resumePc |-> lr, resumeSp |-> sp])

\* The checks of the dispatch-return helper.
MayReturn(sp, lr) ==
    /\ stage = "ARM_CALLBACK" /\ depth # 0
    /\ Top.callback # "NONE"
    /\ pending.kind # "CALLBACK_RETURN"
    /\ context.cookie = Top.cookie
    /\ lr = Top.callbackPc
    /\ sp = Aligned(Top.callbackSp)
    /\ context.originalSp = Top.callbackSp

ArmReturn(retired, sp, lr) ==
    /\ LoopHead(ArmStages)
    /\ MayReturn(sp, lr)
    /\ ArmTransition(retired, sp, context.pc, [NoPending EXCEPT !.kind = "CALLBACK_RETURN"])

\* Control is back at the native caller captured on entry.
ArmNativeReturn(retired, sp) ==
    /\ LoopHead({"ARM"}) /\ depth = 0
    /\ ArmTransition(retired, sp, nativeReturn, [NoPending EXCEPT !.kind = "NATIVE_RETURN"])

\* A branch straight to x64 code, or to the sentinel a tail callback has in
\* x30 (it is also the engine's architecture-transition sentinel).
ArmEdge(retired, sp, lr, target) ==
    /\ LoopHead(ArmStages)
    /\ Resolve[target].kind = "X64" \/ target = Sentinel
    /\ ArmTransition(retired, sp, target, [NoPending EXCEPT !.resumePc = lr])

\* What the loop does with the transition.
Transition ==
    /\ phase = "ARM_STOPPED"
    /\ \/ /\ pending.kind = "NATIVE_RETURN"
          /\ depth = 0 /\ context.pc = nativeReturn
          /\ ClearSidecar
          /\ Stop([context EXCEPT !.cookie = 0, !.isa = "ARM64EC"])
          /\ UNCHANGED <<generation, stack, leaked>>
       \/ pending.kind = "CALLBACK_RETURN" /\ FinishCallback /\ UNCHANGED generation
       \/ pending.kind = "DISPATCH" /\ Push(pending.target, pending.resumePc, pending.resumeSp)
       \/ pending.kind = "NONE" /\ Push(context.pc, pending.resumePc, context.sp)
    /\ UNCHANGED remaining

-----------------------------------------------------------------------------
(* The x64 side: one instruction, then its target decides.                  *)

X64Stop ==
    /\ LoopHead({"X64"})
    /\ Stop(context) /\ remaining' = 0
    /\ UNCHANGED <<sidecar, generation, stack, leaked>>

\* The instruction ended with context c and the stack in memory.
X64Stepped(c, memory, isCall, isRet) ==
    LET target == Resolve[c.pc]
    IN \/ c.pc = Sentinel /\ isRet /\ Pop(c, memory)
       \/ c.pc = Sentinel /\ ~isRet /\ Invariant(c, memory)
       \/ target.kind = "NONE" /\ c.pc # Sentinel /\ Invariant(c, memory)
       \/ target.kind = "X64" /\ target.va # c.pc /\ Invariant(c, memory)
       \/ /\ target.kind = "X64" /\ target.va = c.pc
          /\ context' = c /\ stack' = memory /\ phase' = "LOOP"
          /\ UNCHANGED <<sidecar, leaked>>
       \/ target.kind = "ARM" /\ EnterCallback(c, memory, context.sp, isCall)

\* Faulty variant: the instruction is not charged to the budget.
X64InstructionUncharged(c, memory, isCall, isRet) ==
    /\ LoopHead({"X64"})
    /\ IF context.pc = Sentinel THEN Invariant(context, stack)
                                ELSE X64Stepped(c, memory, isCall, isRet)
    /\ UNCHANGED <<generation, remaining>>

X64Instruction(c, memory, isCall, isRet) ==
    /\ LoopHead({"X64"})
    /\ remaining' = remaining - 1
    /\ IF context.pc = Sentinel THEN Invariant(context, stack)
                                ELSE X64Stepped(c, memory, isCall, isRet)
    /\ UNCHANGED generation

\* Any instruction but CALL and RET.
X64Jump(pc, sp) ==
    X64Instruction([context EXCEPT !.pc = pc, !.sp = sp], stack, FALSE, FALSE)

\* CALL pushes the address of the next instruction.
X64Call(pc, next) ==
    /\ context.sp > 0
    /\ X64Instruction([context EXCEPT !.pc = pc, !.sp = @ - 1],
                      [stack EXCEPT ![context.sp - 1] = next], TRUE, FALSE)

X64Ret ==
    /\ context.sp < Words
    /\ X64Instruction([context EXCEPT !.pc = stack[context.sp], !.sp = @ + 1],
                      stack, FALSE, TRUE)

-----------------------------------------------------------------------------
(* The specification.                                                       *)

Arm ==
    \/ ArmStop
    \/ \E r \in 0 .. remaining, sp \in StackPointer :
          \/ \E lr \in Address : ArmReturn(r, sp, lr)
          \/ ArmNativeReturn(r, sp)
          \/ \E lr \in Link, t \in Address : ArmDispatch(r, sp, lr, t) \/ ArmEdge(r, sp, lr, t)

X64 ==
    \/ X64Stop
    \/ \E pc \in Address, sp \in StackPointer : X64Jump(pc, sp)
    \/ \E pc \in Address, next \in GuestValue : X64Call(pc, next)
    \/ X64Ret

\* The thread inside gem_hybrid_runtime_run.
Step == AsyncStop \/ BudgetStop \/ Arm \/ Transition \/ X64

Next ==
    \/ \E budget \in 1 .. MaxBudget, lr \in Link,
          c \in ResumedContext \cup FreshContext : Run(c, lr, budget)
    \/ Step
    \/ \E w \in Word, d \in GuestValue : GuestStore(w, d)

Spec == Init /\ [][Next]_vars

-----------------------------------------------------------------------------
(* Properties.                                                              *)

TypeOK ==
    /\ active \in BOOLEAN /\ stage \in Stages /\ depth \in 0 .. 2
    /\ frames \in [1 .. 2 -> Frame]
    /\ nativeReturn \in Address /\ pending \in Pending
    /\ generation \in 0 .. MaxCookie
    /\ context \in Context
    /\ phase \in {"HOST", "LOOP", "ARM_STOPPED"} /\ remaining \in 0 .. MaxBudget
    /\ stack \in [Word -> Value] /\ leaked \in BOOLEAN

\* Whatever stops a run (budget, fault, system call, asynchronous stop, a
\* refusing broker), the context it hands out is one the next run accepts:
\* "preserves its two-frame transition sidecar across ordinary syscall,
\* Unix-call, fault, and budget stops" (hybrid_runtime.h).
Resumable == active => ContextValid(context, stage)

\* Stage, depth and frames agree: the x64 stage has a frame without a
\* callback, the callback stage a frame with one, a second frame only exists
\* inside the first one's callback, live frames own a written record and a
\* cookie, dead ones are empty, and no broker request outlives its stop.
FrameDiscipline ==
    /\ (stage = "IDLE") = ~active
    /\ stage \in {"IDLE", "ARM"} <=> depth = 0
    /\ stage = "X64" => Top.callback = "NONE"
    /\ stage = "ARM_CALLBACK" => Top.callback # "NONE"
    /\ depth = 2 => frames[1].callback # "NONE" /\ frames[2].resumeCallback
    /\ depth >= 1 => ~frames[1].resumeCallback
    /\ \A d \in 1 .. 2 :
          IF d <= depth
          THEN frames[d].written /\ frames[d].cookie # 0 /\ frames[d].record + 1 = frames[d].resumeSp
          ELSE frames[d] = NoFrame
    /\ phase # "ARM_STOPPED" => pending = NoPending

\* A return record never stays behind in guest memory: a word holding the
\* sentinel is the record of a live frame, unless the memory transaction that
\* should have taken it back failed.
NoStrayRecord ==
    \A w \in Word : stack[w] = Sentinel =>
        leaked \/ \E d \in 1 .. depth : frames[d].record = w

\* The sidecar read as a call stack: each frame is the ARM64EC caller of x64
\* code, and a CALL callback the x64 caller of ARM64EC code.
Continuations ==
    LET frame(d) == <<[isa |-> "ARM64EC", pc |-> frames[d].resumePc, sp |-> frames[d].resumeSp,
                       originalSp |-> frames[d].priorSp]>>
        callback(d) == IF frames[d].callback = "CALL"
                       THEN <<[isa |-> "X64", pc |-> frames[d].callbackPc,
                               sp |-> frames[d].callbackSp,
                               originalSp |-> frames[d].callbackPriorSp]>>
                       ELSE <<>>
    IN CASE depth = 0 -> <<>>
         [] depth = 1 -> frame(1) \o callback(1)
         [] depth = 2 -> frame(1) \o callback(1) \o frame(2) \o callback(2)

CallStack == INSTANCE ArchCallStack WITH
    isa <- context.isa, pc <- context.pc, sp <- context.sp,
    originalSp <- context.originalSp, continuations <- Continuations

\* The coordinator implements a stack of cross-architecture calls: every
\* return, by RET to the sentinel or by the dispatch-return helper, resumes
\* the newest caller with the pc, sp and original_x64_sp it had.
ImplementsCallStack == CallStack!Spec

\* How far a run can still go without using budget: x64 code uses some at
\* once, and ARM64EC code can only reach x64 code or end a tail callback.
Rank == IF stage = "X64" THEN 0
        ELSE 2 * depth + (IF phase = "ARM_STOPPED" THEN 1 ELSE 2)

\* Every accepted run ends: each step of one that goes on uses up budget or
\* lowers the rank, so no cycle of calls, callbacks and returns, not even of
\* calls that retire nothing, keeps gem_hybrid_runtime_run from returning.
RunTerminates ==
    [][phase # "HOST" /\ phase' # "HOST"
         => \/ remaining' < remaining
            \/ remaining' = remaining /\ Rank' < Rank]_<<sidecar, context, phase, remaining>>
=============================================================================
