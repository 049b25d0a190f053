------------------------------- MODULE WineRun -------------------------------
(***************************************************************************)
(* The run loops of src/gem/wine_bridge.c, gem_wine_thread_run and         *)
(* gem_wine_i386_thread_run, for one guest thread: the route each segment  *)
(* takes, the ownership of the hybrid coordinator, the instruction and     *)
(* callback budgets, the boundary callback and the runs it starts on the   *)
(* same thread (the run lock of an ARM64/x64 thread is recursive).         *)
(*                                                                         *)
(* The engines are what HybridCoordinator and I386Quantum model; here each *)
(* run of one ends in any stop its contract allows.  Of the coordinator    *)
(* the architecture it stopped in, the cookies of its frames and the       *)
(* captured return address are kept.  Code addresses are two in a          *)
(* registered ARM64X image, one in native code, and the host-return        *)
(* sentinel.  Upper SIMD state and the published result are left out.      *)
(***************************************************************************)
EXTENDS Integers, Sequences

CONSTANTS
    Routings,       \* of {"NATIVE", "ARM64X", "X86_64", "I386"}: processes to check
    SvcBoundaries,  \* GEM_WINE_ARM64X_FLAG_SVC_BOUNDARIES
    Link,           \* bound: what guest code has in x30
    Total,          \* total_instruction_budget
    Segment,        \* segment_instruction_budget
    MaxCallbacks,   \* max_boundary_callbacks
    MaxNesting,     \* bound: runs of the thread inside each other's callbacks
    MaxCookie       \* bound: frames the coordinator pushes in a behaviour

ASSUME WineRunAssumption ==
    /\ Routings \subseteq {"NATIVE", "ARM64X", "X86_64", "I386"} /\ Routings # {}
    /\ SvcBoundaries \in BOOLEAN
    /\ Link \subseteq {"caller", "native"} /\ Link # {}
    /\ Total \in Nat /\ Segment \in 1 .. Total
    /\ MaxCallbacks \in Nat \ {0} /\ MaxNesting \in Nat \ {0} /\ MaxCookie \in Nat

VARIABLES
    routing,        \* which *_routing_enabled flag of the process is set
    runs,           \* the active calls of thread_run, innermost last
    bound,          \* coordinator_hybrid # NULL; its runtime is then active
    stageIsa,       \* the architecture of its stage
    frames,         \* cookies of its frames, deepest last
    nativeReturn,   \* its native_return_pc
    generation,     \* source of the cookies
    published       \* cookie of the last out_context

coordinator == <<bound, stageIsa, frames, nativeReturn, generation>>
runVars == <<routing, runs, bound, stageIsa, frames, nativeReturn, generation, published>>

ISA == {"ARM64EC", "X64"}
Pc == {"entry", "caller", "native", "host"}
Image == {"entry", "caller"}
Cookie == 0 .. MaxCookie
Context == [isa : ISA, pc : Pc, lr : Link, cookie : Cookie]
FreshContext == [isa : ISA, pc : Pc, lr : Link, cookie : {0}]

\* One call of thread_run.  event is meaningful in the callback: a system or
\* Unix call must be answered with another pc.
Call == [context : Context, retired : 0 .. Total, callbacks : 0 .. MaxCallbacks,
         at : {"LOOP", "CALLBACK"}, event : {"SYSCALL", "OTHER"}]

InImage(pc) == routing = "ARM64X" /\ pc \in Image      \* find_image_for_pc
Running == runs[Len(runs)]
TopCookie == IF frames = <<>> THEN 0 ELSE frames[Len(frames)]

RunInit ==
    /\ routing \in Routings
    /\ runs = <<>> /\ bound = FALSE /\ stageIsa = "ARM64EC" /\ frames = <<>>
    /\ nativeReturn = "host" /\ generation = 0 /\ published = 0

-----------------------------------------------------------------------------
(* Starting and ending a run.                                               *)

\* trylock(run_lock) succeeds on an idle thread and, for its owner, inside the
\* callback of an ARM64/x64 run.  Wine passes a context of its own or, to an
\* idle thread, the one the last run published.
Enter(c) ==
    /\ \/ runs = <<>> /\ c.cookie \in {0, published}
       \/ /\ runs # <<>> /\ Running.at = "CALLBACK" /\ routing # "I386"
          /\ Len(runs) < MaxNesting /\ c.cookie = 0
    /\ runs' = Append(runs, [context |-> c, retired |-> 0, callbacks |-> 0, at |-> "LOOP",
                             event |-> "OTHER"])
    /\ UNCHANGED <<routing, coordinator, published>>

\* *out_context = context, unlock.
Return(c) ==
    /\ runs' = SubSeq(runs, 1, Len(runs) - 1)
    /\ published' = c.cookie

Continue(call) ==
    /\ runs' = [runs EXCEPT ![Len(runs)] = call]
    /\ UNCHANGED published

-----------------------------------------------------------------------------
(* The loop.                                                                *)

\* A slice that retired nothing does not fit what is left of the budget.
Yields(retired) == retired = 0

MayCallBack(n) == n < MaxCallbacks

\* Faulty variant: only the last segment counts.
ChargedLast(call, retired) == [call EXCEPT !.retired = retired]

Charged(call, retired) == [call EXCEPT !.retired = @ + retired]

\* What the loop does with an engine's stop: its reason, the instructions it
\* retired and the context; hybrid tells whether the coordinator ran.
Dispose(reason, retired, c, hybrid) ==
    LET call == [Charged(Running, retired) EXCEPT !.context = c]
        answered == c.isa = "ARM64EC" \/ routing \in {"X86_64", "I386"}
    IN CASE reason = "ARCH" /\ (hybrid \/ InImage(c.pc)) -> Continue(call)
         [] reason \in {"HOST_RETURN", "INVARIANT"} -> Return(c)
         [] reason = "BUDGET" -> IF Yields(retired) THEN Return(c) ELSE Continue(call)
         [] OTHER ->
               IF ~(answered /\ MayCallBack(call.callbacks)) THEN Return(c)
               ELSE Continue([call EXCEPT !.callbacks = @ + 1, !.at = "CALLBACK",
                                          !.event = reason])

Looping == runs # <<>> /\ Running.at = "LOOP"

TotalExpired ==
    /\ Looping /\ Running.retired >= Total
    /\ Return(Running.context)
    /\ UNCHANGED <<routing, coordinator>>

Budget == IF Total - Running.retired < Segment THEN Total - Running.retired ELSE Segment

\* Which engine the next segment runs on.
Routed(engine) ==
    /\ Looping /\ Running.retired < Total
    /\ engine = IF bound \/ InImage(Running.context.pc) THEN "HYBRID"
                ELSE IF routing = "I386" THEN "I386"
                ELSE IF Running.context.isa = "ARM64EC" THEN "ARM"
                ELSE IF routing = "X86_64" THEN "X64" ELSE "NONE"

\* An x64 context without x86-64 routing is an engine error.
NoEngine ==
    /\ Routed("NONE")
    /\ Return(Running.context)
    /\ UNCHANGED <<routing, coordinator>>

\* Contexts an engine can leave after retired instructions of c.
After(c, retired) ==
    {d \in Context : d.isa = c.isa /\ d.cookie = c.cookie /\ (retired = 0 => d = c)}

\* gem_arm64ec_runtime_run, gem_x64_runtime_run or gem_i386_runtime_run on the
\* thread's own runtime.  The native image broker stops ARM64 code that enters
\* an image before the first instruction there.
Engine(engine, reason, retired, c) ==
    /\ Routed(engine)
    /\ (reason = "HOST_RETURN") = (c.pc = "host")
    /\ (reason = "ARCH") = (engine = "ARM" /\ InImage(c.pc))
    /\ Dispose(reason, retired, c, FALSE)
    /\ UNCHANGED <<routing, coordinator>>

-----------------------------------------------------------------------------
(* The coordinator route: gem_hybrid_runtime_run.                           *)

\* Faulty variant: the cookie is not compared.
HybridAcceptsAnyCookie(c) == c.isa = stageIsa

\* generic_context_valid.
HybridAccepts(c) == c.isa = stageIsa /\ c.cookie = TopCookie

\* generic_begin; a coordinator that refuses to begin is not kept.
HybridBegin ==
    /\ Routed("HYBRID") /\ ~bound
    /\ LET c == Running.context IN
          \/ /\ c.isa = "ARM64EC" /\ c.cookie = 0
             /\ bound' = TRUE /\ stageIsa' = "ARM64EC" /\ frames' = <<>>
             /\ nativeReturn' = (IF SvcBoundaries THEN "host" ELSE c.lr)
             /\ UNCHANGED <<runs, published>>
          \/ /\ c.isa # "ARM64EC" \/ c.cookie # 0
             /\ Dispose("INVARIANT", 0, c, TRUE)
             /\ UNCHANGED <<bound, stageIsa, frames, nativeReturn>>
    /\ UNCHANGED <<routing, generation>>

\* A context the coordinator did not stop with is refused; the sidecar stays.
HybridRefuses ==
    /\ Routed("HYBRID") /\ bound /\ ~HybridAccepts(Running.context)
    /\ Dispose("INVARIANT", 0, Running.context, TRUE)
    /\ UNCHANGED <<routing, coordinator>>

\* The broker stops the ARM64EC engine before its first instruction.
AtReturn == frames = <<>> /\ Running.context.pc = nativeReturn

HybridRuns == Routed("HYBRID") /\ bound /\ HybridAccepts(Running.context)

Unbind ==
    /\ bound' = FALSE /\ stageIsa' = "ARM64EC" /\ frames' = <<>> /\ nativeReturn' = "host"
    /\ UNCHANGED generation

\* A stop that keeps the sidecar: a budget slice, an event, or a refusing
\* broker.  The frames change by one at most; more takes several segments.
HybridStop(reason, retired, pc, lr, isa, fs) ==
    /\ HybridRuns /\ ~AtReturn
    /\ \/ fs = frames
       \/ fs = SubSeq(frames, 1, Len(frames) - 1) /\ retired > 0
       \/ fs = Append(frames, generation + 1) /\ Len(fs) <= 2 /\ generation < MaxCookie
            /\ retired > 0
    /\ retired = 0 => pc = Running.context.pc /\ lr = Running.context.lr /\ isa = stageIsa
    /\ fs = <<>> => isa = "ARM64EC"
    /\ generation' = (IF Len(fs) > Len(frames) THEN generation + 1 ELSE generation)
    /\ stageIsa' = isa /\ frames' = fs
    /\ Dispose(reason, retired,
               [isa |-> isa, pc |-> pc, lr |-> lr,
                cookie |-> IF fs = <<>> THEN 0 ELSE fs[Len(fs)]], TRUE)
    /\ UNCHANGED <<routing, bound, nativeReturn>>

\* generic_invariant: the frames and the sidecar are gone.
HybridFails ==
    /\ HybridRuns /\ ~AtReturn
    /\ Unbind
    /\ Dispose("INVARIANT", 0, [Running.context EXCEPT !.isa = "ARM64EC", !.cookie = 0], TRUE)
    /\ UNCHANGED routing

\* Control reaches the captured native return address.
HybridReturn(retired, lr) ==
    /\ HybridRuns
    /\ IF AtReturn THEN retired = 0 /\ lr = Running.context.lr ELSE retired > 0
    /\ Unbind
    /\ Dispose("ARCH", retired, [isa |-> "ARM64EC", pc |-> nativeReturn, lr |-> lr, cookie |-> 0],
               TRUE)
    /\ UNCHANGED routing

-----------------------------------------------------------------------------
(* The boundary callback.                                                   *)

InCallback == runs # <<>> /\ Running.at = "CALLBACK"

\* The cookie stays the coordinator's, whatever is in Wine's response.
Resumed(c) == [c EXCEPT !.cookie = Running.context.cookie]

\* A proposal that passes validation.
Resume(c) ==
    /\ InCallback
    /\ Running.event = "SYSCALL" => c.pc # Running.context.pc
    /\ Continue([Running EXCEPT !.context = Resumed(c), !.at = "LOOP", !.event = "OTHER"])
    /\ UNCHANGED <<routing, coordinator>>

\* The callback terminates the run, fails, or makes a proposal that is
\* rejected: the context from before the callback is published.
GiveUp ==
    /\ InCallback
    /\ Return(Running.context)
    /\ UNCHANGED <<routing, coordinator>>

-----------------------------------------------------------------------------
Hybrid ==
    \/ HybridBegin
    \/ HybridRefuses
    \/ HybridFails
    \/ HybridRuns /\ \E retired \in 0 .. Budget, lr \in Link : HybridReturn(retired, lr)
    \/ HybridRuns /\ \E reason \in {"BUDGET", "SYSCALL", "OTHER", "INVARIANT"}, retired \in 0 .. Budget,
          pc \in Pc, lr \in Link, isa \in ISA,
          fs \in {frames, SubSeq(frames, 1, Len(frames) - 1), Append(frames, generation + 1)} :
             HybridStop(reason, retired, pc, lr, isa, fs)

Engines ==
    \E engine \in {"ARM", "X64", "I386"} :
       /\ Routed(engine)
       /\ \E retired \in 0 .. Budget,
             reason \in {"BUDGET", "SYSCALL", "OTHER", "INVARIANT", "HOST_RETURN", "ARCH"} :
                \E c \in After(Running.context, retired) : Engine(engine, reason, retired, c)

Loop == TotalExpired \/ NoEngine \/ Engines \/ Hybrid
Answer == GiveUp \/ \E c \in FreshContext : Resume(c)

RunNext == (\E c \in Context : Enter(c)) \/ Loop \/ Answer

\* The host thread keeps running, and every callback of Wine comes to an
\* answer, however many runs it starts before.
RunSpec ==
    /\ RunInit /\ [][RunNext]_runVars
    /\ WF_runVars(Loop)
    /\ \A n \in 1 .. MaxNesting : SF_runVars(Len(runs) = n /\ Answer)

-----------------------------------------------------------------------------
(* Properties.                                                              *)

\* Every variable has its type; no frame has the cookie that means "no frame".
RunTypeOK ==
    /\ routing \in Routings
    /\ runs \in Seq(Call) /\ Len(runs) <= MaxNesting
    /\ bound \in BOOLEAN /\ stageIsa \in ISA /\ nativeReturn \in Pc
    /\ frames \in Seq(Cookie \ {0}) /\ Len(frames) <= 2
    /\ generation \in Cookie /\ published \in Cookie

\* The frames of a run that is paused in a boundary callback, and of the run
\* that returned last, stay on top of the coordinator: whatever its callback
\* starts on the same thread, "a syscall inside an ARM64EC callback can resume
\* the exact depth/call frame that produced it" (thread_run).
PausedFramesKept ==
    /\ \A i \in 1 .. Len(runs) :
          LET c == runs[i].context
          IN runs[i].at = "CALLBACK" /\ c.cookie # 0 => bound /\ c.cookie = TopCookie
    /\ runs = <<>> /\ published # 0 => bound /\ published = TopCookie

\* How far the innermost run can still go without retiring an instruction or
\* spending a callback: an answer, the coordinator's begin, its return.
Distance ==
    CASE Running.at = "CALLBACK" -> 3
      [] Running.at = "LOOP" /\ ~bound /\ InImage(Running.context.pc) -> 2
      [] Running.at = "LOOP" /\ bound -> 1
      [] OTHER -> 0

\* The innermost run has retired instructions of the total budget, has spent one
\* of its boundary callbacks, or has come nearer to doing so.
UsesUp ==
    \/ Running'.retired > Running.retired
    \/ /\ Running'.retired = Running.retired
       /\ \/ Running'.callbacks > Running.callbacks
          \/ Running'.callbacks = Running.callbacks /\ Distance' < Distance

\* Every step of a run that does not end it uses something up, none of which
\* comes back: a run of thread_run is finite whatever Wine answers and however
\* often engines and coordinator hand over to each other, and runs that its
\* callbacks start leave alone what it has used.
RunsUseUp ==
    [][/\ \A i \in 1 .. Len(runs) - 1 : runs'[i] = runs[i]
       /\ runs # <<>> /\ Len(runs') = Len(runs) => UsesUp]_runVars

\* "The total budget still bounds the complete run across resumed boundary
\* segments": every call of thread_run returns.
RunReturns == \A n \in 1 .. MaxNesting : Len(runs) >= n ~> Len(runs) < n
=============================================================================
