---------------------------- MODULE Arm64ecEngine ----------------------------
(***************************************************************************)
(* One ARM64EC runtime: gem_arm64ec_runtime_run (src/gem/arm64ec_engine.c) *)
(* and gem_arm64ec_dynarmic_run (src/gem/arm64ec_dynarmic.cpp).  The       *)
(* engine runs translated segments (SVC-trap delivery, native profile),    *)
(* steps single instructions (precise delivery), and replays through the   *)
(* precise loop a segment that faulted.                                    *)
(*                                                                         *)
(* Guest code is a short program over the instructions the engine tells    *)
(* apart.  A store increments one word of guest memory and, in the same    *)
(* instruction sequence, a register that counts the stores: memory is      *)
(* shared and never rolled back, the register is part of the context.  The *)
(* native profile is the one without broker, ARM64X routing being off.     *)
(* Dynarmic is external; a segment may end after any instruction.          *)
(***************************************************************************)
EXTENDS Integers, Sequences

CONSTANTS
    Program,        \* the guest's instructions; the host-return sentinel follows
    Profiles,       \* of {"SVC", "PRECISE", "NATIVE"}: the runtimes to check
    Links,          \* where x30 may point
    Budgets,        \* the budgets a caller passes
    MaxBudget,      \* config.max_budget
    Limits,         \* config.max_transitions; 0 is no limit
    MaxResumes,     \* 1024 in the code: segments in a row that retire nothing
    Wrap,           \* bound: width of the stored word and the counting register
    MaxRequests     \* bound: asynchronous stop requests

Instruction == {"plain", "store", "load", "clobber", "syscall", "helper", "redirect", "x64"}

ASSUME EngineAssumption ==
    /\ Program \in Seq(Instruction) /\ Program # <<>>
    /\ Profiles \subseteq {"SVC", "PRECISE", "NATIVE"} /\ Profiles # {}
    /\ Links \subseteq 1 .. Len(Program) + 1 /\ Links # {}
    /\ Budgets \subseteq Nat /\ MaxBudget \in Nat \ {0}
    /\ Limits \subseteq Nat /\ Limits # {} /\ MaxResumes \in Nat
    /\ Wrap \in Nat \ {0, 1} /\ MaxRequests \in Nat

VARIABLES
    profile, limit,     \* the configuration
    attached,           \* target_map # NULL, as the coordinator attaches it
    link,               \* x30
    mapped,             \* whether the page the load reads is accessible
    word,               \* the word the stores increment
    context,            \* the caller's context
    jit,                \* Dynarmic's registers
    before,             \* the snapshot of the segment or instruction
    phase,              \* where run is; "HOST" and "CLOSED" are outside it
    budget, retired,    \* of this run; retired excludes the open segment
    ticks,              \* instructions of the open segment
    pending,            \* env.pending_reason, with the kind of transition
    dirty,              \* env.cache_dirty
    resumes,            \* zero_progress_resumes
    transitions,        \* transition_count
    async, requests,    \* UserDefined3, and requests so far
    stop                \* last_stop

config == <<profile, limit, attached, link>>
segment == <<before, ticks, pending, dirty>>
vars == <<config, mapped, word, context, jit, segment, phase, budget, retired, resumes,
          transitions, async, requests, stop>>

Pc == 1 .. Len(Program) + 1
HostReturn == Len(Program) + 1
At(pc) == IF pc = HostReturn THEN "return" ELSE Program[pc]

\* teb: x18 holds the canonical TEB.
Registers == [pc : Pc, count : 0 .. Wrap - 1, teb : BOOLEAN]

Reason == {"NONE", "BUDGET", "HOST_RETURN", "TRANSITION", "SYSCALL", "FAULT", "ASYNC", "INVARIANT"}
Pending == {"NONE", "FAULT", "SVC", "FETCH", "REDIRECT", "SYSCALL", "HOST_RETURN"}

\* The native profile has neither map nor broker.
Strict == profile # "NATIVE"

Init ==
    /\ profile \in Profiles /\ limit \in Limits /\ link \in Links
    /\ attached \in BOOLEAN /\ (attached => Strict)
    /\ mapped = FALSE /\ word = 0
    /\ context = [pc |-> 1, count |-> 0, teb |-> TRUE]
    /\ jit = context /\ before = context
    /\ phase = "HOST" /\ budget = 0 /\ retired = 0 /\ ticks = 0
    /\ pending = "NONE" /\ dirty = FALSE /\ resumes = 0 /\ transitions = 0
    /\ async = FALSE /\ requests = 0 /\ stop = [reason |-> "NONE", retired |-> 0]

-----------------------------------------------------------------------------
(* Helpers.                                                                 *)

Advanced(r) == [r EXCEPT !.pc = @ + 1]

\* A trap leaves the pc one instruction past it.
Back(r) == [r EXCEPT !.pc = @ - 1]

Stored(r) == [Advanced(r) EXCEPT !.count = (@ + 1) % Wrap]

\* TakeSnapshot and ResetInstruction before a segment or a step.
Fresh(r) ==
    /\ jit' = r /\ before' = r /\ ticks' = 0 /\ pending' = "NONE" /\ dirty' = FALSE

\* ClearTransientHalts drops an asynchronous request that nobody has seen.
ClearHalts == async' = FALSE /\ UNCHANGED requests

\* SetStopInfo and the return: the context is published and validated again by
\* gem_arm64ec_runtime_run, which refuses one that lost its TEB.
PublishStored(reason, count, c) ==
    /\ context' = c
    /\ stop' = IF c.teb THEN [reason |-> reason, retired |-> count]
                        ELSE [reason |-> "INVARIANT", retired |-> 0]
    /\ phase' = IF stop'.reason \in {"HOST_RETURN", "INVARIANT"} THEN "CLOSED" ELSE "HOST"
    /\ Fresh(c) /\ ClearHalts
    /\ budget' = 0 /\ retired' = 0 /\ resumes' = 0 /\ transitions' = 0
    /\ UNCHANGED <<config, mapped>>

Publish(reason, count, c) == PublishStored(reason, count, c) /\ UNCHANGED word

\* The context goes back to the snapshot.
Rollback(reason) == Publish(reason, retired, before)

\* Faulty variant: RESUME may name the address the broker was asked about.
AcceptsAnyResume(r) == ~(limit # 0 /\ transitions >= limit)

\* What the engine demands of a RESUME: another pc, and a transition left.
AcceptsResume(r) == link # r.pc /\ ~(limit # 0 /\ transitions >= limit)

\* The count matters only when it is limited.
Counted == IF limit = 0 THEN 0 ELSE transitions + 1

-----------------------------------------------------------------------------
(* gem_arm64ec_runtime_run, and the world around the runtime.               *)

\* A run whose budget is above max_budget is refused, one with no budget expires
\* at once; neither touches the context.
Refuse ==
    /\ phase = "HOST"
    /\ \E b \in Budgets :
          \/ b > MaxBudget /\ stop' = [reason |-> "INVARIANT", retired |-> 0]
          \/ b = 0 /\ stop' = [reason |-> "BUDGET", retired |-> 0]
    /\ UNCHANGED <<config, mapped, word, context, jit, segment, phase, budget, retired, resumes,
                   transitions, async, requests>>

Run(b) ==
    /\ phase = "HOST" /\ b \in 1 .. MaxBudget
    /\ phase' = IF profile = "PRECISE" THEN "PRECISE" ELSE "SEGMENT"
    /\ budget' = b
    /\ Fresh(context) /\ ClearHalts
    /\ UNCHANGED <<config, mapped, word, context, retired, resumes, transitions, stop>>

\* What Wine or the coordinator does between two runs: it serves the call and
\* moves on to the next instruction.
Serve ==
    /\ phase = "HOST" /\ stop.reason \in {"SYSCALL", "TRANSITION"}
    /\ context' = Advanced(context)
    /\ stop' = [reason |-> "NONE", retired |-> 0]
    /\ UNCHANGED <<config, mapped, word, jit, segment, phase, budget, retired, resumes,
                   transitions, async, requests>>

\* Any thread may make the page accessible, also between a fault and its replay.
MapPage ==
    /\ ~mapped /\ mapped' = TRUE
    /\ UNCHANGED <<config, word, context, jit, segment, phase, budget, retired, resumes,
                   transitions, async, requests, stop>>

RequestAsyncStop ==
    /\ requests < MaxRequests
    /\ async' = TRUE /\ requests' = requests + 1
    /\ UNCHANGED <<config, mapped, word, context, jit, segment, phase, budget, retired, resumes,
                   transitions, stop>>

-----------------------------------------------------------------------------
(* A translated segment: Dynarmic and the callbacks it makes.               *)

Open == pending = "NONE" /\ ~dirty /\ ticks < budget - retired

Retire(r) == jit' = r /\ ticks' = ticks + 1
Trap(p) == pending' = p /\ UNCHANGED <<word, dirty>>

\* Faulty variant: no halt after a store.
StoreHaltsNever == FALSE

\* The strict profiles end the segment with every store; the native profile only
\* for stores to code.
StoreHalts == Strict

Execute ==
    /\ phase = "SEGMENT" /\ Open
    /\ LET i == At(jit.pc)
       IN  \/ /\ i = "store"
              /\ Retire(Stored(jit)) /\ word' = (word + 1) % Wrap /\ dirty' = StoreHalts
              /\ UNCHANGED pending
           \/ /\ i = "clobber" /\ Retire([Advanced(jit) EXCEPT !.teb = FALSE])
              /\ UNCHANGED <<word, pending, dirty>>
           \/ /\ i = "plain" \/ (i = "load" /\ mapped) \/ (i \in {"redirect", "x64"} /\ ~attached)
              /\ Retire(Advanced(jit)) /\ UNCHANGED <<word, pending, dirty>>
           \/ i = "load" /\ ~mapped /\ Trap("FAULT") /\ UNCHANGED <<jit, ticks>>
           \/ i = "redirect" /\ attached /\ Trap("REDIRECT") /\ UNCHANGED <<jit, ticks>>
           \/ i = "x64" /\ attached /\ Trap("FETCH") /\ UNCHANGED <<jit, ticks>>
           \/ i = "return" /\ Trap("HOST_RETURN") /\ UNCHANGED <<jit, ticks>>
           \/ i = "helper" /\ Strict /\ Trap("SVC") /\ Retire(Advanced(jit))
           \/ /\ i = "syscall" \/ (i = "helper" /\ ~Strict)
              /\ Trap("SYSCALL") /\ Retire(Advanced(jit))
    /\ UNCHANGED <<config, mapped, context, before, phase, budget, retired, resumes, transitions,
                   async, requests, stop>>

-----------------------------------------------------------------------------
(* The end of a segment.                                                    *)

\* A cache halt may report no tick although the store retired.
SegmentRetired == IF dirty THEN {1, ticks} ELSE {ticks}

\* Too many segments in a row retired nothing.
Stuck == Strict /\ ticks = 0 /\ resumes >= MaxResumes

\* The loop goes on with the registers r.
NextSegment(r, count) ==
    /\ context' = r /\ Fresh(r) /\ ClearHalts
    /\ phase' = "SEGMENT" /\ retired' = count
    /\ UNCHANGED <<config, mapped, word, budget, stop>>

\* The segment is executed again, instruction by instruction.
ReplayFault ==
    /\ phase = "SEGMENT" /\ pending = "FAULT"
    /\ context' = before /\ Fresh(before) /\ ClearHalts
    /\ phase' = "PRECISE"
    /\ UNCHANGED <<config, mapped, word, budget, retired, resumes, transitions, stop>>

FollowRedirect ==
    /\ phase = "SEGMENT" /\ pending = "REDIRECT"
    /\ IF jit.teb
         THEN /\ NextSegment(Advanced(jit), retired + ticks)
              /\ resumes' = (IF ticks = 0 THEN resumes ELSE 0) /\ UNCHANGED transitions
         ELSE Rollback("INVARIANT")

\* Faulty variant: the pc stays past the trap.
BoundaryPcPast == jit

\* A fetch boundary never advanced; the traps did.
BoundaryPc == IF pending \in {"FETCH", "HOST_RETURN"} THEN jit ELSE Back(jit)

\* The marker is not guest work; only the native profile discounts other traps.
BoundaryRetired ==
    retired + (IF pending = "SVC" \/ (pending = "SYSCALL" /\ ~Strict) THEN ticks - 1 ELSE ticks)

BoundaryReason ==
    CASE pending \in {"SVC", "FETCH"} -> "TRANSITION"
      [] pending = "SYSCALL"          -> "SYSCALL"
      [] pending = "HOST_RETURN"      -> "HOST_RETURN"

\* The broker knows the helpers: it fails, stops there, or resumes at x30.
\* Anything else it leaves to the caller.
Boundary ==
    /\ phase = "SEGMENT" /\ pending \in {"SVC", "FETCH", "SYSCALL", "HOST_RETURN"}
    /\ LET r == BoundaryPc
       IN  IF ~jit.teb THEN Rollback("INVARIANT")
           ELSE IF pending # "SVC" THEN Publish(BoundaryReason, BoundaryRetired, r)
           ELSE \/ Publish("INVARIANT", BoundaryRetired, r)
                \/ /\ ~(limit # 0 /\ transitions >= limit)
                   /\ Publish("TRANSITION", BoundaryRetired, r)
                \/ /\ AcceptsResume(r)
                   /\ NextSegment([r EXCEPT !.pc = link], BoundaryRetired)
                   /\ transitions' = Counted
                   /\ resumes' = (IF ticks = 0 THEN resumes ELSE 0)

\* A pending request; the registers are published without the TEB test of the
\* other ends.
AsyncStop ==
    /\ phase = "SEGMENT" /\ pending = "NONE" /\ async /\ ~Stuck
    /\ \E n \in SegmentRetired : Publish("ASYNC", retired + n, jit)

\* Dynarmic refuses a block longer than what is left of the budget (UserDefined2).
\* The native path goes on instruction by instruction instead.
RefuseBlock ==
    /\ phase = "SEGMENT" /\ Open /\ ~Stuck
    /\ IF ~jit.teb THEN Rollback("INVARIANT")
       ELSE IF Strict THEN Publish("BUDGET", retired + ticks, jit)
       ELSE /\ context' = jit /\ Fresh(jit) /\ ClearHalts
            /\ phase' = "PRECISE" /\ retired' = retired + ticks
            /\ UNCHANGED <<config, mapped, word, budget, resumes, transitions, stop>>

\* The segment ended after a store, with the budget, or without a reason.  Like
\* every continuation it may drop a request that arrives after Dynarmic returned.
EndSegment ==
    /\ phase = "SEGMENT" /\ pending = "NONE"
    /\ dirty \/ ticks = budget - retired \/ (ticks = 0 /\ Strict)
    /\ \E n \in SegmentRetired :
          IF Stuck THEN Publish("INVARIANT", retired, jit)
          ELSE IF ~jit.teb THEN Rollback("INVARIANT")
          ELSE IF retired + n = budget THEN Publish("BUDGET", budget, jit)
          ELSE /\ NextSegment(jit, retired + n)
               /\ resumes' = (IF n = 0 THEN resumes + 1 ELSE 0)
               /\ UNCHANGED transitions

-----------------------------------------------------------------------------
(* The precise loop.                                                        *)

Expire ==
    /\ phase = "PRECISE" /\ retired = budget
    /\ Publish("BUDGET", retired, jit)

\* The broker is asked before every fetch; after RESUME the instruction at the
\* new pc is executed without asking again.
AskBroker ==
    /\ phase = "PRECISE" /\ retired < budget /\ Strict /\ At(jit.pc) = "helper"
    /\ \/ Publish("INVARIANT", retired, jit)
       \/ ~(limit # 0 /\ transitions >= limit) /\ Publish("TRANSITION", retired, jit)
       \/ /\ AcceptsResume(jit)
          /\ context' = [jit EXCEPT !.pc = link] /\ Fresh(context')
          /\ transitions' = Counted /\ phase' = "STEP"
          /\ UNCHANGED <<config, mapped, word, budget, retired, resumes, async, requests, stop>>

Fetches ==
    \/ phase = "STEP"
    \/ phase = "PRECISE" /\ retired < budget /\ (Strict => At(jit.pc) # "helper")

\* A redirected address is fetched at its target, in the same round.
StepRedirect ==
    /\ Fetches /\ attached /\ At(jit.pc) = "redirect"
    /\ Fresh(Advanced(jit)) /\ phase' = "STEP"
    /\ UNCHANGED <<config, mapped, word, context, budget, retired, resumes, transitions, async,
                   requests, stop>>

\* The stops that retire nothing: they publish the registers before the step.  A
\* marker the broker was not asked about moves the pc and is refused; so is the
\* sentinel under a target map, which does not resolve it, unless the broker
\* resumed there.
StepStops ==
    /\ Fetches
    /\ LET i == At(jit.pc)
       IN  \/ /\ i = "return"
              /\ Publish(IF attached /\ phase = "PRECISE" THEN "INVARIANT" ELSE "HOST_RETURN",
                         retired, jit)
           \/ i = "x64" /\ attached /\ Publish("TRANSITION", retired, jit)
           \/ i = "load" /\ ~mapped /\ Publish("FAULT", retired, jit)
           \/ i = "syscall" /\ Publish("SYSCALL", retired, jit)
           \/ i = "helper" /\ Publish(IF profile = "SVC" THEN "INVARIANT" ELSE "SYSCALL", retired, jit)

\* The registers after one step.
Stepped ==
    LET i == At(jit.pc)
    IN  CASE i = "store"   -> Stored(jit)
          [] i = "clobber" -> [Advanced(jit) EXCEPT !.teb = FALSE]
          [] OTHER         -> Advanced(jit)

Steps ==
    /\ Fetches
    /\ LET i == At(jit.pc)
       IN  \/ i \in {"plain", "store", "clobber"} \/ (i = "load" /\ mapped)
           \/ i \in {"redirect", "x64"} /\ ~attached

StepStore == word' = IF At(jit.pc) = "store" THEN (word + 1) % Wrap ELSE word

\* A request seen by the step: nothing is counted, and Dynarmic may or may not
\* have executed the instruction.
StepAsync ==
    /\ Steps /\ async
    /\ \/ Publish("ASYNC", retired, jit)
       \/ StepStore /\ PublishStored("ASYNC", retired, Stepped)

\* An instruction that changed x18 is undone; otherwise the loop goes on, or
\* returns when the pc is the sentinel.
StepRetires ==
    /\ Steps
    /\ IF ~Stepped.teb THEN Publish("INVARIANT", retired, jit)
       ELSE IF Stepped.pc = HostReturn /\ ~attached
         THEN StepStore /\ PublishStored("HOST_RETURN", retired + 1, Stepped)
       ELSE /\ StepStore
            /\ Fresh(Stepped) /\ ClearHalts
            /\ retired' = retired + 1
            /\ phase' = "PRECISE"
            /\ UNCHANGED <<config, mapped, context, budget, resumes, transitions, stop>>

Engine ==
    \/ Execute \/ ReplayFault \/ FollowRedirect \/ Boundary \/ AsyncStop \/ RefuseBlock
    \/ EndSegment \/ Expire \/ AskBroker \/ StepRedirect \/ StepStops \/ StepAsync
    \/ StepRetires

Next ==
    \/ Engine \/ Refuse \/ (\E b \in Budgets : Run(b)) \/ Serve \/ MapPage \/ RequestAsyncStop

\* The thread inside run keeps executing; nobody has to call it again, map the
\* page or request a stop.
Spec == Init /\ [][Next]_vars /\ WF_vars(Engine)

-----------------------------------------------------------------------------
(* Properties.                                                              *)

\* The variables have their types and a run never counts past its budget.
TypeOK ==
    /\ profile \in Profiles /\ limit \in Limits /\ link \in Links /\ attached \in BOOLEAN
    /\ mapped \in BOOLEAN /\ word \in 0 .. Wrap - 1
    /\ {context, jit, before} \subseteq Registers
    /\ phase \in {"HOST", "SEGMENT", "PRECISE", "STEP", "CLOSED"}
    /\ budget \in 0 .. MaxBudget /\ retired \in 0 .. budget /\ ticks \in 0 .. budget - retired
    /\ pending \in Pending /\ dirty \in BOOLEAN /\ resumes \in 0 .. MaxResumes
    /\ transitions \in 0 .. limit
    /\ async \in BOOLEAN /\ requests \in 0 .. MaxRequests
    /\ stop \in [reason : Reason, retired : 0 .. MaxBudget]

\* A context the caller may go on with describes the memory: every store before
\* its pc has been made exactly once, also after faults that were replayed,
\* asynchronous stops and expired budgets.
StopsAreExact ==
    phase = "HOST" \/ stop.reason = "HOST_RETURN" => word = context.count

\* So it is for the strict profiles, whose segments end with every store.
StrictStopsAreExact == Strict => StopsAreExact

\* The published pc is that of the instruction that caused the stop, whether it
\* was found by the translator, by a trap one instruction past it, by the broker
\* or by the replay: the caller serves that instruction and goes on after it.
StopsAtCause ==
    phase = "HOST" =>
        /\ stop.reason = "SYSCALL"    => At(context.pc) \in {"syscall", "helper"}
        /\ stop.reason = "TRANSITION" => At(context.pc) \in {"helper", "x64"}
        /\ stop.reason = "FAULT"      => At(context.pc) = "load"

\* Every run returns: replays, redirections, brokered helpers and segments that
\* retire nothing cannot keep it going for ever.
RunReturns == (phase \notin {"HOST", "CLOSED"}) ~> (phase \in {"HOST", "CLOSED"})
=============================================================================
