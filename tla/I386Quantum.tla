----------------------------- MODULE I386Quantum -----------------------------
(***************************************************************************)
(* The i386 engine's run loop (src/gem/i386_engine.c) over Blink's bounded *)
(* multi-instruction run: optimistic quanta, conflict retries, the         *)
(* adaptive quantum budget and asynchronous stops.                         *)
(*                                                                         *)
(* A guest program is a straight line of instructions ending at the host   *)
(* return sentinel, so a context is a program counter.  Guest memory is    *)
(* what GemTransaction promises of it: a page has a stamp that every       *)
(* store changes, and a commit or finish accepts exactly when the stamps   *)
(* of all pages the quantum touched are the recorded ones.                 *)
(***************************************************************************)
EXTENDS Integers, Sequences, FiniteSets

CONSTANTS
    Threads,         \* one runtime each
    Pages,
    Program,         \* instructions of each thread
    Budgets,         \* the budgets callers pass
    MaxBudget,       \* config.max_budget
    InitialQuantum,  \* 64
    MaxQuantum,      \* 256
    YieldAfter,      \* 8
    MaxStamp,        \* bound on stores to one page
    MaxOther         \* bound on stores to a page by threads outside these runtimes

Instruction == [op : {"load", "inc", "lock", "fault"}, page : Pages]

ASSUME QuantumAssumption ==
    /\ IsFiniteSet(Threads) /\ Program \in [Threads -> Seq(Instruction)]
    /\ Budgets \subseteq Nat /\ MaxBudget \in Nat
    /\ InitialQuantum \in 1 .. MaxQuantum /\ MaxQuantum \in Nat
    /\ YieldAfter \in Nat \ {0} /\ MaxStamp \in Nat /\ MaxOther \in Nat

VARIABLES
    memory,  \* value and stamp of each page
    other,   \* increments others have made to each page
    rt,      \* struct gem_i386_runtime and its caller's context
    quantum  \* the quantum a runtime is executing

vars == <<memory, other, rt, quantum>>

Reasons == {"NONE", "BUDGET_EXPIRED", "HOST_RETURN", "ASYNC_REQUEST", "CONFLICT",
            "MEMORY_FAULT", "INVARIANT_VIOLATION"}
Runtime == [running : BOOLEAN, failed : BOOLEAN, async : BOOLEAN,
            budget : Nat, retired : Nat, quantum : Nat, conflicts : Nat,
            start : Nat, context : Nat, result : Reasons]

NoQuantum == [stage |-> "none", limit |-> 0, retired |-> 0, output |-> 0,
              deps |-> [p \in {} |-> 0], shadow |-> [p \in {} |-> 0], reason |-> "NONE"]

Touched(t) == DOMAIN quantum[t].deps
\* Faulty variant: no dependency is validated.
CurrentAlways(t) == TRUE

Current(t) == \A p \in Touched(t) : memory[p].stamp = quantum[t].deps[p]
AtSentinel(t) == quantum[t].output > Len(Program[t])
CurrentInstruction(t) == Program[t][quantum[t].output]

\* f with p mapped to x.
With(f, p, x) == [q \in DOMAIN f \cup {p} |-> IF q = p THEN x ELSE f[q]]

-----------------------------------------------------------------------------
(* Calls.                                                                   *)

Init ==
    /\ memory = [p \in Pages |-> [value |-> 0, stamp |-> 0]]
    /\ other = [p \in Pages |-> 0]
    /\ rt = [t \in Threads |->
               [running |-> FALSE, failed |-> FALSE, async |-> FALSE, budget |-> 0,
                retired |-> 0, quantum |-> InitialQuantum, conflicts |-> 0,
                start |-> 0, context |-> 1, result |-> "NONE"]]
    /\ quantum = [t \in Threads |-> NoQuantum]

\* The locals of gem_i386_runtime_run, inside which the runtime is running.
Started(r, budget) ==
    [r EXCEPT !.running = TRUE, !.budget = budget, !.retired = 0, !.start = r.context]

\* gem_i386_runtime_run up to its loop; the bridge serialises calls on one
\* runtime, so running is never set here.
Run(t, budget) ==
    /\ ~rt[t].running
    /\ IF rt[t].failed \/ (MaxBudget # 0 /\ budget > MaxBudget)
       THEN rt' = [rt EXCEPT ![t].result = "INVARIANT_VIOLATION"] /\ UNCHANGED quantum
       ELSE IF budget = 0
       THEN rt' = [rt EXCEPT ![t].result = "BUDGET_EXPIRED"] /\ UNCHANGED quantum
       ELSE /\ rt' = [rt EXCEPT ![t] = Started(@, budget)]
            /\ quantum' = [quantum EXCEPT ![t].stage = "begin"]
    /\ UNCHANGED <<memory, other>>

\* gem_i386_runtime_request_async_stop, from any thread at any time.
RequestAsyncStop(t) ==
    /\ ~rt[t].async
    /\ rt' = [rt EXCEPT ![t].async = TRUE]
    /\ UNCHANGED <<memory, other, quantum>>

\* gem_i386_runtime_invalidate_code refuses to touch a running engine and
\* poisons the runtime instead.
InvalidateCode(t) ==
    /\ rt' = [rt EXCEPT ![t].failed = @ \/ rt[t].running]
    /\ UNCHANGED <<memory, other, quantum>>

\* Any other thread increments the same word, with the memory lock held.
OtherStore(p) ==
    /\ other[p] < MaxOther /\ memory[p].stamp < MaxStamp
    /\ other' = [other EXCEPT ![p] = @ + 1]
    /\ memory' = [memory EXCEPT ![p] =
          [value |-> memory[p].value + 1, stamp |-> memory[p].stamp + 1]]
    /\ UNCHANGED <<rt, quantum>>

-----------------------------------------------------------------------------
(* One quantum.                                                             *)

\* The runtime after the run has returned; its locals are gone.
Returned(r, reason) ==
    [r EXCEPT !.running = FALSE, !.budget = 0, !.retired = 0, !.start = 0,
              !.result = IF reason = "NONE" THEN "BUDGET_EXPIRED" ELSE reason]

Return(t, reason) ==
    /\ rt' = [rt EXCEPT ![t] = Returned(@, reason)]
    /\ quantum' = [quantum EXCEPT ![t] = NoQuantum]

\* Faulty variant: the last instruction of the budget never fits.
QuantumLimitShort(t) ==
    LET remaining == rt[t].budget - rt[t].retired
    IN  IF rt[t].quantum >= remaining THEN remaining - 1 ELSE rt[t].quantum

QuantumLimit(t) ==
    LET remaining == rt[t].budget - rt[t].retired
    IN  IF rt[t].quantum > remaining THEN remaining ELSE rt[t].quantum

\* The head of the loop: the budget is spent, the transaction cannot be
\* allocated, or a quantum starts from the context with empty shadow pages.
BeginQuantum(t) ==
    /\ quantum[t].stage = "begin"
    /\ \/ rt[t].retired >= rt[t].budget /\ Return(t, "NONE")
       \/ rt[t].retired < rt[t].budget /\ Return(t, "INVARIANT_VIOLATION")
       \/ /\ rt[t].retired < rt[t].budget
          /\ quantum' = [quantum EXCEPT ![t] =
                [NoQuantum EXCEPT !.stage = "check", !.limit = QuantumLimit(t),
                                  !.output = rt[t].context]]
          /\ UNCHANGED rt
    /\ UNCHANGED <<memory, other>>

Stopped(q, reason) == [q EXCEPT !.stage = "finish", !.reason = reason]

Stop(t, reason) == quantum' = [quantum EXCEPT ![t] = Stopped(@, reason)]

\* blink_gem_machine_run between instructions: the sentinel, the quantum's
\* budget, then the asynchronous request, which is consumed (async_stop).
CheckStop(t) ==
    /\ quantum[t].stage = "check"
    /\ \/ AtSentinel(t) /\ Stop(t, "HOST_RETURN") /\ UNCHANGED rt
       \/ ~AtSentinel(t) /\ quantum[t].retired >= quantum[t].limit
          /\ Stop(t, "NONE") /\ UNCHANGED rt
       \/ /\ ~AtSentinel(t) /\ quantum[t].retired < quantum[t].limit
          /\ rt' = [rt EXCEPT ![t].async = FALSE]
          /\ IF rt[t].async THEN Stop(t, "ASYNC_REQUEST")
             ELSE quantum' = [quantum EXCEPT ![t].stage = "execute"]
    /\ UNCHANGED <<memory, other>>

\* The stamp and the bytes the quantum q now works with on page p.
Holding(q, p, stamp, value) ==
    [q EXCEPT !.deps = With(@, p, stamp), !.shadow = With(@, p, value)]

\* The page is copied into Blink's shadow the first time it is touched.
SnapshotPage(t) ==
    LET p == CurrentInstruction(t).page IN
    /\ quantum[t].stage = "execute" /\ CurrentInstruction(t).op # "fault"
    /\ p \notin Touched(t)
    /\ quantum' = [quantum EXCEPT ![t] = Holding(@, p, memory[p].stamp, memory[p].value)]
    /\ UNCHANGED <<memory, other, rt>>

\* A LOCK prefix ends the quantum, except on its first instruction, after
\* which blink_gem_machine_run does not look.
EndsQuantum(t) == CurrentInstruction(t).op = "lock" /\ quantum[t].retired > 0

Retired(t, q) ==
    [q EXCEPT !.retired = @ + 1, !.output = @ + 1,
              !.stage = IF EndsQuantum(t) THEN "finish" ELSE "check"]

\* The instruction runs on the shadow page; if it stores, the store is
\* committed to guest memory at once.
Execute(t) ==
    LET p == CurrentInstruction(t).page
        op == CurrentInstruction(t).op
        q == quantum[t]
    IN
    /\ q.stage = "execute"
    /\ \/ op = "fault" /\ Stop(t, "MEMORY_FAULT") /\ UNCHANGED memory
       \/ /\ op = "load" /\ p \in Touched(t)
          /\ quantum' = [quantum EXCEPT ![t] = Retired(t, q)]
          /\ UNCHANGED memory
       \/ /\ op \in {"inc", "lock"} /\ p \in Touched(t) /\ ~Current(t)
          /\ Stop(t, "CONFLICT")
          /\ UNCHANGED memory
       \/ /\ op \in {"inc", "lock"} /\ p \in Touched(t) /\ Current(t)
          /\ memory[p].stamp < MaxStamp
          /\ memory' = [memory EXCEPT ![p] =
                [value |-> q.shadow[p] + 1, stamp |-> memory[p].stamp + 1]]
          /\ quantum' = [quantum EXCEPT ![t] =
                Retired(t, Holding(q, p, q.deps[p] + 1, q.shadow[p] + 1))]
    /\ UNCHANGED <<other, rt>>

Halved(budget) == IF budget > 1 THEN budget \div 2 ELSE budget

\* Faulty variant: the budget is not capped.
DoubledUncapped(budget) == 2 * budget

Doubled(budget) == IF 2 * budget > MaxQuantum THEN MaxQuantum ELSE 2 * budget

\* Faulty variant: a conflict still reports the instructions as retired.
OutcomeKeepsRetired(t) ==
    IF Current(t) THEN quantum[t]
    ELSE [quantum[t] EXCEPT !.output = rt[t].context, !.reason = "CONFLICT"]

\* What the quantum hands to the run loop once finish has validated it: on a
\* conflict, the context it started from and nothing retired.
Outcome(t) ==
    IF Current(t) THEN quantum[t]
    ELSE [quantum[t] EXCEPT !.output = rt[t].context, !.retired = 0, !.reason = "CONFLICT"]

Publishes(q) == q.retired # 0 \/ q.reason \in {"NONE", "HOST_RETURN", "ASYNC_REQUEST"}

\* gem_memory_transaction_finish, publication of the context, end of the
\* transaction, and the loop's decision.
FinishQuantum(t) ==
    LET q == Outcome(t)
        conflict == q.reason = "CONFLICT"
        next == [rt[t] EXCEPT
            !.context = IF Publishes(q) THEN q.output ELSE @,
            !.retired = @ + q.retired,
            !.conflicts = IF ~conflict \/ @ + 1 >= YieldAfter THEN 0 ELSE @ + 1,
            !.quantum = IF conflict THEN Halved(@)
                        ELSE IF q.reason = "NONE" THEN Doubled(@) ELSE @]
    IN
    /\ quantum[t].stage = "finish"
    /\ IF conflict \/ q.reason = "NONE"
       THEN /\ rt' = [rt EXCEPT ![t] = next]
            /\ quantum' = [quantum EXCEPT ![t] = [NoQuantum EXCEPT !.stage = "begin"]]
       ELSE /\ rt' = [rt EXCEPT ![t] = Returned(next, q.reason)]
            /\ quantum' = [quantum EXCEPT ![t] = NoQuantum]
    /\ UNCHANGED <<memory, other>>

Step(t) ==
    \/ BeginQuantum(t) \/ CheckStop(t) \/ SnapshotPage(t) \/ Execute(t)
    \/ FinishQuantum(t)

Next ==
    \/ \E t \in Threads :
          \/ Step(t) \/ RequestAsyncStop(t) \/ InvalidateCode(t)
          \/ \E b \in Budgets : Run(t, b)
    \/ \E p \in Pages : OtherStore(p)

\* A running engine thread is scheduled; nothing else is promised.
Spec == Init /\ [][Next]_vars /\ \A t \in Threads : WF_vars(Step(t))

-----------------------------------------------------------------------------
(* Properties.                                                              *)

\* Every variable has its type; the adaptive budget stays in 1..256.
TypeOK ==
    /\ memory \in [Pages -> [value : Nat, stamp : Nat]]
    /\ other \in [Pages -> 0 .. MaxOther]
    /\ rt \in [Threads -> Runtime]
    /\ \A t \in Threads :
          /\ rt[t].quantum \in 1 .. MaxQuantum
          /\ rt[t].conflicts \in 0 .. YieldAfter - 1
          /\ rt[t].running <=> quantum[t].stage # "none"

\* Instruction i of thread t increments page p.
Increments(t, i, p) == Program[t][i].op \in {"inc", "lock"} /\ Program[t][i].page = p

\* Increments of page p that published contexts count as done.
PublishedIncrements(p) ==
    {w \in Threads \X (1 .. MaxStamp) :
        w[2] < rt[w[1]].context /\ Increments(w[1], w[2], p)}

\* The caller's context is always exactly as far into the program as the
\* instructions reported retired, across retries, faults and async stops, and
\* never past the budget.
ContextIsExact ==
    \A t \in Threads :
        rt[t].running => /\ rt[t].context = rt[t].start + rt[t].retired
                         /\ rt[t].retired <= rt[t].budget

\* No store is lost, neither one of a retired instruction nor one that another
\* thread made while a quantum was working on its copy of the page: an
\* increment works on a value that is still current.
NoLostStore ==
    \A p \in Pages : memory[p].value >= other[p] + Cardinality(PublishedIncrements(p))

\* Between quanta, memory holds each retired store exactly once: a conflict
\* retries from the quantum's initial context (ADR 0010), so nothing of an
\* abandoned quantum may have reached memory.  The code does not achieve this.
StoresApplyOnce ==
    (\A t \in Threads : quantum[t].stage \in {"none", "begin"}) =>
        \A p \in Pages : memory[p].value = other[p] + Cardinality(PublishedIncrements(p))

\* A stop request that the engine has taken ends the run with
\* GEM_STOP_ASYNC_REQUEST.  The code does not achieve this either.
AsyncStopIsReported ==
    [][\A t \in Threads :
          quantum[t].stage = "finish" /\ quantum[t].reason = "ASYNC_REQUEST"
          /\ quantum'[t].stage # "finish"
          => rt'[t].result = "ASYNC_REQUEST" /\ ~rt'[t].running]_vars

\* Every run returns, as long as others stop storing to the pages it touches.
RunReturns == \A t \in Threads : rt[t].running ~> ~rt[t].running
=============================================================================
