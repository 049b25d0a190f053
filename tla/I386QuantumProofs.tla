-------------------------- MODULE I386QuantumProofs --------------------------
(***************************************************************************)
(* Proofs about I386Quantum: for any number of runtimes, pages, programs   *)
(* and budgets, a run publishes a context that matches the count of        *)
(* retired instructions, and no store is lost.                             *)
(***************************************************************************)
EXTENDS I386Quantum, FiniteSetTheorems, TLAPS

(* The inductive invariant.                                                 *)

\* What a quantum holds of some of the pages.
PageMap == UNION {[S -> Nat] : S \in SUBSET Pages}
Quantum == [stage : {"none", "begin", "check", "execute", "finish"},
            limit : Nat, retired : Nat, output : Nat,
            deps : PageMap, shadow : PageMap, reason : Reasons]

MemoryTyped ==
    memory \in [Pages -> [value : Nat, stamp : Nat]] /\ other \in [Pages -> 0 .. MaxOther]

\* Between its start and its end, a quantum is in one of these stages.
Working == {"check", "execute", "finish"}

\* One runtime and its quantum.  The quantum's output is as far past the published
\* context as it has retired instructions, within its share of the budget.
ThreadOK(t, r, q) ==
    /\ r \in Runtime /\ q \in Quantum
    /\ r.quantum \in 1 .. MaxQuantum /\ r.conflicts \in 0 .. YieldAfter - 1
    /\ r.context > 0
    /\ r.running <=> q.stage # "none"
    /\ r.running => r.context = r.start + r.retired /\ r.retired <= r.budget
    /\ q.stage \in Working =>
          /\ r.retired + q.limit <= r.budget
          /\ q.retired <= q.limit
          /\ q.output = r.context + q.retired
    /\ q.stage = "execute" => q.retired < q.limit /\ q.output <= Len(Program[t])

\* A page in Blink's shadow whose stamp is current holds the current bytes, and
\* no recorded stamp is newer than memory's.
ShadowOK(m, q) ==
    /\ DOMAIN q.shadow = DOMAIN q.deps
    /\ \A p \in DOMAIN q.deps :
          /\ q.deps[p] <= m[p].stamp
          /\ q.deps[p] = m[p].stamp => q.shadow[p] = m[p].value

\* How far a thread has executed its program, published or not.
Reach(r, q) == IF q.stage \in Working THEN q.output ELSE r.context

\* The increments of page p that threads have executed.
Performed(p) ==
    {w \in Threads \X (1 .. MaxStamp) :
        w[2] < Reach(rt[w[1]], quantum[w[1]]) /\ Increments(w[1], w[2], p)}

\* Memory has each of them, and those of others.
PerformedStoresKept ==
    \A p \in Pages : memory[p].value >= other[p] + Cardinality(Performed(p))

IInv ==
    /\ MemoryTyped
    /\ rt \in [Threads -> Runtime] /\ quantum \in [Threads -> Quantum]
    /\ \A t \in Threads : ThreadOK(t, rt[t], quantum[t]) /\ ShadowOK(memory, quantum[t])
    /\ PerformedStoresKept

-----------------------------------------------------------------------------
(* Records.                                                                 *)

\* Adding or replacing one page of a page map.
LEMMA WithTyped ==
    ASSUME NEW f \in PageMap, NEW p \in Pages, NEW x \in Nat
    PROVE  /\ With(f, p, x) \in PageMap
           /\ DOMAIN With(f, p, x) = DOMAIN f \cup {p}
           /\ With(f, p, x)[p] = x
           /\ \A s \in DOMAIN f : s # p => With(f, p, x)[s] = f[s]
<1>1. PICK S \in SUBSET Pages : f \in [S -> Nat] BY DEF PageMap
<1> DEFINE T == S \cup {p}
<1>2. With(f, p, x) = [s \in T |-> IF s = p THEN x ELSE f[s]] BY <1>1 DEF With
<1>3. T \in SUBSET Pages BY <1>1
<1>4. \A s \in T : (IF s = p THEN x ELSE f[s]) \in Nat BY <1>1
<1>5. With(f, p, x) \in [T -> Nat] BY <1>2, <1>4
<1>6. With(f, p, x) \in PageMap BY <1>3, <1>5 DEF PageMap
<1> QED BY <1>1, <1>2, <1>6

\* The fields of a quantum that has just started.
LEMMA StartedFields ==
    ASSUME NEW r \in Runtime, NEW b \in Nat
    PROVE  /\ Started(r, b) \in Runtime
           /\ Started(r, b).running = TRUE /\ Started(r, b).budget = b
           /\ Started(r, b).retired = 0 /\ Started(r, b).start = r.context
           /\ Started(r, b).context = r.context /\ Started(r, b).quantum = r.quantum
           /\ Started(r, b).conflicts = r.conflicts
<1>1. 0 \in Nat /\ TRUE \in BOOLEAN OBVIOUS
<1> QED BY Zenon, <1>1 DEF Started, Runtime

\* The fields of a runtime that has returned.
LEMMA ReturnedFields ==
    ASSUME NEW r \in Runtime, NEW reason \in Reasons
    PROVE  /\ Returned(r, reason) \in Runtime
           /\ Returned(r, reason).running = FALSE
           /\ Returned(r, reason).context = r.context
           /\ Returned(r, reason).quantum = r.quantum
           /\ Returned(r, reason).conflicts = r.conflicts
<1> DEFINE result == IF reason = "NONE" THEN "BUDGET_EXPIRED" ELSE reason
<1>1. 0 \in Nat /\ FALSE \in BOOLEAN OBVIOUS
<1>2. result \in Reasons BY DEF Reasons
<1>3. Returned(r, reason) =
        [r EXCEPT !.running = FALSE, !.budget = 0, !.retired = 0, !.start = 0, !.result = result]
  BY DEF Returned
<1> HIDE DEF result
<1> QED BY Zenon, <1>1, <1>2, <1>3 DEF Runtime

\* The fields of a quantum that was told to stop.
LEMMA StoppedFields ==
    ASSUME NEW q \in Quantum, NEW reason \in Reasons
    PROVE  /\ Stopped(q, reason) \in Quantum
           /\ Stopped(q, reason).stage = "finish" /\ Stopped(q, reason).reason = reason
           /\ Stopped(q, reason).limit = q.limit /\ Stopped(q, reason).retired = q.retired
           /\ Stopped(q, reason).output = q.output
           /\ Stopped(q, reason).deps = q.deps /\ Stopped(q, reason).shadow = q.shadow
<1>1. "finish" \in {"none", "begin", "check", "execute", "finish"} OBVIOUS
<1> QED BY Zenon, <1>1 DEF Stopped, Quantum

\* The fields of a quantum that holds one more page.
LEMMA HoldingFields ==
    ASSUME NEW q \in Quantum, NEW p \in Pages, NEW x \in Nat, NEW v \in Nat
    PROVE  /\ Holding(q, p, x, v) \in Quantum
           /\ Holding(q, p, x, v).deps = With(q.deps, p, x)
           /\ Holding(q, p, x, v).shadow = With(q.shadow, p, v)
           /\ Holding(q, p, x, v).stage = q.stage /\ Holding(q, p, x, v).limit = q.limit
           /\ Holding(q, p, x, v).retired = q.retired /\ Holding(q, p, x, v).output = q.output
<1> DEFINE d == With(q.deps, p, x)
           s == With(q.shadow, p, v)
<1>1. q.deps \in PageMap /\ q.shadow \in PageMap BY DEF Quantum
<1>2. d \in PageMap /\ s \in PageMap BY <1>1, WithTyped
<1>3. Holding(q, p, x, v) = [q EXCEPT !.deps = d, !.shadow = s] BY DEF Holding
<1> HIDE DEF d, s
<1>4. [q EXCEPT !.deps = d, !.shadow = s] \in Quantum BY Zenon, <1>2 DEF Quantum
<1>5. /\ [q EXCEPT !.deps = d, !.shadow = s].deps = d
      /\ [q EXCEPT !.deps = d, !.shadow = s].shadow = s
      /\ [q EXCEPT !.deps = d, !.shadow = s].stage = q.stage
      /\ [q EXCEPT !.deps = d, !.shadow = s].limit = q.limit
      /\ [q EXCEPT !.deps = d, !.shadow = s].retired = q.retired
      /\ [q EXCEPT !.deps = d, !.shadow = s].output = q.output
  BY Zenon DEF Quantum
<1> QED BY <1>3, <1>4, <1>5 DEF d, s

\* The fields of a quantum that has retired one more instruction.
LEMMA RetiredFields ==
    ASSUME NEW t \in Threads, NEW q \in Quantum
    PROVE  /\ Retired(t, q) \in Quantum
           /\ Retired(t, q).stage \in {"check", "finish"}
           /\ Retired(t, q).retired = q.retired + 1 /\ Retired(t, q).output = q.output + 1
           /\ Retired(t, q).limit = q.limit
           /\ Retired(t, q).deps = q.deps /\ Retired(t, q).shadow = q.shadow
<1> DEFINE stage == IF EndsQuantum(t) THEN "finish" ELSE "check"
           n == q.retired + 1
           o == q.output + 1
<1>1. /\ stage \in {"none", "begin", "check", "execute", "finish"}
      /\ stage \in {"check", "finish"}
  OBVIOUS
<1>2. n \in Nat /\ o \in Nat BY DEF Quantum
<1>3. Retired(t, q) = [q EXCEPT !.retired = n, !.output = o, !.stage = stage] BY DEF Retired
<1> HIDE DEF stage, n, o
<1>4. [q EXCEPT !.retired = n, !.output = o, !.stage = stage] \in Quantum
  BY Zenon, <1>1, <1>2 DEF Quantum
<1>5. /\ [q EXCEPT !.retired = n, !.output = o, !.stage = stage].stage = stage
      /\ [q EXCEPT !.retired = n, !.output = o, !.stage = stage].retired = n
      /\ [q EXCEPT !.retired = n, !.output = o, !.stage = stage].output = o
      /\ [q EXCEPT !.retired = n, !.output = o, !.stage = stage].limit = q.limit
      /\ [q EXCEPT !.retired = n, !.output = o, !.stage = stage].deps = q.deps
      /\ [q EXCEPT !.retired = n, !.output = o, !.stage = stage].shadow = q.shadow
  BY Zenon DEF Quantum
<1>6. n = q.retired + 1 /\ o = q.output + 1 BY DEF n, o
<1> QED BY Zenon, <1>1, <1>3, <1>4, <1>5, <1>6

\* A quantum without pages agrees with any memory.
LEMMA NoQuantumFields ==
    /\ NoQuantum \in Quantum /\ NoQuantum.stage = "none"
    /\ NoQuantum.limit = 0 /\ NoQuantum.retired = 0
    /\ DOMAIN NoQuantum.deps = {} /\ DOMAIN NoQuantum.shadow = {}
<1> DEFINE f == [p \in {} |-> 0]
<1>1. f \in [{} -> Nat] /\ DOMAIN f = {} OBVIOUS
<1>2. f \in PageMap BY <1>1 DEF PageMap
<1>3. /\ NoQuantum.stage = "none" /\ NoQuantum.limit = 0 /\ NoQuantum.retired = 0
      /\ NoQuantum.deps = f /\ NoQuantum.shadow = f
  BY DEF NoQuantum
<1>4. NoQuantum \in Quantum
  <2>1. "NONE" \in Reasons BY DEF Reasons
  <2>2. NoQuantum = [stage |-> "none", limit |-> 0, retired |-> 0, output |-> 0,
                     deps |-> f, shadow |-> f, reason |-> "NONE"]
    BY DEF NoQuantum
  <2> HIDE DEF f
  <2> QED BY <1>2, <2>1, <2>2 DEF Quantum
<1> QED BY <1>1, <1>3, <1>4

-----------------------------------------------------------------------------
(* Steps of one thread.                                                     *)

\* Executed increments are finitely many.
LEMMA PerformedFinite ==
    ASSUME NEW p \in Pages
    PROVE  IsFiniteSet(Performed(p)) /\ Cardinality(Performed(p)) \in Nat
<1> DEFINE S == 1 .. MaxStamp
<1>1. IsFiniteSet(S) BY FS_Interval, QuantumAssumption
<1>2. IsFiniteSet(Threads) BY QuantumAssumption
<1> HIDE DEF S
<1>3. IsFiniteSet(Threads \X S) BY <1>1, <1>2, FS_Product
<1>4. Performed(p) \subseteq Threads \X S BY DEF Performed, S
<1>5. IsFiniteSet(Performed(p)) BY <1>3, <1>4, FS_Subset
<1> QED BY <1>5, FS_CardinalityType

\* No thread gets further: nothing more has been performed.
LEMMA ReachShrinks ==
    ASSUME \A t \in Threads, i \in 1 .. MaxStamp, p \in Pages :
              i < Reach(rt'[t], quantum'[t]) /\ Increments(t, i, p)
                  => i < Reach(rt[t], quantum[t])
    PROVE  \A p \in Pages : Performed(p)' \subseteq Performed(p)
<1> SUFFICES ASSUME NEW p \in Pages, NEW w \in Performed(p)'
             PROVE  w \in Performed(p)
  OBVIOUS
<1>1. /\ w \in Threads \X (1 .. MaxStamp)
      /\ w[2] < Reach(rt'[w[1]], quantum'[w[1]]) /\ Increments(w[1], w[2], p)
  BY DEF Performed, Reach, Increments
<1>2. w[1] \in Threads /\ w[2] \in 1 .. MaxStamp BY <1>1
<1>3. w[2] < Reach(rt[w[1]], quantum[w[1]]) BY <1>1, <1>2
<1> QED BY <1>1, <1>3 DEF Performed

\* Memory is as it was and no more is performed: no store is lost.
LEMMA StoresStay ==
    ASSUME IInv, UNCHANGED <<memory, other>>, \A p \in Pages : Performed(p)' \subseteq Performed(p)
    PROVE  PerformedStoresKept'
<1> SUFFICES ASSUME NEW p \in Pages
             PROVE  (memory[p].value >= other[p] + Cardinality(Performed(p)))'
  BY DEF PerformedStoresKept
<1> DEFINE S == Performed(p)
           T == Performed(p)'
<1>1. IsFiniteSet(S) /\ Cardinality(S) \in Nat BY PerformedFinite
<1>2. T \subseteq S OBVIOUS
<1>3. memory[p].value >= other[p] + Cardinality(S) BY DEF IInv, PerformedStoresKept
<1>4. memory[p].value \in Nat /\ other[p] \in Nat BY QuantumAssumption DEF IInv, MemoryTyped
<1>5. memory'[p].value >= other'[p] + Cardinality(T)
  <2> HIDE DEF S, T
  <2>1. Cardinality(T) \in Nat /\ Cardinality(T) <= Cardinality(S)
    BY <1>1, <1>2, FS_Subset, FS_CardinalityType
  <2> QED BY <1>1, <1>3, <1>4, <2>1
<1> QED BY <1>5

\* A step of thread t that leaves memory alone.
LEMMA ThreadKeeps ==
    ASSUME IInv, NEW t \in Threads, NEW r, NEW q,
           rt' = [rt EXCEPT ![t] = r], quantum' = [quantum EXCEPT ![t] = q],
           UNCHANGED <<memory, other>>,
           ThreadOK(t, r, q), ShadowOK(memory, q),
           \A i \in 1 .. MaxStamp, p \in Pages :
              i < Reach(r, q) /\ Increments(t, i, p) => i < Reach(rt[t], quantum[t])
    PROVE  IInv'
<1>1. r \in Runtime /\ q \in Quantum BY DEF ThreadOK
<1>2. rt' \in [Threads -> Runtime] /\ quantum' \in [Threads -> Quantum] BY <1>1 DEF IInv
<1>3. /\ rt'[t] = r /\ quantum'[t] = q
      /\ \A u \in Threads : u # t => rt'[u] = rt[u] /\ quantum'[u] = quantum[u]
  BY DEF IInv
<1>4. MemoryTyped' BY DEF IInv, MemoryTyped
<1>5. ASSUME NEW u \in Threads
      PROVE  ThreadOK(u, rt'[u], quantum'[u]) /\ ShadowOK(memory, quantum'[u])
  <2>1. CASE u = t BY <1>3, <2>1
  <2>2. CASE u # t
    <3>1. rt'[u] = rt[u] /\ quantum'[u] = quantum[u] BY <1>3, <2>2
    <3> QED BY <3>1 DEF IInv
  <2> QED BY <2>1, <2>2
<1>6. \A u \in Threads : ThreadOK(u, rt[u], quantum[u])' BY <1>5 DEF ThreadOK
<1>7. \A u \in Threads : ShadowOK(memory, quantum[u])' BY <1>5 DEF ShadowOK
<1>8. \A u \in Threads, i \in 1 .. MaxStamp, p \in Pages :
         i < Reach(rt'[u], quantum'[u]) /\ Increments(u, i, p) => i < Reach(rt[u], quantum[u])
  BY <1>3
<1>9. PerformedStoresKept' BY <1>8, ReachShrinks, StoresStay
<1> QED BY <1>2, <1>4, <1>6, <1>7, <1>9 DEF IInv

\* The parts of the invariant for one thread.
LEMMA ThreadFacts ==
    ASSUME IInv, NEW t \in Threads
    PROVE  /\ rt[t] \in Runtime /\ quantum[t] \in Quantum
           /\ ThreadOK(t, rt[t], quantum[t]) /\ ShadowOK(memory, quantum[t])
BY DEF IInv

\* A step that leaves the quantum and the accounting of the runtime alone.
LEMMA FlagKeeps ==
    ASSUME IInv, NEW t \in Threads, NEW r \in Runtime, rt' = [rt EXCEPT ![t] = r],
           UNCHANGED <<memory, other, quantum>>,
           r.running = rt[t].running, r.budget = rt[t].budget, r.retired = rt[t].retired,
           r.quantum = rt[t].quantum, r.conflicts = rt[t].conflicts, r.start = rt[t].start,
           r.context = rt[t].context
    PROVE  IInv'
<1>1. quantum' = [quantum EXCEPT ![t] = quantum[t]] BY DEF IInv
<1>2. ThreadOK(t, rt[t], quantum[t]) /\ ShadowOK(memory, quantum[t]) BY ThreadFacts
<1>3. ThreadOK(t, r, quantum[t]) BY <1>2 DEF ThreadOK
<1>4. Reach(r, quantum[t]) = Reach(rt[t], quantum[t]) BY DEF Reach
<1> QED BY <1>1, <1>2, <1>3, <1>4, ThreadKeeps

-----------------------------------------------------------------------------
(* Calls.                                                                   *)

\* Entering a run keeps the invariant.
LEMMA RunKeeps ==
    ASSUME IInv, NEW t \in Threads, NEW b \in Budgets, Run(t, b)
    PROVE  IInv'
<1>1. /\ rt[t] \in Runtime /\ quantum[t] \in Quantum
      /\ ThreadOK(t, rt[t], quantum[t]) /\ ShadowOK(memory, quantum[t])
  BY ThreadFacts
<1>2. ~rt[t].running /\ UNCHANGED <<memory, other>> BY DEF Run
<1>3. ASSUME NEW reason \in Reasons, rt' = [rt EXCEPT ![t].result = reason], UNCHANGED quantum
      PROVE  IInv'
  <2> DEFINE r == [rt[t] EXCEPT !.result = reason]
  <2>1. rt' = [rt EXCEPT ![t] = r] BY <1>3
  <2>2. /\ r \in Runtime /\ r.running = rt[t].running /\ r.budget = rt[t].budget
        /\ r.retired = rt[t].retired /\ r.quantum = rt[t].quantum
        /\ r.conflicts = rt[t].conflicts /\ r.start = rt[t].start /\ r.context = rt[t].context
    BY <1>1 DEF Runtime
  <2> HIDE DEF r
  <2> QED BY <1>2, <1>3, <2>1, <2>2, FlagKeeps
<1>4. CASE /\ rt' = [rt EXCEPT ![t] = Started(rt[t], b)]
           /\ quantum' = [quantum EXCEPT ![t].stage = "begin"]
  <2> DEFINE r == Started(rt[t], b)
             q == [quantum[t] EXCEPT !.stage = "begin"]
  <2>1. quantum' = [quantum EXCEPT ![t] = q] BY <1>4
  <2>2. /\ q \in Quantum /\ q.stage = "begin"
        /\ q.deps = quantum[t].deps /\ q.shadow = quantum[t].shadow
    BY <1>1 DEF Quantum
  <2>3. b \in Nat BY QuantumAssumption
  <2>4. /\ r \in Runtime /\ r.running = TRUE /\ r.budget = b /\ r.retired = 0
        /\ r.start = rt[t].context /\ r.context = rt[t].context
        /\ r.quantum = rt[t].quantum /\ r.conflicts = rt[t].conflicts
    BY <1>1, <2>3, StartedFields
  <2> HIDE DEF r, q
  <2>5. rt[t].context \in Nat BY <1>1 DEF Runtime
  <2>6. r.context = r.start + r.retired /\ r.retired <= r.budget BY <2>3, <2>4, <2>5
  <2>7. ThreadOK(t, r, q) BY <1>1, <2>2, <2>4, <2>6 DEF ThreadOK, Working
  <2>8. ShadowOK(memory, q) BY <1>1, <2>2 DEF ShadowOK
  <2>9. Reach(r, q) = rt[t].context BY <2>2, <2>4 DEF Reach, Working
  <2>10. Reach(rt[t], quantum[t]) = rt[t].context BY <1>1, <1>2 DEF ThreadOK, Reach, Working
  <2>11. rt' = [rt EXCEPT ![t] = r] BY <1>4 DEF r
  <2> QED BY <1>2, <2>1, <2>7, <2>8, <2>9, <2>10, <2>11, ThreadKeeps
<1>5. "INVARIANT_VIOLATION" \in Reasons /\ "BUDGET_EXPIRED" \in Reasons BY DEF Reasons
<1> QED BY Zenon, <1>3, <1>4, <1>5 DEF Run

\* A stop request keeps the invariant.
LEMMA RequestAsyncStopKeeps ==
    ASSUME IInv, NEW t \in Threads, RequestAsyncStop(t)
    PROVE  IInv'
<1> DEFINE r == [rt[t] EXCEPT !.async = TRUE]
<1>1. rt' = [rt EXCEPT ![t] = r] /\ UNCHANGED <<memory, other, quantum>>
  BY DEF RequestAsyncStop
<1>2. rt[t] \in Runtime BY ThreadFacts
<1>3. /\ r \in Runtime /\ r.running = rt[t].running /\ r.budget = rt[t].budget
      /\ r.retired = rt[t].retired /\ r.quantum = rt[t].quantum
      /\ r.conflicts = rt[t].conflicts /\ r.start = rt[t].start /\ r.context = rt[t].context
  BY <1>2 DEF Runtime
<1> HIDE DEF r
<1> QED BY <1>1, <1>3, FlagKeeps

\* A code invalidation keeps the invariant.
LEMMA InvalidateCodeKeeps ==
    ASSUME IInv, NEW t \in Threads, InvalidateCode(t)
    PROVE  IInv'
<1> DEFINE f == rt[t].failed \/ rt[t].running
           r == [rt[t] EXCEPT !.failed = f]
<1>1. rt' = [rt EXCEPT ![t] = r] /\ UNCHANGED <<memory, other, quantum>>
  BY DEF InvalidateCode
<1>2. rt[t] \in Runtime BY ThreadFacts
<1>3. f \in BOOLEAN OBVIOUS
<1> HIDE DEF f
<1>4. /\ r \in Runtime /\ r.running = rt[t].running /\ r.budget = rt[t].budget
      /\ r.retired = rt[t].retired /\ r.quantum = rt[t].quantum
      /\ r.conflicts = rt[t].conflicts /\ r.start = rt[t].start /\ r.context = rt[t].context
  BY <1>2, <1>3 DEF Runtime
<1> HIDE DEF r
<1> QED BY <1>1, <1>4, FlagKeeps

-----------------------------------------------------------------------------
(* One quantum.                                                             *)

\* The run returns with the context it has.
LEMMA ReturnKeeps ==
    ASSUME IInv, NEW t \in Threads, NEW reason \in Reasons, Return(t, reason),
           quantum[t].stage = "begin", UNCHANGED <<memory, other>>
    PROVE  IInv'
<1>1. /\ rt[t] \in Runtime /\ quantum[t] \in Quantum
      /\ ThreadOK(t, rt[t], quantum[t]) /\ ShadowOK(memory, quantum[t])
  BY ThreadFacts
<1> DEFINE r == Returned(rt[t], reason)
<1>2. rt' = [rt EXCEPT ![t] = r] /\ quantum' = [quantum EXCEPT ![t] = NoQuantum] BY DEF Return
<1>3. /\ r \in Runtime /\ r.running = FALSE /\ r.context = rt[t].context
      /\ r.quantum = rt[t].quantum /\ r.conflicts = rt[t].conflicts
  BY <1>1, ReturnedFields
<1> HIDE DEF r
<1>4. ThreadOK(t, r, NoQuantum) BY <1>1, <1>3, NoQuantumFields DEF ThreadOK, Working
<1>5. ShadowOK(memory, NoQuantum) BY NoQuantumFields DEF ShadowOK
<1>6. Reach(r, NoQuantum) = Reach(rt[t], quantum[t])
  BY <1>3, NoQuantumFields DEF Reach, Working
<1> QED BY <1>2, <1>4, <1>5, <1>6, ThreadKeeps

\* A quantum is at least one instruction and fits the rest of the budget.
LEMMA QuantumLimitBound ==
    ASSUME IInv, NEW t \in Threads, rt[t].retired < rt[t].budget
    PROVE  QuantumLimit(t) \in Nat \ {0} /\ rt[t].retired + QuantumLimit(t) <= rt[t].budget
<1>1. rt[t].retired \in Nat /\ rt[t].budget \in Nat /\ rt[t].quantum \in 1 .. MaxQuantum
      /\ MaxQuantum \in Nat
  BY ThreadFacts, QuantumAssumption DEF ThreadOK, Runtime
<1> QED BY <1>1 DEF QuantumLimit

\* Beginning a quantum keeps the invariant.
LEMMA BeginQuantumKeeps ==
    ASSUME IInv, NEW t \in Threads, BeginQuantum(t)
    PROVE  IInv'
<1>1. quantum[t].stage = "begin" /\ UNCHANGED <<memory, other>> BY DEF BeginQuantum
<1>2. "NONE" \in Reasons /\ "INVARIANT_VIOLATION" \in Reasons BY DEF Reasons
<1>3. CASE Return(t, "NONE") BY <1>1, <1>2, <1>3, ReturnKeeps
<1>4. CASE Return(t, "INVARIANT_VIOLATION") BY <1>1, <1>2, <1>4, ReturnKeeps
<1>5. CASE /\ rt[t].retired < rt[t].budget
           /\ quantum' = [quantum EXCEPT ![t] =
                 [NoQuantum EXCEPT !.stage = "check", !.limit = QuantumLimit(t),
                                   !.output = rt[t].context]]
           /\ UNCHANGED rt
  <2>1. /\ rt[t] \in Runtime /\ quantum[t] \in Quantum
        /\ ThreadOK(t, rt[t], quantum[t]) /\ ShadowOK(memory, quantum[t])
    BY ThreadFacts
  <2> DEFINE l == QuantumLimit(t)
             c == rt[t].context
             q == [NoQuantum EXCEPT !.stage = "check", !.limit = l, !.output = c]
  <2>2. l \in Nat /\ rt[t].retired + l <= rt[t].budget BY <1>5, QuantumLimitBound
  <2>3. c \in Nat BY <2>1 DEF Runtime
  <2>4. quantum' = [quantum EXCEPT ![t] = q] BY <1>5
  <2> HIDE DEF l, c
  <2>5. NoQuantum \in Quantum BY NoQuantumFields
  <2>6. "check" \in {"none", "begin", "check", "execute", "finish"} OBVIOUS
  <2>7. q \in Quantum BY Zenon, <2>2, <2>3, <2>5, <2>6 DEF Quantum
  <2>8. /\ q.stage = "check" /\ q.limit = l /\ q.output = c
        /\ q.retired = NoQuantum.retired /\ q.deps = NoQuantum.deps
        /\ q.shadow = NoQuantum.shadow
    BY Zenon, <2>5 DEF Quantum
  <2>9. rt[t].retired \in Nat /\ rt[t].budget \in Nat BY <2>1 DEF Runtime
  <2> HIDE DEF q
  <2>10. q.retired = 0 /\ q.output = c + q.retired /\ q.retired <= q.limit
    BY <2>2, <2>3, <2>8, NoQuantumFields
  <2>11. ThreadOK(t, rt[t], q)
    BY <1>1, <2>1, <2>2, <2>7, <2>8, <2>10 DEF ThreadOK, c
  <2>12. ShadowOK(memory, q) BY <2>8, NoQuantumFields DEF ShadowOK
  <2>13. Reach(rt[t], q) = Reach(rt[t], quantum[t]) BY <1>1, <2>8 DEF Reach, Working, c
  <2>14. rt' = [rt EXCEPT ![t] = rt[t]] BY <1>5 DEF IInv
  <2> QED BY <1>1, <2>4, <2>11, <2>12, <2>13, <2>14, ThreadKeeps
<1> QED BY Zenon, <1>3, <1>4, <1>5 DEF BeginQuantum

\* Stopping a quantum changes nothing of what it has done.
LEMMA StopKeeps ==
    ASSUME IInv, NEW t \in Threads, NEW r \in Runtime, NEW reason \in Reasons,
           quantum[t].stage \in {"check", "execute"}, Stop(t, reason),
           r = rt[t] \/ r = [rt[t] EXCEPT !.async = FALSE],
           rt' = [rt EXCEPT ![t] = r], UNCHANGED <<memory, other>>
    PROVE  IInv'
<1>1. /\ rt[t] \in Runtime /\ quantum[t] \in Quantum
      /\ ThreadOK(t, rt[t], quantum[t]) /\ ShadowOK(memory, quantum[t])
  BY ThreadFacts
<1> DEFINE q == Stopped(quantum[t], reason)
<1>2. quantum' = [quantum EXCEPT ![t] = q] BY DEF Stop
<1>3. /\ q \in Quantum /\ q.stage = "finish" /\ q.limit = quantum[t].limit
      /\ q.retired = quantum[t].retired /\ q.output = quantum[t].output
      /\ q.deps = quantum[t].deps /\ q.shadow = quantum[t].shadow
  BY <1>1, StoppedFields
<1>4. /\ r.running = rt[t].running /\ r.budget = rt[t].budget /\ r.retired = rt[t].retired
      /\ r.quantum = rt[t].quantum /\ r.conflicts = rt[t].conflicts /\ r.start = rt[t].start
      /\ r.context = rt[t].context
  BY <1>1 DEF Runtime
<1> HIDE DEF q
<1>5. ThreadOK(t, r, q) BY <1>1, <1>3, <1>4 DEF ThreadOK, Working
<1>6. ShadowOK(memory, q) BY <1>1, <1>3 DEF ShadowOK
<1>7. Reach(r, q) = Reach(rt[t], quantum[t]) BY <1>3 DEF Reach, Working
<1> QED BY <1>2, <1>5, <1>6, <1>7, ThreadKeeps

\* Consuming a stop request keeps the invariant.
LEMMA CheckStopKeeps ==
    ASSUME IInv, NEW t \in Threads, CheckStop(t)
    PROVE  IInv'
<1>1. quantum[t].stage = "check" /\ UNCHANGED <<memory, other>> BY DEF CheckStop
<1>2. /\ rt[t] \in Runtime /\ quantum[t] \in Quantum
      /\ ThreadOK(t, rt[t], quantum[t]) /\ ShadowOK(memory, quantum[t])
  BY ThreadFacts
<1>3. rt = [rt EXCEPT ![t] = rt[t]] BY DEF IInv
<1>4. {"HOST_RETURN", "NONE", "ASYNC_REQUEST"} \subseteq Reasons BY DEF Reasons
<1>5. CASE (Stop(t, "HOST_RETURN") \/ Stop(t, "NONE")) /\ UNCHANGED rt
  <2>1. rt' = [rt EXCEPT ![t] = rt[t]] BY <1>3, <1>5
  <2> QED BY <1>1, <1>2, <1>4, <1>5, <2>1, StopKeeps
<1> DEFINE r == [rt[t] EXCEPT !.async = FALSE]
<1>6. /\ r \in Runtime /\ r.running = rt[t].running /\ r.budget = rt[t].budget
      /\ r.retired = rt[t].retired /\ r.quantum = rt[t].quantum
      /\ r.conflicts = rt[t].conflicts /\ r.start = rt[t].start /\ r.context = rt[t].context
  BY <1>2 DEF Runtime
<1>7. CASE rt' = [rt EXCEPT ![t].async = FALSE] /\ Stop(t, "ASYNC_REQUEST")
  <2>1. rt' = [rt EXCEPT ![t] = r] BY <1>7
  <2> HIDE DEF r
  <2>2. r = [rt[t] EXCEPT !.async = FALSE] BY DEF r
  <2> QED BY <1>1, <1>4, <1>6, <1>7, <2>1, <2>2, StopKeeps
<1>8. CASE /\ ~AtSentinel(t) /\ quantum[t].retired < quantum[t].limit
           /\ rt' = [rt EXCEPT ![t].async = FALSE]
           /\ quantum' = [quantum EXCEPT ![t].stage = "execute"]
  <2> DEFINE q == [quantum[t] EXCEPT !.stage = "execute"]
  <2>1. rt' = [rt EXCEPT ![t] = r] /\ quantum' = [quantum EXCEPT ![t] = q] BY <1>8
  <2>2. /\ q \in Quantum /\ q.stage = "execute" /\ q.limit = quantum[t].limit
        /\ q.retired = quantum[t].retired /\ q.output = quantum[t].output
        /\ q.deps = quantum[t].deps /\ q.shadow = quantum[t].shadow
    BY <1>2 DEF Quantum
  <2>3. q.output <= Len(Program[t])
    <3>1. Program[t] \in Seq(Instruction) BY QuantumAssumption
    <3>2. Len(Program[t]) \in Nat /\ quantum[t].output \in Nat BY <1>2, <3>1 DEF Quantum
    <3> QED BY <1>8, <2>2, <3>2 DEF AtSentinel
  <2> HIDE DEF q, r
  <2>4. ThreadOK(t, r, q) BY <1>1, <1>2, <1>6, <1>8, <2>2, <2>3 DEF ThreadOK, Working
  <2>5. ShadowOK(memory, q) BY <1>2, <2>2 DEF ShadowOK
  <2>6. Reach(r, q) = Reach(rt[t], quantum[t]) BY <1>1, <2>2 DEF Reach, Working
  <2> QED BY <1>1, <2>1, <2>4, <2>5, <2>6, ThreadKeeps
<1> QED BY Zenon, <1>5, <1>7, <1>8 DEF CheckStop

\* Adding a page to a quantum's copies, with a stamp and bytes that agree.
LEMMA HoldingAgrees ==
    ASSUME NEW m, NEW q \in Quantum, NEW p \in Pages, NEW x \in Nat, NEW v \in Nat,
           m[p].stamp = x, m[p].value = v,
           DOMAIN q.shadow = DOMAIN q.deps,
           \A s \in DOMAIN q.deps : s # p =>
              /\ q.deps[s] <= m[s].stamp
              /\ q.deps[s] = m[s].stamp => q.shadow[s] = m[s].value
    PROVE  ShadowOK(m, Holding(q, p, x, v))
<1> DEFINE h == Holding(q, p, x, v)
           d == With(q.deps, p, x)
           w == With(q.shadow, p, v)
<1>1. h.deps = d /\ h.shadow = w BY HoldingFields
<1>2. q.deps \in PageMap /\ q.shadow \in PageMap BY DEF Quantum
<1> DEFINE Extended(f, y, g) ==
              DOMAIN g = DOMAIN f \cup {p} /\ g[p] = y /\ \A s \in DOMAIN f : s # p => g[s] = f[s]
<1>3. ASSUME NEW f \in PageMap, NEW y \in Nat
      PROVE  Extended(f, y, With(f, p, y))
  <2>1. DOMAIN With(f, p, y) = DOMAIN f \cup {p} BY <1>3, WithTyped
  <2>2. With(f, p, y)[p] = y BY <1>3, WithTyped
  <2>3. \A s \in DOMAIN f : s # p => With(f, p, y)[s] = f[s] BY <1>3, WithTyped
  <2> QED BY <2>1, <2>2, <2>3
<1> HIDE DEF Extended
<1>4. Extended(q.deps, x, d) /\ Extended(q.shadow, v, w) BY <1>2, <1>3
<1> USE DEF Extended
<1> HIDE DEF h, d, w
<1>5. DOMAIN h.shadow = DOMAIN h.deps BY <1>1, <1>4
<1>6. ASSUME NEW s \in DOMAIN h.deps
      PROVE  h.deps[s] <= m[s].stamp /\ (h.deps[s] = m[s].stamp => h.shadow[s] = m[s].value)
  <2>1. CASE s = p BY <1>1, <1>4, <2>1
  <2>2. CASE s # p BY <1>1, <1>4, <1>6, <2>2
  <2> QED BY <2>1, <2>2
<1> QED BY <1>5, <1>6 DEF ShadowOK, h

\* The instruction a thread executes.
LEMMA Executing ==
    ASSUME IInv, NEW t \in Threads, quantum[t].stage = "execute"
    PROVE  /\ quantum[t].output \in Nat
           /\ CurrentInstruction(t) \in Instruction /\ CurrentInstruction(t).page \in Pages
           /\ quantum[t].retired < quantum[t].limit
<1>1. /\ rt[t] \in Runtime /\ quantum[t] \in Quantum /\ ThreadOK(t, rt[t], quantum[t])
  BY ThreadFacts
<1>2. /\ quantum[t].output = rt[t].context + quantum[t].retired /\ rt[t].context > 0
      /\ quantum[t].output <= Len(Program[t]) /\ quantum[t].retired < quantum[t].limit
  BY <1>1 DEF ThreadOK, Working
<1>3. rt[t].context \in Nat /\ quantum[t].retired \in Nat /\ quantum[t].output \in Nat
  BY <1>1 DEF Runtime, Quantum
<1>4. Program[t] \in Seq(Instruction) BY QuantumAssumption
<1>5. quantum[t].output \in 1 .. Len(Program[t]) BY <1>2, <1>3, <1>4
<1>6. CurrentInstruction(t) \in Instruction BY <1>4, <1>5 DEF CurrentInstruction
<1> QED BY <1>2, <1>3, <1>6 DEF Instruction

\* Taking a page into the quantum keeps the invariant.
LEMMA SnapshotPageKeeps ==
    ASSUME IInv, NEW t \in Threads, SnapshotPage(t)
    PROVE  IInv'
<1> DEFINE p == CurrentInstruction(t).page
           x == memory[p].stamp
           v == memory[p].value
           q == Holding(quantum[t], p, x, v)
<1>1. /\ quantum[t].stage = "execute" /\ p \notin DOMAIN quantum[t].deps
      /\ quantum' = [quantum EXCEPT ![t] = q] /\ UNCHANGED <<memory, other, rt>>
  BY DEF SnapshotPage, Touched
<1>2. /\ rt[t] \in Runtime /\ quantum[t] \in Quantum
      /\ ThreadOK(t, rt[t], quantum[t]) /\ ShadowOK(memory, quantum[t])
  BY ThreadFacts
<1>3. p \in Pages BY <1>1, Executing
<1>4. x \in Nat /\ v \in Nat BY <1>3 DEF IInv, MemoryTyped
<1> HIDE DEF p, x, v
<1>5. /\ q \in Quantum /\ q.stage = quantum[t].stage /\ q.limit = quantum[t].limit
      /\ q.retired = quantum[t].retired /\ q.output = quantum[t].output
  BY <1>2, <1>3, <1>4, HoldingFields
<1>6. ShadowOK(memory, q) BY <1>2, <1>3, <1>4, HoldingAgrees DEF ShadowOK, x, v
<1> HIDE DEF q
<1>7. ThreadOK(t, rt[t], q) BY <1>2, <1>5 DEF ThreadOK, Working
<1>8. Reach(rt[t], q) = Reach(rt[t], quantum[t]) BY <1>5 DEF Reach
<1>9. rt' = [rt EXCEPT ![t] = rt[t]] BY <1>1 DEF IInv
<1> QED BY <1>1, <1>6, <1>7, <1>8, <1>9, ThreadKeeps

\* One more instruction is retired, within the limit.
LEMMA RetiredOK ==
    ASSUME IInv, NEW t \in Threads, quantum[t].stage = "execute", NEW h \in Quantum,
           h.stage = "execute", h.limit = quantum[t].limit, h.retired = quantum[t].retired,
           h.output = quantum[t].output
    PROVE  /\ ThreadOK(t, rt[t], Retired(t, h))
           /\ Reach(rt[t], Retired(t, h)) = quantum[t].output + 1
           /\ Reach(rt[t], quantum[t]) = quantum[t].output
<1>1. rt[t] \in Runtime /\ quantum[t] \in Quantum /\ ThreadOK(t, rt[t], quantum[t])
  BY ThreadFacts
<1> DEFINE q == Retired(t, h)
<1>2. /\ q \in Quantum /\ q.stage \in {"check", "finish"} /\ q.retired = h.retired + 1
      /\ q.output = h.output + 1 /\ q.limit = h.limit
  BY RetiredFields
<1> HIDE DEF q
<1>3. quantum[t].retired \in Nat /\ quantum[t].limit \in Nat /\ rt[t].context \in Nat
  BY <1>1 DEF Quantum, Runtime
<1>4. /\ quantum[t].retired < quantum[t].limit
      /\ quantum[t].output = rt[t].context + quantum[t].retired
      /\ rt[t].retired + quantum[t].limit <= rt[t].budget
  BY <1>1 DEF ThreadOK, Working
<1>5. q.retired <= q.limit /\ q.output = rt[t].context + q.retired BY <1>2, <1>3, <1>4
<1>6. ThreadOK(t, rt[t], q) BY <1>1, <1>2, <1>4, <1>5 DEF ThreadOK, Working
<1>7. Reach(rt[t], q) = quantum[t].output + 1 BY <1>2 DEF Reach, Working
<1>8. Reach(rt[t], quantum[t]) = quantum[t].output BY DEF Reach, Working
<1> QED BY <1>6, <1>7, <1>8 DEF q

\* A load retires without a store.
LEMMA LoadKeeps ==
    ASSUME IInv, NEW t \in Threads, quantum[t].stage = "execute",
           CurrentInstruction(t).op = "load",
           quantum' = [quantum EXCEPT ![t] = Retired(t, quantum[t])],
           UNCHANGED <<memory, other, rt>>
    PROVE  IInv'
<1> DEFINE q == Retired(t, quantum[t])
<1>1. quantum[t] \in Quantum /\ ShadowOK(memory, quantum[t]) BY ThreadFacts
<1>2. ThreadOK(t, rt[t], q) /\ Reach(rt[t], q) = quantum[t].output + 1
      /\ Reach(rt[t], quantum[t]) = quantum[t].output
  BY <1>1, RetiredOK
<1>3. q.deps = quantum[t].deps /\ q.shadow = quantum[t].shadow BY <1>1, RetiredFields
<1> HIDE DEF q
<1>4. ShadowOK(memory, q) BY <1>1, <1>3 DEF ShadowOK
<1>5. quantum[t].output \in Nat BY Executing
<1>6. ASSUME NEW i \in 1 .. MaxStamp, NEW s \in Pages, i < Reach(rt[t], q), Increments(t, i, s)
      PROVE  i < Reach(rt[t], quantum[t])
  <2>1. i # quantum[t].output BY <1>6 DEF Increments, CurrentInstruction
  <2> QED BY <1>2, <1>5, <1>6, <2>1
<1>7. rt' = [rt EXCEPT ![t] = rt[t]] BY DEF IInv
<1>8. quantum' = [quantum EXCEPT ![t] = q] BY DEF q
<1> QED BY <1>2, <1>4, <1>6, <1>7, <1>8, ThreadKeeps

-----------------------------------------------------------------------------
(* Stores.                                                                  *)

\* Page p of memory after one more increment.
Bumped(p) == [value |-> memory[p].value + 1, stamp |-> memory[p].stamp + 1]

\* Any copy of a page is out of date after a store to it, and every other copy
\* is as good as it was.
LEMMA BumpedMemory ==
    ASSUME IInv, NEW p \in Pages, memory' = [memory EXCEPT ![p] = Bumped(p)]
    PROVE  /\ memory' \in [Pages -> [value : Nat, stamp : Nat]]
           /\ memory'[p].value = memory[p].value + 1
           /\ memory'[p].stamp = memory[p].stamp + 1
           /\ \A s \in Pages : s # p => memory'[s] = memory[s]
           /\ \A q \in Quantum : ShadowOK(memory, q) => ShadowOK(memory', q)
<1>1. memory \in [Pages -> [value : Nat, stamp : Nat]] BY DEF IInv, MemoryTyped
<1>2. memory[p].value \in Nat /\ memory[p].stamp \in Nat BY <1>1
<1>3. /\ Bumped(p) \in [value : Nat, stamp : Nat]
      /\ Bumped(p).value = memory[p].value + 1 /\ Bumped(p).stamp = memory[p].stamp + 1
  BY <1>2 DEF Bumped
<1>4. /\ memory' \in [Pages -> [value : Nat, stamp : Nat]] /\ memory'[p] = Bumped(p)
      /\ \A s \in Pages : s # p => memory'[s] = memory[s]
  BY <1>1, <1>3
<1>5. ASSUME NEW q \in Quantum, ShadowOK(memory, q)
      PROVE  ShadowOK(memory', q)
  <2>1. PICK S \in SUBSET Pages : q.deps \in [S -> Nat] BY DEF Quantum, PageMap
  <2>2. ASSUME NEW s \in DOMAIN q.deps
        PROVE  /\ q.deps[s] <= memory'[s].stamp
               /\ q.deps[s] = memory'[s].stamp => q.shadow[s] = memory'[s].value
    <3>1. s \in Pages /\ q.deps[s] \in Nat BY <2>1, <2>2
    <3>2. q.deps[s] <= memory[s].stamp BY <1>5, <2>2 DEF ShadowOK
    <3>3. CASE s = p BY <1>2, <1>3, <1>4, <3>1, <3>2, <3>3
    <3>4. CASE s # p BY <1>4, <1>5, <2>2, <3>1, <3>4 DEF ShadowOK
    <3> QED BY <3>3, <3>4
  <2> QED BY <1>5, <2>2 DEF ShadowOK
<1> QED BY <1>3, <1>4, <1>5

\* Another thread's store: memory and its count of such stores grow together.
LEMMA OtherStoreKeeps ==
    ASSUME IInv, NEW p \in Pages, OtherStore(p)
    PROVE  IInv'
<1>1. /\ other[p] < MaxOther /\ other' = [other EXCEPT ![p] = other[p] + 1]
      /\ memory' = [memory EXCEPT ![p] = Bumped(p)] /\ rt' = rt /\ quantum' = quantum
  BY DEF OtherStore, Bumped
<1>2. /\ memory' \in [Pages -> [value : Nat, stamp : Nat]]
      /\ memory'[p].value = memory[p].value + 1
      /\ \A s \in Pages : s # p => memory'[s] = memory[s]
      /\ \A q \in Quantum : ShadowOK(memory, q) => ShadowOK(memory', q)
  BY <1>1, BumpedMemory
<1>3. other \in [Pages -> 0 .. MaxOther] /\ MaxOther \in Nat
  BY QuantumAssumption DEF IInv, MemoryTyped
<1>4. /\ other' \in [Pages -> 0 .. MaxOther] /\ other'[p] = other[p] + 1
      /\ \A s \in Pages : s # p => other'[s] = other[s]
  BY <1>1, <1>3
<1>5. MemoryTyped' BY <1>2, <1>4 DEF MemoryTyped
<1>6. \A u \in Threads : ThreadOK(u, rt[u], quantum[u])' BY <1>1 DEF IInv, ThreadOK
<1>7. ASSUME NEW u \in Threads PROVE ShadowOK(memory, quantum[u])'
  <2>1. quantum[u] \in Quantum /\ ShadowOK(memory, quantum[u]) BY ThreadFacts
  <2>2. ShadowOK(memory', quantum[u]) BY <1>2, <2>1
  <2> QED BY <1>1, <2>2 DEF ShadowOK
<1>8. PerformedStoresKept'
  <2> SUFFICES ASSUME NEW s \in Pages
               PROVE  memory'[s].value >= other'[s] + Cardinality(Performed(s)')
    BY DEF PerformedStoresKept
  <2>1. Performed(s)' = Performed(s) BY <1>1 DEF Performed
  <2>2. memory[s].value >= other[s] + Cardinality(Performed(s)) BY DEF IInv, PerformedStoresKept
  <2>3. memory[s].value \in Nat /\ other[s] \in Nat /\ Cardinality(Performed(s)) \in Nat
    BY <1>3, PerformedFinite DEF IInv, MemoryTyped
  <2> QED BY <1>2, <1>4, <2>1, <2>2, <2>3
<1>9. rt' \in [Threads -> Runtime] /\ quantum' \in [Threads -> Quantum] BY <1>1 DEF IInv
<1> QED BY <1>5, <1>6, <1>7, <1>8, <1>9 DEF IInv

\* A committed increment of page p: it is based on current bytes, so memory
\* gains exactly the one increment that has been performed.
LEMMA StoreKeeps ==
    ASSUME IInv, NEW t \in Threads, NEW p \in Pages, quantum[t].stage = "execute",
           CurrentInstruction(t).page = p, p \in Touched(t), Current(t),
           memory' = [memory EXCEPT ![p] =
              [value |-> quantum[t].shadow[p] + 1, stamp |-> memory[p].stamp + 1]],
           quantum' = [quantum EXCEPT ![t] =
              Retired(t, Holding(quantum[t], p, quantum[t].deps[p] + 1,
                                 quantum[t].shadow[p] + 1))],
           UNCHANGED <<other, rt>>
    PROVE  IInv'
<1>1. /\ rt[t] \in Runtime /\ quantum[t] \in Quantum
      /\ ThreadOK(t, rt[t], quantum[t]) /\ ShadowOK(memory, quantum[t])
  BY ThreadFacts
<1> DEFINE x == quantum[t].deps[p] + 1
           v == quantum[t].shadow[p] + 1
           h == Holding(quantum[t], p, x, v)
           q == Retired(t, h)
<1>2. quantum[t].deps[p] = memory[p].stamp /\ quantum[t].shadow[p] = memory[p].value
  BY <1>1 DEF Current, Touched, ShadowOK
<1>3. memory' = [memory EXCEPT ![p] = Bumped(p)] BY <1>2 DEF Bumped
<1>4. /\ memory' \in [Pages -> [value : Nat, stamp : Nat]]
      /\ memory'[p].value = memory[p].value + 1
      /\ memory'[p].stamp = memory[p].stamp + 1
      /\ \A s \in Pages : s # p => memory'[s] = memory[s]
      /\ \A k \in Quantum : ShadowOK(memory, k) => ShadowOK(memory', k)
  BY <1>3, BumpedMemory
<1>5. memory[p].value \in Nat /\ memory[p].stamp \in Nat BY DEF IInv, MemoryTyped
<1>6. x = memory'[p].stamp /\ v = memory'[p].value /\ x \in Nat /\ v \in Nat
  BY <1>2, <1>4, <1>5
<1>7. quantum' = [quantum EXCEPT ![t] = q] OBVIOUS
<1> HIDE DEF x, v
<1>8. /\ h \in Quantum /\ h.stage = "execute" /\ h.limit = quantum[t].limit
      /\ h.retired = quantum[t].retired /\ h.output = quantum[t].output
  <2>1. x \in Nat /\ v \in Nat /\ quantum[t] \in Quantum BY <1>1, <1>6
  <2> DEFINE k == quantum[t]
             g == Holding(k, p, x, v)
  <2>2. k \in Quantum BY <2>1
  <2> HIDE DEF k
  <2>3. /\ g \in Quantum /\ g.stage = k.stage /\ g.limit = k.limit
        /\ g.retired = k.retired /\ g.output = k.output
    BY <2>1, <2>2, HoldingFields
  <2>4. k = quantum[t] /\ g = h BY DEF k
  <2> HIDE DEF g, h
  <2> QED BY <2>3, <2>4
<1>9. ShadowOK(memory', quantum[t]) BY <1>1, <1>4
<1>10. ShadowOK(memory', h)
  <2>1. /\ x \in Nat /\ v \in Nat /\ quantum[t] \in Quantum
        /\ memory'[p].stamp = x /\ memory'[p].value = v
    BY <1>1, <1>6
  <2>2. /\ DOMAIN quantum[t].shadow = DOMAIN quantum[t].deps
        /\ \A s \in DOMAIN quantum[t].deps :
              /\ quantum[t].deps[s] <= memory'[s].stamp
              /\ quantum[t].deps[s] = memory'[s].stamp => quantum[t].shadow[s] = memory'[s].value
    BY <1>9 DEF ShadowOK
  <2> DEFINE m == memory'
             k == quantum[t]
  <2> HIDE DEF m, k
  <2>3. ShadowOK(m, Holding(k, p, x, v)) BY <2>1, <2>2, HoldingAgrees DEF m, k
  <2> QED BY <2>3 DEF m, k
<1> HIDE DEF h
<1>11. /\ ThreadOK(t, rt[t], q) /\ Reach(rt[t], q) = quantum[t].output + 1
       /\ Reach(rt[t], quantum[t]) = quantum[t].output
  BY <1>8, RetiredOK
<1>12. q \in Quantum /\ q.deps = h.deps /\ q.shadow = h.shadow BY <1>8, RetiredFields
<1>13. ShadowOK(memory', q) BY <1>10, <1>12 DEF ShadowOK
<1> HIDE DEF q
<1>14. /\ rt' \in [Threads -> Runtime] /\ quantum' \in [Threads -> Quantum] /\ rt' = rt
       /\ quantum'[t] = q /\ \A u \in Threads : u # t => quantum'[u] = quantum[u]
  BY <1>7, <1>12 DEF IInv
<1>15. MemoryTyped' BY <1>4 DEF IInv, MemoryTyped
<1>16. ASSUME NEW u \in Threads
       PROVE  ThreadOK(u, rt'[u], quantum'[u]) /\ ShadowOK(memory', quantum'[u])
  <2>1. CASE u = t BY <1>11, <1>13, <1>14, <2>1
  <2>2. CASE u # t
    <3>1. /\ quantum[u] \in Quantum /\ ThreadOK(u, rt[u], quantum[u])
          /\ ShadowOK(memory, quantum[u])
      BY ThreadFacts
    <3>2. ShadowOK(memory', quantum[u]) BY <1>4, <3>1
    <3> QED BY <1>14, <2>2, <3>1, <3>2
  <2> QED BY <2>1, <2>2
<1>17. quantum[t].output \in Nat BY Executing
<1>18. PerformedStoresKept'
  <2> SUFFICES ASSUME NEW s \in Pages
               PROVE  memory'[s].value >= other'[s] + Cardinality(Performed(s)')
    BY DEF PerformedStoresKept
  <2>1. ASSUME NEW w \in Performed(s)', w \notin Performed(s)
        PROVE  s = p /\ w = <<t, quantum[t].output>>
    <3>1. /\ w \in Threads \X (1 .. MaxStamp) /\ w = <<w[1], w[2]>>
          /\ w[2] < Reach(rt'[w[1]], quantum'[w[1]]) /\ Increments(w[1], w[2], s)
      BY <2>1 DEF Performed, Reach, Increments
    <3>2. ~(w[2] < Reach(rt[w[1]], quantum[w[1]])) BY <2>1, <3>1 DEF Performed
    <3>3. w[1] = t BY <1>14, <3>1, <3>2
    <3>4. w[2] < quantum[t].output + 1 /\ ~(w[2] < quantum[t].output)
      BY <1>11, <1>14, <3>1, <3>2, <3>3
    <3>5. w[2] = quantum[t].output BY <1>17, <3>1, <3>4
    <3>6. s = p BY <3>1, <3>3, <3>5 DEF Increments, CurrentInstruction
    <3> QED BY <3>1, <3>3, <3>5, <3>6
  <2> DEFINE S == Performed(s)
             T == Performed(s)'
             e == <<t, quantum[t].output>>
  <2>2. IsFiniteSet(S) /\ Cardinality(S) \in Nat BY PerformedFinite
  <2>3. memory[s].value >= other[s] + Cardinality(S) BY DEF IInv, PerformedStoresKept
  <2>4. memory[s].value \in Nat /\ other[s] \in Nat
    BY QuantumAssumption DEF IInv, MemoryTyped
  <2>5. CASE s # p
    <3>1. T \subseteq S BY <2>1, <2>5
    <3> HIDE DEF S, T
    <3>2. Cardinality(T) \in Nat /\ Cardinality(T) <= Cardinality(S)
      BY <2>2, <3>1, FS_Subset, FS_CardinalityType
    <3>3. memory'[s].value >= other'[s] + Cardinality(T)
      BY <1>4, <2>2, <2>3, <2>4, <2>5, <3>2
    <3> QED BY <3>3 DEF T
  <2>6. CASE s = p
    <3>1. T \subseteq S \cup {e} BY <2>1
    <3> HIDE DEF S, T, e
    <3>2. /\ IsFiniteSet(S \cup {e})
          /\ Cardinality(S \cup {e}) \in {Cardinality(S), Cardinality(S) + 1}
      BY <2>2, FS_AddElement
    <3> DEFINE V == S \cup {e}
    <3>3. IsFiniteSet(V) /\ T \subseteq V BY <3>1, <3>2
    <3> HIDE DEF V
    <3>4. Cardinality(T) \in Nat /\ Cardinality(T) <= Cardinality(V)
      BY <3>3, FS_Subset, FS_CardinalityType
    <3>5. Cardinality(V) \in Nat /\ Cardinality(V) <= Cardinality(S) + 1
      BY <2>2, <3>2 DEF V
    <3>6. memory'[s].value >= other'[s] + Cardinality(T)
      BY <1>4, <2>2, <2>3, <2>4, <2>6, <3>4, <3>5
    <3> QED BY <3>6 DEF T
  <2> QED BY <2>5, <2>6
<1>19. \A u \in Threads : ThreadOK(u, rt[u], quantum[u])' BY <1>16 DEF ThreadOK
<1>20. \A u \in Threads : ShadowOK(memory, quantum[u])' BY <1>16 DEF ShadowOK
<1> QED BY <1>14, <1>15, <1>18, <1>19, <1>20 DEF IInv

\* An instruction keeps the invariant.
LEMMA ExecuteKeeps ==
    ASSUME IInv, NEW t \in Threads, Execute(t)
    PROVE  IInv'
<1> DEFINE p == CurrentInstruction(t).page
           op == CurrentInstruction(t).op
           q == quantum[t]
<1>1. q.stage = "execute" /\ UNCHANGED <<other, rt>> BY DEF Execute
<1>2. p \in Pages BY <1>1, Executing
<1>3. rt[t] \in Runtime /\ rt' = [rt EXCEPT ![t] = rt[t]] BY <1>1, ThreadFacts DEF IInv
<1>4. "MEMORY_FAULT" \in Reasons /\ "CONFLICT" \in Reasons BY DEF Reasons
<1>5. CASE (Stop(t, "MEMORY_FAULT") \/ Stop(t, "CONFLICT")) /\ UNCHANGED memory
  BY <1>1, <1>3, <1>4, <1>5, StopKeeps
<1>6. CASE /\ op = "load" /\ quantum' = [quantum EXCEPT ![t] = Retired(t, q)]
           /\ UNCHANGED memory
  BY <1>1, <1>6, LoadKeeps
<1>7. CASE /\ p \in Touched(t) /\ Current(t)
           /\ memory' = [memory EXCEPT ![p] =
                 [value |-> q.shadow[p] + 1, stamp |-> memory[p].stamp + 1]]
           /\ quantum' = [quantum EXCEPT ![t] =
                 Retired(t, Holding(q, p, q.deps[p] + 1, q.shadow[p] + 1))]
  BY <1>1, <1>2, <1>7, StoreKeeps
<1> QED BY Zenon, <1>5, <1>6, <1>7 DEF Execute

\* What a finished quantum hands over continues the published context.
LEMMA OutcomeFields ==
    ASSUME IInv, NEW t \in Threads, quantum[t].stage = "finish"
    PROVE  /\ Outcome(t).retired \in Nat /\ Outcome(t).output \in Nat
           /\ Outcome(t).reason \in Reasons
           /\ Outcome(t).output = rt[t].context + Outcome(t).retired
           /\ Outcome(t).output <= quantum[t].output
           /\ rt[t].retired + Outcome(t).retired <= rt[t].budget
<1>1. rt[t] \in Runtime /\ quantum[t] \in Quantum /\ ThreadOK(t, rt[t], quantum[t])
  BY ThreadFacts
<1>2. /\ rt[t].context \in Nat /\ rt[t].retired \in Nat /\ rt[t].budget \in Nat
      /\ quantum[t].retired \in Nat /\ quantum[t].output \in Nat /\ quantum[t].limit \in Nat
      /\ quantum[t].reason \in Reasons
  BY <1>1 DEF Runtime, Quantum
<1>3. /\ rt[t].retired + quantum[t].limit <= rt[t].budget
      /\ quantum[t].retired <= quantum[t].limit
      /\ quantum[t].output = rt[t].context + quantum[t].retired
  BY <1>1 DEF ThreadOK, Working
<1>4. CASE Current(t)
  <2>1. Outcome(t) = quantum[t] BY <1>4 DEF Outcome
  <2> QED BY <1>2, <1>3, <2>1
<1>5. CASE ~Current(t)
  <2> DEFINE c == rt[t].context
             o == [quantum[t] EXCEPT !.output = c, !.retired = 0, !.reason = "CONFLICT"]
  <2>1. Outcome(t) = o BY <1>5 DEF Outcome
  <2>2. c \in Nat BY <1>2
  <2> HIDE DEF c
  <2>3. o.output = c /\ o.retired = 0 /\ o.reason = "CONFLICT" BY Zenon, <1>1 DEF Quantum
  <2>4. "CONFLICT" \in Reasons BY DEF Reasons
  <2> HIDE DEF o
  <2>5. Outcome(t).output = rt[t].context /\ Outcome(t).retired = 0 BY <2>1, <2>3 DEF c
  <2> QED BY <1>2, <1>3, <2>1, <2>3, <2>4, <2>5
<1> QED BY <1>4, <1>5

\* The adaptive quantum stays within its bounds.
LEMMA QuantumAdapts ==
    ASSUME NEW n \in 1 .. MaxQuantum
    PROVE  Halved(n) \in 1 .. MaxQuantum /\ Doubled(n) \in 1 .. MaxQuantum
BY QuantumAssumption DEF Halved, Doubled

\* Finishing a quantum, published or discarded, keeps the invariant.
LEMMA FinishQuantumKeeps ==
    ASSUME IInv, NEW t \in Threads, FinishQuantum(t)
    PROVE  IInv'
<1>1. quantum[t].stage = "finish" /\ UNCHANGED <<memory, other>> BY DEF FinishQuantum
<1>2. rt[t] \in Runtime /\ quantum[t] \in Quantum /\ ThreadOK(t, rt[t], quantum[t])
  BY ThreadFacts
<1> DEFINE q == Outcome(t)
           conflict == q.reason = "CONFLICT"
           context == IF Publishes(q) THEN q.output ELSE rt[t].context
           retired == rt[t].retired + q.retired
           conflicts == IF ~conflict \/ rt[t].conflicts + 1 >= YieldAfter THEN 0
                        ELSE rt[t].conflicts + 1
           size == IF conflict THEN Halved(rt[t].quantum)
                   ELSE IF q.reason = "NONE" THEN Doubled(rt[t].quantum) ELSE rt[t].quantum
           next == [rt[t] EXCEPT !.context = context, !.retired = retired,
                                 !.conflicts = conflicts, !.quantum = size]
           begin == [NoQuantum EXCEPT !.stage = "begin"]
<1>3. /\ q.retired \in Nat /\ q.output \in Nat /\ q.reason \in Reasons
      /\ q.output = rt[t].context + q.retired /\ q.output <= quantum[t].output
      /\ rt[t].retired + q.retired <= rt[t].budget
  BY <1>1, OutcomeFields
<1>4. \/ /\ rt' = [rt EXCEPT ![t] = next] /\ quantum' = [quantum EXCEPT ![t] = begin]
      \/ /\ rt' = [rt EXCEPT ![t] = Returned(next, q.reason)]
         /\ quantum' = [quantum EXCEPT ![t] = NoQuantum]
  BY Zenon DEF FinishQuantum
<1> HIDE DEF q
<1>5. /\ rt[t].context \in Nat /\ rt[t].retired \in Nat /\ rt[t].context > 0
      /\ rt[t].quantum \in 1 .. MaxQuantum /\ rt[t].conflicts \in 0 .. YieldAfter - 1
      /\ rt[t].running /\ rt[t].context = rt[t].start + rt[t].retired
      /\ rt[t].start \in Nat /\ rt[t].budget \in Nat
      /\ quantum[t].output \in Nat /\ YieldAfter \in Nat \ {0} /\ MaxQuantum \in Nat
  BY <1>1, <1>2, QuantumAssumption DEF ThreadOK, Working, Runtime, Quantum
<1>6. context = rt[t].context + q.retired /\ context \in Nat /\ context > 0
      /\ context <= quantum[t].output
  BY <1>1, <1>2, <1>3, <1>5 DEF Publishes, ThreadOK, Working
<1>7. retired \in Nat /\ retired <= rt[t].budget /\ context = rt[t].start + retired
  BY <1>3, <1>5, <1>6
<1>8. conflicts \in 0 .. YieldAfter - 1 /\ conflicts \in Nat BY <1>5
<1>9. size \in 1 .. MaxQuantum /\ size \in Nat
  <2>1. Halved(rt[t].quantum) \in 1 .. MaxQuantum /\ Doubled(rt[t].quantum) \in 1 .. MaxQuantum
    BY <1>5, QuantumAdapts
  <2> QED BY <1>5, <2>1
<1> HIDE DEF context, retired, conflicts, size
<1>10. next \in Runtime BY Zenon, <1>2, <1>6, <1>7, <1>8, <1>9 DEF Runtime
<1>11. /\ next.context = context /\ next.retired = retired /\ next.conflicts = conflicts
       /\ next.quantum = size /\ next.running = rt[t].running /\ next.budget = rt[t].budget
       /\ next.start = rt[t].start
  BY Zenon, <1>2 DEF Runtime
<1> HIDE DEF next
<1>12. Reach(rt[t], quantum[t]) = quantum[t].output BY <1>1 DEF Reach, Working
<1>13. CASE rt' = [rt EXCEPT ![t] = next] /\ quantum' = [quantum EXCEPT ![t] = begin]
  <2>1. /\ begin \in Quantum /\ begin.stage = "begin"
        /\ begin.deps = NoQuantum.deps /\ begin.shadow = NoQuantum.shadow
    BY NoQuantumFields DEF Quantum
  <2> HIDE DEF begin
  <2>2. ThreadOK(t, next, begin)
    BY <1>5, <1>6, <1>7, <1>8, <1>9, <1>10, <1>11, <2>1 DEF ThreadOK, Working
  <2>3. ShadowOK(memory, begin) BY <2>1, NoQuantumFields DEF ShadowOK
  <2>4. Reach(next, begin) = context BY <1>11, <2>1 DEF Reach, Working
  <2>5. \A i \in 1 .. MaxStamp : i < context => i < quantum[t].output BY <1>5, <1>6
  <2> QED BY <1>1, <1>12, <1>13, <2>2, <2>3, <2>4, <2>5, ThreadKeeps
<1>14. CASE /\ rt' = [rt EXCEPT ![t] = Returned(next, q.reason)]
            /\ quantum' = [quantum EXCEPT ![t] = NoQuantum]
  <2> DEFINE r == Returned(next, q.reason)
  <2>1. /\ r \in Runtime /\ r.running = FALSE /\ r.context = next.context
        /\ r.quantum = next.quantum /\ r.conflicts = next.conflicts
    BY <1>3, <1>10, ReturnedFields
  <2>2. rt' = [rt EXCEPT ![t] = r] BY <1>14
  <2> HIDE DEF r
  <2>3. ThreadOK(t, r, NoQuantum)
    BY <1>6, <1>8, <1>9, <1>11, <2>1, NoQuantumFields DEF ThreadOK, Working
  <2>4. ShadowOK(memory, NoQuantum) BY NoQuantumFields DEF ShadowOK
  <2>5. Reach(r, NoQuantum) = context BY <1>11, <2>1, NoQuantumFields DEF Reach, Working
  <2>6. \A i \in 1 .. MaxStamp : i < context => i < quantum[t].output BY <1>5, <1>6
  <2> QED BY <1>1, <1>12, <1>14, <2>2, <2>3, <2>4, <2>5, <2>6, ThreadKeeps
<1> QED BY <1>4, <1>13, <1>14

-----------------------------------------------------------------------------
(* The theorems.                                                            *)

\* The invariant holds initially.
LEMMA InitIInv == Init => IInv
<1> SUFFICES ASSUME Init PROVE IInv OBVIOUS
<1> DEFINE r == [running |-> FALSE, failed |-> FALSE, async |-> FALSE, budget |-> 0,
                 retired |-> 0, quantum |-> InitialQuantum, conflicts |-> 0,
                 start |-> 0, context |-> 1, result |-> "NONE"]
<1>1. rt = [t \in Threads |-> r] /\ quantum = [t \in Threads |-> NoQuantum] BY DEF Init
<1>2. /\ r \in Runtime /\ r.running = FALSE /\ r.quantum = InitialQuantum
      /\ r.conflicts = 0 /\ r.context = 1
  BY QuantumAssumption DEF Runtime, Reasons
<1>3. memory \in [Pages -> [value : Nat, stamp : Nat]] /\ other \in [Pages -> 0 .. MaxOther]
  BY QuantumAssumption DEF Init
<1> HIDE DEF r
<1>4. rt \in [Threads -> Runtime] /\ quantum \in [Threads -> Quantum]
  BY <1>1, <1>2, NoQuantumFields
<1>5. ASSUME NEW t \in Threads PROVE ThreadOK(t, rt[t], quantum[t]) /\ ShadowOK(memory, quantum[t])
  <2>1. rt[t] = r /\ quantum[t] = NoQuantum BY <1>1
  <2>2. ThreadOK(t, r, NoQuantum)
    BY <1>2, NoQuantumFields, QuantumAssumption DEF ThreadOK, Working
  <2>3. ShadowOK(memory, NoQuantum) BY NoQuantumFields DEF ShadowOK
  <2> QED BY <2>1, <2>2, <2>3
<1>6. ASSUME NEW p \in Pages PROVE memory[p].value >= other[p] + Cardinality(Performed(p))
  <2>1. memory[p].value = 0 /\ other[p] = 0 BY DEF Init
  <2>2. Performed(p) = {}
    <3> SUFFICES ASSUME NEW w \in Performed(p) PROVE FALSE OBVIOUS
    <3>1. w[1] \in Threads /\ w[2] \in 1 .. MaxStamp
          /\ w[2] < Reach(rt[w[1]], quantum[w[1]])
      BY DEF Performed
    <3>2. rt[w[1]] = r /\ quantum[w[1]] = NoQuantum BY <1>1, <3>1
    <3>3. Reach(r, NoQuantum) = 1 BY <1>2, NoQuantumFields DEF Reach, Working
    <3> QED BY <3>1, <3>2, <3>3
  <2> QED BY <2>1, <2>2, FS_EmptySet
<1> QED BY <1>3, <1>4, <1>5, <1>6 DEF IInv, MemoryTyped, PerformedStoresKept

\* Every step keeps the invariant.
LEMMA NextKeeps == IInv /\ [Next]_vars => IInv'
<1> SUFFICES ASSUME IInv, [Next]_vars PROVE IInv' OBVIOUS
<1>1. ASSUME NEW t \in Threads, Step(t) PROVE IInv'
  BY Zenon, <1>1, BeginQuantumKeeps, CheckStopKeeps, SnapshotPageKeeps, ExecuteKeeps,
     FinishQuantumKeeps
  DEF Step
<1>2. ASSUME NEW t \in Threads, NEW b \in Budgets, Run(t, b) PROVE IInv' BY <1>2, RunKeeps
<1>3. ASSUME NEW t \in Threads, RequestAsyncStop(t) \/ InvalidateCode(t) PROVE IInv'
  BY <1>3, RequestAsyncStopKeeps, InvalidateCodeKeeps
<1>4. ASSUME NEW p \in Pages, OtherStore(p) PROVE IInv' BY <1>4, OtherStoreKeeps
<1>5. CASE UNCHANGED vars
  <2>1. memory' = memory /\ other' = other /\ rt' = rt /\ quantum' = quantum
    BY <1>5 DEF vars
  <2>2. \A t \in Threads : ThreadOK(t, rt[t], quantum[t])' BY <2>1 DEF IInv, ThreadOK
  <2>3. \A t \in Threads : ShadowOK(memory, quantum[t])' BY <2>1 DEF IInv, ShadowOK
  <2>4. MemoryTyped' BY <2>1 DEF IInv, MemoryTyped
  <2>5. \A p \in Pages : Performed(p)' \subseteq Performed(p) BY <2>1 DEF Performed
  <2>6. PerformedStoresKept' BY <2>1, <2>5, StoresStay
  <2> QED BY <2>1, <2>2, <2>3, <2>4, <2>6 DEF IInv
<1> QED BY Zenon, <1>1, <1>2, <1>3, <1>4, <1>5 DEF Next

\* The invariant holds in every reachable state.
LEMMA Invariance == Spec => []IInv
BY InitIInv, NextKeeps, PTL DEF Spec

\* The runtimes and memory keep their types; in particular the adaptive quantum of
\* gem_i386_runtime_run never becomes zero or exceeds its maximum, and a runtime is
\* running exactly while it has a quantum.
THEOREM TypeCorrect == Spec => []TypeOK
<1>1. IInv => TypeOK BY DEF IInv, MemoryTyped, ThreadOK, TypeOK
<1> QED BY <1>1, Invariance, PTL

\* Across conflicts, faults and stops, the published context is the one the run
\* started from plus the instructions reported retired, and the budget is kept.
THEOREM ContextsAreExact == Spec => []ContextIsExact
<1>1. IInv => ContextIsExact BY DEF IInv, ThreadOK, ContextIsExact
<1> QED BY <1>1, Invariance, PTL

\* No store of a published instruction or of another thread is lost, for any
\* number of runtimes that share pages: a commit is accepted only on top of the
\* bytes the quantum has worked with.
THEOREM StoresAreKept == Spec => []NoLostStore
<1>1. ASSUME IInv, NEW p \in Pages
      PROVE  memory[p].value >= other[p] + Cardinality(PublishedIncrements(p))
  <2> DEFINE S == Performed(p)
             T == PublishedIncrements(p)
  <2>1. T \subseteq S
    <3> SUFFICES ASSUME NEW w \in T PROVE w \in S OBVIOUS
    <3>1. /\ w \in Threads \X (1 .. MaxStamp) /\ w[1] \in Threads /\ w[2] \in 1 .. MaxStamp
          /\ w[2] < rt[w[1]].context /\ Increments(w[1], w[2], p)
      BY DEF PublishedIncrements
    <3>2. /\ rt[w[1]] \in Runtime /\ quantum[w[1]] \in Quantum
          /\ ThreadOK(w[1], rt[w[1]], quantum[w[1]])
      BY <1>1, <3>1, ThreadFacts
    <3>3. w[2] < Reach(rt[w[1]], quantum[w[1]])
      <4>1. CASE quantum[w[1]].stage \in Working
        <5>1. quantum[w[1]].output = rt[w[1]].context + quantum[w[1]].retired
          BY <3>2, <4>1 DEF ThreadOK
        <5>2. rt[w[1]].context \in Nat /\ quantum[w[1]].retired \in Nat
          BY <3>2 DEF Runtime, Quantum
        <5> QED BY <3>1, <4>1, <5>1, <5>2 DEF Reach
      <4>2. CASE quantum[w[1]].stage \notin Working BY <3>1, <4>2 DEF Reach
      <4> QED BY <4>1, <4>2
    <3> QED BY <3>1, <3>3 DEF Performed
  <2>2. IsFiniteSet(S) /\ Cardinality(S) \in Nat BY PerformedFinite
  <2>3. memory[p].value >= other[p] + Cardinality(S)
    BY <1>1 DEF IInv, PerformedStoresKept
  <2>4. memory[p].value \in Nat /\ other[p] \in Nat
    BY <1>1, QuantumAssumption DEF IInv, MemoryTyped
  <2> HIDE DEF S, T
  <2>5. Cardinality(T) \in Nat /\ Cardinality(T) <= Cardinality(S)
    BY <2>1, <2>2, FS_Subset, FS_CardinalityType
  <2>6. memory[p].value >= other[p] + Cardinality(T) BY <2>2, <2>3, <2>4, <2>5
  <2> QED BY <2>6 DEF T
<1>2. IInv => NoLostStore BY <1>1 DEF NoLostStore
<1> QED BY <1>2, Invariance, PTL
=============================================================================
