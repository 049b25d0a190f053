------------------------ MODULE GemTransactionProofs ------------------------
(***************************************************************************)
(* Proofs about GemTransaction for every number of threads and pages,      *)
(* every mapping of pages and backings to stripes and every argument.      *)
(***************************************************************************)
EXTENDS GemTransaction, GemMemoryProofs

\* Functions from some of S to T.
Partial(S, T) == UNION {[D -> T] : D \in SUBSET S}

\* A page of a commit, and the lines of it that are still to copy.
Copy == [backing : Backings, left : SUBSET Lines]
Locked == {Stripe[x] : x \in DOMAIN Stripe}

Txn == [stage : Stages, deps : Partial(TxnPages, Dependency),
        shadow : Partial(TxnPages, Contents), copies : Partial(TxnPages, Copy),
        reading : SUBSET Locked, writing : SUBSET Locked]

\* Only recorded pages are read, only read pages are committed, and the commit's
\* copies and stripes belong to its own stages.
WellShaped(r) ==
    /\ DOMAIN r.shadow \subseteq DOMAIN r.deps
    /\ DOMAIN r.copies \subseteq DOMAIN r.shadow
    /\ r.reading \cup r.writing # {} => r.stage = "copying"
    /\ r.stage \notin {"copying", "unpinning"} => DOMAIN r.copies = {}

TxnTyped == txn \in [Threads -> Txn] /\ \A t \in Threads : WellShaped(txn[t])

-----------------------------------------------------------------------------
(* Updates of a transaction.                                                *)

\* Thread t's transaction becomes one with the given fields.
Becomes(t, st, d, sh, c, r, w) ==
    /\ txn' \in [Threads -> Txn]
    /\ \A u \in Threads \ {t} : txn'[u] = txn[u]
    /\ txn'[t].stage = st /\ txn'[t].deps = d /\ txn'[t].shadow = sh
    /\ txn'[t].copies = c /\ txn'[t].reading = r /\ txn'[t].writing = w

\* Extending and overwriting a function.
LEMMA MergeValues ==
    ASSUME NEW f, NEW g
    PROVE  /\ DOMAIN Merge(f, g) = DOMAIN f \cup DOMAIN g
           /\ \A x \in DOMAIN g : Merge(f, g)[x] = g[x]
           /\ \A x \in DOMAIN f \ DOMAIN g : Merge(f, g)[x] = f[x]
BY DEF Merge

\* Extending and overwriting a partial function.
LEMMA MergePartial ==
    ASSUME NEW S, NEW T, NEW f \in Partial(S, T), NEW g \in Partial(S, T)
    PROVE  Merge(f, g) \in Partial(S, T)
<1>1. PICK E \in SUBSET S : f \in [E -> T]
  BY DEF Partial
<1>2. PICK D \in SUBSET S : g \in [D -> T]
  BY DEF Partial
<1>3. Merge(f, g) = [x \in E \cup D |-> IF x \in D THEN g[x] ELSE f[x]]
  BY <1>1, <1>2 DEF Merge
<1>4. Merge(f, g) \in [E \cup D -> T]
  BY <1>1, <1>2, <1>3
<1> QED
  BY <1>4 DEF Partial

\* Extending by one argument.
LEMMA MergeOne ==
    ASSUME NEW S, NEW T, NEW f \in Partial(S, T), NEW a \in S, NEW x \in T
    PROVE  Merge(f, [y \in {a} |-> x]) \in Partial(S, T)
<1> DEFINE g == [y \in {a} |-> x]
<1>1. g \in [{a} -> T] /\ {a} \in SUBSET S
  OBVIOUS
<1>2. g \in Partial(S, T)
  BY <1>1 DEF Partial
<1> HIDE DEF g
<1>3. Merge(f, g) \in Partial(S, T)
  BY <1>2, MergePartial
<1> QED
  BY <1>3 DEF g

\* Leaving out one argument.
LEMMA WithoutPartial ==
    ASSUME NEW S, NEW T, NEW f \in Partial(S, T), NEW a
    PROVE  /\ Without(f, a) \in Partial(S, T) /\ DOMAIN Without(f, a) = DOMAIN f \ {a}
           /\ \A x \in DOMAIN f \ {a} : Without(f, a)[x] = f[x]
<1>1. PICK E \in SUBSET S : f \in [E -> T]
  BY DEF Partial
<1>2. Without(f, a) = [x \in E \ {a} |-> f[x]]
  BY <1>1 DEF Without
<1>3. Without(f, a) \in [E \ {a} -> T] /\ E \ {a} \in SUBSET S
  BY <1>1, <1>2
<1> QED
  BY <1>1, <1>2, <1>3 DEF Partial

\* Changing one value.
LEMMA ExceptPartial ==
    ASSUME NEW S, NEW T, NEW f \in Partial(S, T), NEW a \in DOMAIN f, NEW x \in T
    PROVE  /\ [f EXCEPT ![a] = x] \in Partial(S, T) /\ DOMAIN [f EXCEPT ![a] = x] = DOMAIN f
           /\ [f EXCEPT ![a] = x][a] = x
           /\ \A y \in DOMAIN f \ {a} : [f EXCEPT ![a] = x][y] = f[y]
<1>1. PICK E \in SUBSET S : f \in [E -> T]
  BY DEF Partial
<1>2. [f EXCEPT ![a] = x] \in [E -> T]
  BY <1>1
<1> QED
  BY <1>1, <1>2 DEF Partial

\* The values of a partial function.
LEMMA PartialValues ==
    ASSUME NEW S, NEW T, NEW f \in Partial(S, T)
    PROVE  /\ DOMAIN f \subseteq S /\ \A x \in DOMAIN f : f[x] \in T
           /\ f = [x \in DOMAIN f |-> f[x]]
BY DEF Partial

\* The fields of a transaction.
LEMMA TxnFields ==
    ASSUME TxnTyped, NEW t \in Threads
    PROVE  /\ txn[t].stage \in Stages
           /\ txn[t].deps \in Partial(TxnPages, Dependency)
           /\ txn[t].shadow \in Partial(TxnPages, Contents)
           /\ txn[t].copies \in Partial(TxnPages, Copy)
           /\ txn[t].reading \in SUBSET Locked /\ txn[t].writing \in SUBSET Locked
           /\ DOMAIN txn[t].deps \subseteq TxnPages
           /\ \A a \in DOMAIN txn[t].deps : txn[t].deps[a] \in Dependency
           /\ DOMAIN txn[t].shadow \subseteq DOMAIN txn[t].deps
           /\ \A a \in DOMAIN txn[t].shadow : txn[t].shadow[a] \in Contents
           /\ DOMAIN txn[t].copies \subseteq DOMAIN txn[t].shadow
           /\ \A a \in DOMAIN txn[t].copies : txn[t].copies[a] \in Copy
<1>1. txn[t] \in Txn /\ WellShaped(txn[t])
  BY DEF TxnTyped
<1>2. /\ txn[t].stage \in Stages
      /\ txn[t].deps \in Partial(TxnPages, Dependency)
      /\ txn[t].shadow \in Partial(TxnPages, Contents)
      /\ txn[t].copies \in Partial(TxnPages, Copy)
      /\ txn[t].reading \in SUBSET Locked /\ txn[t].writing \in SUBSET Locked
  BY <1>1 DEF Txn
<1> QED
  BY <1>1, <1>2, PartialValues DEF WellShaped

\* Only the stage changes.
LEMMA StageBecomes ==
    ASSUME TxnTyped, NEW t \in Threads, NEW x \in Stages, txn' = [txn EXCEPT ![t].stage = x]
    PROVE  Becomes(t, x, txn[t].deps, txn[t].shadow, txn[t].copies, txn[t].reading, txn[t].writing)
<1>1. txn \in [Threads -> Txn]
  BY DEF TxnTyped
<1> QED
  BY <1>1 DEF Txn, Becomes

\* A page is read.
LEMMA ReadBecomes ==
    ASSUME TxnTyped, NEW t \in Threads, NEW sh \in Partial(TxnPages, Contents),
           txn' = [txn EXCEPT ![t].shadow = sh]
    PROVE  Becomes(t, txn[t].stage, txn[t].deps, sh, txn[t].copies, txn[t].reading,
                   txn[t].writing)
<1>1. txn \in [Threads -> Txn]
  BY DEF TxnTyped
<1> QED
  BY <1>1 DEF Txn, Becomes

\* A page is recorded.
LEMMA RecordBecomes ==
    ASSUME TxnTyped, NEW t \in Threads, NEW d \in Partial(TxnPages, Dependency),
           txn' = [txn EXCEPT ![t].deps = d]
    PROVE  Becomes(t, txn[t].stage, d, txn[t].shadow, txn[t].copies, txn[t].reading,
                   txn[t].writing)
<1>1. txn \in [Threads -> Txn]
  BY DEF TxnTyped
<1> QED
  BY <1>1 DEF Txn, Becomes

\* A page is recorded and read.
LEMMA SnapshotBecomes ==
    ASSUME TxnTyped, NEW t \in Threads, NEW d \in Partial(TxnPages, Dependency),
           NEW sh \in Partial(TxnPages, Contents),
           txn' = [txn EXCEPT ![t].deps = d, ![t].shadow = sh]
    PROVE  Becomes(t, txn[t].stage, d, sh, txn[t].copies, txn[t].reading, txn[t].writing)
<1>1. txn \in [Threads -> Txn]
  BY DEF TxnTyped
<1> QED
  BY <1>1 DEF Txn, Becomes

\* A guard is taken off by an access.
LEMMA ValidateBecomes ==
    ASSUME TxnTyped, NEW t \in Threads, NEW x \in Stages, NEW a, NEW g, NEW h,
           NEW sh \in Partial(TxnPages, Contents),
           [txn[t].deps EXCEPT ![a] = [@ EXCEPT !.protection.guard = FALSE, !.generation = g,
                                                !.hash = h]] \in Partial(TxnPages, Dependency),
           txn' = [txn EXCEPT ![t].stage = x,
                              ![t].deps[a] = [@ EXCEPT !.protection.guard = FALSE,
                                                       !.generation = g, !.hash = h],
                              ![t].shadow = sh]
    PROVE  Becomes(t, x, [txn[t].deps EXCEPT ![a] = [@ EXCEPT !.protection.guard = FALSE,
                                                              !.generation = g, !.hash = h]],
                   sh, txn[t].copies, txn[t].reading, txn[t].writing)
<1>1. txn \in [Threads -> Txn]
  BY DEF TxnTyped
<1> QED
  BY <1>1 DEF Txn, Becomes

\* A guard is taken off by a commit.
LEMMA GuardBecomes ==
    ASSUME TxnTyped, NEW t \in Threads, NEW x \in Stages, NEW a, NEW g,
           NEW sh \in Partial(TxnPages, Contents),
           [txn[t].deps EXCEPT ![a] = [@ EXCEPT !.protection.guard = FALSE, !.generation = g]]
                \in Partial(TxnPages, Dependency),
           txn' = [txn EXCEPT ![t].stage = x,
                              ![t].deps[a] = [@ EXCEPT !.protection.guard = FALSE,
                                                       !.generation = g],
                              ![t].shadow = sh]
    PROVE  Becomes(t, x, [txn[t].deps EXCEPT ![a] = [@ EXCEPT !.protection.guard = FALSE,
                                                              !.generation = g]],
                   sh, txn[t].copies, txn[t].reading, txn[t].writing)
<1>1. txn \in [Threads -> Txn]
  BY DEF TxnTyped
<1> QED
  BY <1>1 DEF Txn, Becomes

\* A commit begins to copy.
LEMMA CommitBecomes ==
    ASSUME TxnTyped, NEW t \in Threads, NEW x \in Stages,
           NEW sh \in Partial(TxnPages, Contents), NEW d \in Partial(TxnPages, Dependency),
           NEW c \in Partial(TxnPages, Copy), NEW w \in SUBSET Locked, NEW r \in SUBSET Locked,
           txn' = [txn EXCEPT ![t].stage = x, ![t].shadow = sh, ![t].deps = d,
                              ![t].copies = c, ![t].writing = w, ![t].reading = r]
    PROVE  Becomes(t, x, d, sh, c, r, w)
<1>1. txn \in [Threads -> Txn]
  BY DEF TxnTyped
<1> DEFINE q == [txn[t] EXCEPT !.stage = x, !.shadow = sh, !.deps = d, !.copies = c,
                           !.writing = w, !.reading = r]
<1>0. txn' = [txn EXCEPT ![t] = q]
  BY <1>1
<1>5. q \in Txn
  BY <1>1 DEF Txn
<1> HIDE DEF q
<1>6. [txn EXCEPT ![t] = q] \in [Threads -> Txn]
      /\ \A u \in Threads \ {t} : [txn EXCEPT ![t] = q][u] = txn[u]
  BY <1>1, <1>5
<1>2. txn' \in [Threads -> Txn] /\ \A u \in Threads \ {t} : txn'[u] = txn[u]
  BY Zenon, <1>0, <1>6
<1>3. txn'[t].stage = x /\ txn'[t].deps = d /\ txn'[t].shadow = sh
  BY <1>1 DEF Txn
<1>4. txn'[t].copies = c /\ txn'[t].reading = r /\ txn'[t].writing = w
  BY <1>1 DEF Txn
<1> QED
  BY <1>2, <1>3, <1>4 DEF Becomes

\* A line has been copied.
LEMMA CopyBecomes ==
    ASSUME TxnTyped, NEW t \in Threads, NEW a, NEW l,
           [txn[t].copies EXCEPT ![a] = [@ EXCEPT !.left = txn[t].copies[a].left \ {l}]] \in Partial(TxnPages, Copy),
           txn' = [txn EXCEPT ![t].copies[a] = [@ EXCEPT !.left = txn[t].copies[a].left \ {l}]]
    PROVE  Becomes(t, txn[t].stage, txn[t].deps, txn[t].shadow,
                   [txn[t].copies EXCEPT ![a] = [@ EXCEPT !.left = txn[t].copies[a].left \ {l}]],
                   txn[t].reading, txn[t].writing)
<1>1. txn \in [Threads -> Txn]
  BY DEF TxnTyped
<1> QED
  BY <1>1 DEF Txn, Becomes

\* The stripes are released.
LEMMA ReleaseBecomes ==
    ASSUME TxnTyped, NEW t \in Threads, NEW x \in Stages,
           txn' = [txn EXCEPT ![t].stage = x, ![t].reading = {}, ![t].writing = {}]
    PROVE  Becomes(t, x, txn[t].deps, txn[t].shadow, txn[t].copies, {}, {})
<1>1. txn \in [Threads -> Txn]
  BY DEF TxnTyped
<1> QED
  BY <1>1 DEF Txn, Becomes

\* The copies are forgotten.
LEMMA DropBecomes ==
    ASSUME TxnTyped, NEW t \in Threads, NEW x \in Stages, NEW c \in Partial(TxnPages, Copy),
           txn' = [txn EXCEPT ![t].stage = x, ![t].copies = c]
    PROVE  Becomes(t, x, txn[t].deps, txn[t].shadow, c, txn[t].reading, txn[t].writing)
<1>1. txn \in [Threads -> Txn]
  BY DEF TxnTyped
<1> QED
  BY <1>1 DEF Txn, Becomes

\* The transaction ends.
LEMMA EndBecomes ==
    ASSUME TxnTyped, NEW t \in Threads, txn' = [txn EXCEPT ![t] = Idle]
    PROVE  Becomes(t, "idle", <<>>, <<>>, <<>>, {}, {})
<1>1. \A T : <<>> \in [{} -> T]
  OBVIOUS
<1>2. \A T : <<>> \in Partial(TxnPages, T)
  BY <1>1 DEF Partial
<1>3. Idle \in Txn
  BY <1>2 DEF Idle, Txn, Stages
<1> QED
  BY <1>3 DEF TxnTyped, Becomes, Idle
-----------------------------------------------------------------------------
(* Pins.  What a thread has recorded and what it is committing are both     *)
(* partial functions from pages to records with a backing.                  *)

Deps == [t \in Threads |-> txn[t].deps]
Copies == [t \in Threads |-> txn[t].copies]

\* The pages of f that name the backing b, and the same over all threads.
Naming(f, b) == {a \in DOMAIN f : f[a].backing = b}
HeldBy(g, b) == {x \in Threads \X TxnPages : x[2] \in DOMAIN g[x[1]] /\ g[x[1]][x[2]].backing = b}

\* The references to each backing that are not a page's.
Pins == [b \in Backings |-> Cardinality(HeldBy(Deps, b)) + Cardinality(HeldBy(Copies, b))]

\* The inductive invariant of types and pins.
TInv == TypeOK /\ TxnTyped /\ PinnedExact(Pins)

\* Everything that is counted is finite.
LEMMA PagesFinite ==
    /\ IsFiniteSet(TxnPages) /\ IsFiniteSet(Threads \X TxnPages)
    /\ \A f, b : DOMAIN f \subseteq TxnPages =>
          IsFiniteSet(Naming(f, b)) /\ Cardinality(Naming(f, b)) \in Nat
    /\ \A g, b : IsFiniteSet(HeldBy(g, b)) /\ Cardinality(HeldBy(g, b)) \in Nat
<1>1. IsFiniteSet(Address)
  BY FS_Interval, AddressAssumption DEF Address
<1>2. IsFiniteSet(TxnPages)
  BY <1>1, FS_Subset, TransactionAssumption
<1>3. IsFiniteSet(Threads \X TxnPages)
  BY <1>2, FS_Product, TransactionAssumption
<1>4. \A f, b : DOMAIN f \subseteq TxnPages => Naming(f, b) \subseteq TxnPages
  BY DEF Naming
<1>5. \A f, b : DOMAIN f \subseteq TxnPages =>
          IsFiniteSet(Naming(f, b)) /\ Cardinality(Naming(f, b)) \in Nat
  BY <1>2, <1>4, FS_Subset, FS_CardinalityType
<1>6. \A g, b : HeldBy(g, b) \subseteq Threads \X TxnPages
  BY DEF HeldBy
<1>7. \A g, b : IsFiniteSet(HeldBy(g, b)) /\ Cardinality(HeldBy(g, b)) \in Nat
  BY <1>3, <1>6, FS_Subset, FS_CardinalityType
<1> QED
  BY <1>2, <1>3, <1>5, <1>7

\* What all threads hold is what one holds and what the others hold.
LEMMA HeldSplit ==
    ASSUME NEW g, NEW t \in Threads, DOMAIN g[t] \subseteq TxnPages, NEW b
    PROVE  Cardinality(HeldBy(g, b))
             = Cardinality({x \in HeldBy(g, b) : x[1] # t}) + Cardinality(Naming(g[t], b))
<1> DEFINE H == HeldBy(g, b)
           R == {x \in H : x[1] # t}
           N == Naming(g[t], b)
           M == {t} \X N
<1>1. IsFiniteSet(H) /\ IsFiniteSet(N) /\ Cardinality(N) \in Nat
  BY PagesFinite
<1>2. H = R \cup M
  <2>1. N \subseteq TxnPages
    BY DEF Naming
  <2>2. M \subseteq H
    BY <2>1 DEF HeldBy, Naming
  <2>3. ASSUME NEW x \in H, x[1] = t PROVE x \in M
    <3>1. x \in Threads \X TxnPages /\ x[2] \in N
      BY <2>3 DEF HeldBy, Naming
    <3> QED
      BY <2>3, <3>1
  <2> QED
    BY <2>2, <2>3
<1>3. R \cap M = {}
  OBVIOUS
<1> HIDE DEF H, N
<1>4. IsFiniteSet(R)
  BY <1>1, FS_Subset
<1>5. IsFiniteSet({t}) /\ Cardinality({t}) = 1
  BY FS_Singleton
<1>6. IsFiniteSet(M) /\ Cardinality(M) = 1 * Cardinality(N)
  BY <1>1, <1>5, FS_Product
<1>7. Cardinality(M) = Cardinality(N)
  BY <1>1, <1>6
<1> HIDE DEF R, M
<1>8. Cardinality(R \cup M) = Cardinality(R) + Cardinality(M)
  <2>1. Cardinality(R \cup M) = Cardinality(R) + Cardinality(M) - Cardinality(R \cap M)
    BY <1>4, <1>6, FS_Union
  <2>2. Cardinality(R \cap M) = 0
    BY <1>3, FS_EmptySet
  <2>3. Cardinality(R) \in Nat /\ Cardinality(M) \in Nat
    BY <1>4, <1>6, FS_CardinalityType
  <2> QED
    BY <2>1, <2>2, <2>3
<1> QED
  BY <1>2, <1>7, <1>8 DEF H, R, N

\* g2 is g but for thread t.
OnlyAt(t, g, g2) ==
    /\ \A u \in Threads \ {t} : g2[u] = g[u]
    /\ DOMAIN g[t] \subseteq TxnPages /\ DOMAIN g2[t] \subseteq TxnPages

\* When one thread's part changes, the number changes by as much.
LEMMA HeldChange ==
    ASSUME NEW g, NEW g2, NEW t \in Threads, OnlyAt(t, g, g2), NEW b
    PROVE  Cardinality(HeldBy(g2, b)) = Cardinality(HeldBy(g, b))
             - Cardinality(Naming(g[t], b)) + Cardinality(Naming(g2[t], b))
<1> DEFINE R(f) == {x \in HeldBy(f, b) : x[1] # t}
<1>1. R(g2) = R(g)
  BY DEF HeldBy, OnlyAt
<1>0. DOMAIN g[t] \subseteq TxnPages /\ DOMAIN g2[t] \subseteq TxnPages
  BY DEF OnlyAt
<1>2. Cardinality(HeldBy(g, b)) = Cardinality(R(g)) + Cardinality(Naming(g[t], b))
  BY <1>0, HeldSplit
<1>3. Cardinality(HeldBy(g2, b)) = Cardinality(R(g2)) + Cardinality(Naming(g2[t], b))
  BY <1>0, HeldSplit
<1>4. IsFiniteSet(R(g)) /\ Cardinality(R(g)) \in Nat
  <2>1. R(g) \subseteq HeldBy(g, b)
    OBVIOUS
  <2> QED
    BY <2>1, PagesFinite, FS_Subset, FS_CardinalityType
<1>5. Cardinality(Naming(g[t], b)) \in Nat /\ Cardinality(Naming(g2[t], b)) \in Nat
  BY <1>0, PagesFinite
<1> HIDE DEF R
<1> QED
  BY <1>1, <1>2, <1>3, <1>4, <1>5

\* The pins are natural numbers.
LEMMA PinsTyped == Pins \in [Backings -> Nat] /\ Pins' \in [Backings -> Nat]
<1>1. \A b : Cardinality(HeldBy(Deps, b)) \in Nat /\ Cardinality(HeldBy(Copies, b)) \in Nat
  BY PagesFinite
<1>2. \A b : Cardinality(HeldBy(Deps', b)) \in Nat /\ Cardinality(HeldBy(Copies', b)) \in Nat
  BY PagesFinite
<1> QED
  BY <1>1, <1>2 DEF Pins

\* How a step of thread t changes the pins.
LEMMA PinsChange ==
    ASSUME TxnTyped, NEW t \in Threads, NEW st, NEW d, NEW sh, NEW c, NEW r, NEW w,
           Becomes(t, st, d, sh, c, r, w),
           DOMAIN d \subseteq TxnPages, DOMAIN c \subseteq TxnPages, NEW b \in Backings
    PROVE  Pins'[b] = Pins[b] - Cardinality(Naming(txn[t].deps, b)) + Cardinality(Naming(d, b))
                      - Cardinality(Naming(txn[t].copies, b)) + Cardinality(Naming(c, b))
<1>1. /\ \A u \in Threads : Deps[u] = txn[u].deps /\ Copies[u] = txn[u].copies
      /\ \A u \in Threads : Deps'[u] = txn'[u].deps /\ Copies'[u] = txn'[u].copies
  BY DEF Deps, Copies
<1>2. /\ Deps'[t] = d /\ Copies'[t] = c
      /\ \A u \in Threads \ {t} : Deps'[u] = Deps[u] /\ Copies'[u] = Copies[u]
  BY <1>1 DEF Becomes
<1>3. DOMAIN txn[t].deps \subseteq TxnPages /\ DOMAIN txn[t].copies \subseteq TxnPages
  BY TxnFields
<1>4. Cardinality(HeldBy(Deps', b)) = Cardinality(HeldBy(Deps, b))
        - Cardinality(Naming(txn[t].deps, b)) + Cardinality(Naming(d, b))
  <2>1. OnlyAt(t, Deps, Deps')
    BY <1>1, <1>2, <1>3 DEF OnlyAt
  <2>2. Cardinality(HeldBy(Deps', b)) = Cardinality(HeldBy(Deps, b))
          - Cardinality(Naming(Deps[t], b)) + Cardinality(Naming(Deps'[t], b))
    BY <2>1, HeldChange
  <2> QED
    BY <1>1, <1>2, <2>2
<1>5. Cardinality(HeldBy(Copies', b)) = Cardinality(HeldBy(Copies, b))
        - Cardinality(Naming(txn[t].copies, b)) + Cardinality(Naming(c, b))
  <2>1. OnlyAt(t, Copies, Copies')
    BY <1>1, <1>2, <1>3 DEF OnlyAt
  <2>2. Cardinality(HeldBy(Copies', b)) = Cardinality(HeldBy(Copies, b))
          - Cardinality(Naming(Copies[t], b)) + Cardinality(Naming(Copies'[t], b))
    BY <2>1, HeldChange
  <2> QED
    BY <1>1, <1>2, <2>2
<1>6. /\ Cardinality(HeldBy(Deps, b)) \in Nat /\ Cardinality(HeldBy(Copies, b)) \in Nat
      /\ Cardinality(Naming(txn[t].deps, b)) \in Nat /\ Cardinality(Naming(d, b)) \in Nat
      /\ Cardinality(Naming(txn[t].copies, b)) \in Nat /\ Cardinality(Naming(c, b)) \in Nat
  BY <1>3, PagesFinite
<1>7. /\ Pins[b] = Cardinality(HeldBy(Deps, b)) + Cardinality(HeldBy(Copies, b))
      /\ Pins'[b] = Cardinality(HeldBy(Deps', b)) + Cardinality(HeldBy(Copies', b))
  BY DEF Pins
<1> QED
  BY <1>4, <1>5, <1>6, <1>7

\* The references to the backings B change by delta, as do the owners O and the
\* pins P that hold them.
Balanced(O, B, P, O2, B2, P2, delta) ==
    /\ DOMAIN B \subseteq Backings
    /\ \A b \in DOMAIN B :
          /\ B[b].refs = Cardinality(Pointing(O, b)) + P[b]
          /\ Cardinality(Pointing(O, b)) \in Nat /\ delta[b] \in Int
          /\ IsFiniteSet(Pointing(O2, b))
          /\ Cardinality(Pointing(O2, b)) + P2[b] = Cardinality(Pointing(O, b)) + P[b] + delta[b]
    /\ DOMAIN B2 = {b \in DOMAIN B : B[b].refs + delta[b] > 0}
    /\ \A b \in DOMAIN B2 : B2[b].refs = B[b].refs + delta[b]
    /\ \A p \in DOMAIN O2 : O2[p] # NoBacking => O2[p] \in DOMAIN B
    /\ \A b \in Backings : P2[b] > 0 => b \in DOMAIN B

\* Counts that are exact before references are given and taken, in the same
\* measure as their holders change, are exact afterwards.
LEMMA RebalanceExact ==
    ASSUME NEW O, NEW B, NEW P \in [Backings -> Nat],
           NEW O2, NEW B2, NEW P2 \in [Backings -> Nat], NEW delta,
           Balanced(O, B, P, O2, B2, P2, delta)
    PROVE  CountsExact(O2, B2, P2)
<1> USE DEF Balanced
<1>1. ASSUME NEW b \in DOMAIN B
      PROVE  /\ B[b].refs + delta[b] = Cardinality(Pointing(O2, b)) + P2[b]
             /\ Cardinality(Pointing(O2, b)) \in Nat /\ P2[b] \in Nat
  <2>1. Cardinality(Pointing(O2, b)) \in Nat
    BY FS_CardinalityType
  <2> QED
    BY <2>1
<1>2. ASSUME NEW p \in DOMAIN O2, O2[p] # NoBacking
      PROVE  O2[p] \in DOMAIN B2
  <2> DEFINE H == Pointing(O2, O2[p])
  <2>1. O2[p] \in DOMAIN B /\ IsFiniteSet(H)
    BY <1>2
  <2>2. H # {}
    BY DEF Pointing
  <2> HIDE DEF H
  <2>3. Cardinality(H) \in Nat /\ Cardinality(H) # 0
    BY <2>1, <2>2, FS_EmptySet, FS_CardinalityType
  <2>4. B[O2[p]].refs + delta[O2[p]] = Cardinality(H) + P2[O2[p]] /\ P2[O2[p]] \in Nat
    BY <1>1, <2>1 DEF H
  <2> DEFINE k == Cardinality(H)
             n == P2[O2[p]]
  <2>6. k \in Nat /\ k # 0 /\ n \in Nat /\ B[O2[p]].refs + delta[O2[p]] = k + n
    BY <2>3, <2>4
  <2> HIDE DEF k, n
  <2>7. k + n > 0
    BY <2>6
  <2>5. B[O2[p]].refs + delta[O2[p]] > 0
    BY <2>6, <2>7
  <2> QED
    BY <2>1, <2>5
<1>3. ASSUME NEW b \in Backings, P2[b] > 0
      PROVE  b \in DOMAIN B2
  <2>1. b \in DOMAIN B
    BY <1>3
  <2>2. B[b].refs + delta[b] > 0
    BY <1>1, <1>3, <2>1
  <2> QED
    BY <2>1, <2>2
<1> QED
  BY <1>1, <1>2, <1>3 DEF CountsExact

\* The counts after a step, by owners.
LEMMA PinnedNext ==
    ASSUME CountsExact(Owners', backings', Pins')
    PROVE  PinnedExact(Pins)'
<1>1. DOMAIN Owners' = DOMAIN pages' /\ \A p \in DOMAIN pages' : Owners'[p] = pages'[p].backing
  BY DEF Owners
<1>2. \A b : Pointing(Owners', b) = {p \in DOMAIN pages' : pages'[p].backing = b}
  BY <1>1 DEF Pointing
<1> QED
  BY <1>1, <1>2 DEF PinnedExact, CountsExact
-----------------------------------------------------------------------------
(* Types and pins, action by action.                                        *)

\* The other threads' transactions keep their shape.
LEMMA TypedNext ==
    ASSUME TxnTyped, NEW t \in Threads, NEW st, NEW d, NEW sh, NEW c, NEW r, NEW w,
           Becomes(t, st, d, sh, c, r, w),
           DOMAIN sh \subseteq DOMAIN d, DOMAIN c \subseteq DOMAIN sh,
           r \cup w # {} => st = "copying",
           st \notin {"copying", "unpinning"} => DOMAIN c = {}
    PROVE  TxnTyped'
<1>1. WellShaped(txn'[t])
  BY DEF Becomes, WellShaped
<1>2. \A u \in Threads \ {t} : WellShaped(txn'[u])
  <2>1. \A u \in Threads \ {t} : txn'[u] = txn[u]
    BY DEF Becomes
  <2> QED
    BY <2>1 DEF TxnTyped
<1>3. txn' \in [Threads -> Txn]
  BY DEF Becomes
<1> QED
  BY <1>1, <1>2, <1>3 DEF TxnTyped

\* A step that changes no backing of a dependency or copy changes no pin.
LEMMA PinsSame ==
    ASSUME TxnTyped, NEW t \in Threads, NEW st, NEW d, NEW sh, NEW c, NEW r, NEW w,
           Becomes(t, st, d, sh, c, r, w),
           \A b : Naming(d, b) = Naming(txn[t].deps, b),
           \A b : Naming(c, b) = Naming(txn[t].copies, b),
           DOMAIN d \subseteq TxnPages, DOMAIN c \subseteq TxnPages
    PROVE  Pins' = Pins
<1>1. ASSUME NEW b \in Backings PROVE Pins'[b] = Pins[b]
  <2> DEFINE x == Cardinality(Naming(d, b))
             y == Cardinality(Naming(c, b))
  <2>1. x \in Nat /\ y \in Nat
    BY PagesFinite
  <2>2. Cardinality(Naming(txn[t].deps, b)) = x /\ Cardinality(Naming(txn[t].copies, b)) = y
    BY Zenon
  <2>3. Pins'[b] = Pins[b] - Cardinality(Naming(txn[t].deps, b)) + x
                   - Cardinality(Naming(txn[t].copies, b)) + y
    BY PinsChange
  <2>4. Pins'[b] = Pins[b] - x + x - y + y
    BY <2>2, <2>3
  <2>5. Pins[b] \in Nat
    BY PinsTyped
  <2> HIDE DEF x, y
  <2> QED
    BY <2>1, <2>4, <2>5
<1> QED
  BY <1>1, PinsTyped

\* Pins and references that do not change stay exact.
LEMMA RefsSame ==
    ASSUME TInv, Pins' = Pins, DOMAIN pages' = DOMAIN pages,
           \A p \in DOMAIN pages : pages'[p].backing = pages[p].backing,
           DOMAIN backings' = DOMAIN backings,
           \A b \in DOMAIN backings : backings'[b].refs = backings[b].refs
    PROVE  PinnedExact(Pins)'
<1>1. ASSUME NEW b
      PROVE  {p \in DOMAIN pages' : pages'[p].backing = b}
               = {p \in DOMAIN pages : pages[p].backing = b}
  OBVIOUS
<1> QED
  BY <1>1 DEF PinnedExact, TInv

\* A step of thread t that leaves memory, dependencies and copies alone.
LEMMA QuietStep ==
    ASSUME TInv, NEW t \in Threads, NEW st, NEW sh, NEW r, NEW w, UNCHANGED memoryVars,
           Becomes(t, st, txn[t].deps, sh, txn[t].copies, r, w), TxnTyped'
    PROVE  TInv'
<1>1. TypeOK'
  BY DEF TInv, TypeOK, memoryVars
<1>2. TxnTyped /\ DOMAIN txn[t].deps \subseteq TxnPages /\ DOMAIN txn[t].copies \subseteq TxnPages
  BY TxnFields DEF TInv
<1>3. Pins' = Pins
  BY <1>2, PinsSame
<1>4. PinnedExact(Pins)'
  BY <1>3, RefsSame DEF memoryVars
<1> QED
  BY <1>1, <1>4 DEF TInv

\* Changing only the stage, before or after a commit.
LEMMA StageStep ==
    ASSUME TInv, NEW t \in Threads, NEW x \in Stages \ {"copying", "unpinning"},
           txn[t].stage \notin {"copying", "unpinning"},
           txn' = [txn EXCEPT ![t].stage = x], UNCHANGED memoryVars
    PROVE  TInv'
<1>1. TxnTyped
  BY DEF TInv
<1>2. Becomes(t, x, txn[t].deps, txn[t].shadow, txn[t].copies, txn[t].reading, txn[t].writing)
  BY <1>1, StageBecomes
<1>3. WellShaped(txn[t])
  BY <1>1 DEF TxnTyped
<1>4. TxnTyped'
  BY <1>1, <1>2, <1>3, TypedNext DEF WellShaped
<1> QED
  BY <1>2, <1>4, QuietStep

\* gem_memory_transaction_begin
LEMMA BeginKeeps == ASSUME TInv, NEW t \in Threads, Begin(t) PROVE TInv'
BY StageStep DEF Begin, Stages

\* gem_memory_transaction_finish
LEMMA FinishKeeps == ASSUME TInv, NEW t \in Threads, Finish(t) PROVE TInv'
<1> DEFINE x == IF AllCurrent(t) THEN "committed" ELSE "conflicted"
<1>1. x \in Stages \ {"copying", "unpinning"}
  BY DEF Stages
<1>2. txn' = [txn EXCEPT ![t].stage = x] /\ UNCHANGED memoryVars
      /\ txn[t].stage \notin {"copying", "unpinning"}
  BY DEF Finish
<1> HIDE DEF x
<1> QED
  BY <1>1, <1>2, StageStep

\* A commit that is refused.
LEMMA CommitFailsKeeps ==
    ASSUME TInv, NEW t \in Threads, NEW W, CommitFails(t, W)
    PROVE  TInv'
<1>1. txn' = [txn EXCEPT ![t].stage = "stopping"] /\ UNCHANGED memoryVars
      /\ txn[t].stage \notin {"copying", "unpinning"}
  BY DEF CommitFails, CommitReady, Stop
<1> QED
  BY <1>1, StageStep DEF Stages

\* The stripes are released when everything is copied.
LEMMA ReleaseStripesKeeps ==
    ASSUME TInv, NEW t \in Threads, ReleaseStripes(t)
    PROVE  TInv'
<1>1. TxnTyped
  BY DEF TInv
<1>2. Becomes(t, "unpinning", txn[t].deps, txn[t].shadow, txn[t].copies, {}, {})
  BY <1>1, ReleaseBecomes DEF ReleaseStripes, Stages
<1>3. WellShaped(txn[t])
  BY <1>1 DEF TxnTyped
<1>4. TxnTyped'
  BY <1>1, <1>2, <1>3, TypedNext DEF WellShaped
<1>5. UNCHANGED memoryVars
  BY DEF ReleaseStripes
<1> QED
  BY <1>2, <1>4, <1>5, QuietStep

\* What a committed page looks like.
LEMMA CommittedTyped ==
    ASSUME TInv, NEW a, CommittedPage(a)
    PROVE  /\ a \in DOMAIN pages /\ pages[a] \in Page
           /\ pages[a].backing \in Backings /\ pages[a].backing \in DOMAIN backings
           /\ backings[pages[a].backing] \in Backing
<1>1. a \in DOMAIN pages /\ pages[a].backing # NoBacking
  BY DEF CommittedPage, MappedBacking
<1>2. pages[a] \in Page
  BY <1>1 DEF TInv, TypeOK
<1>3. pages[a].backing \in DOMAIN backings
  BY <1>1 DEF TInv, PinnedExact
<1> QED
  BY <1>1, <1>2, <1>3 DEF TInv, TypeOK

\* What is recorded of a live backing has its type.
LEMMA ContentTyped ==
    ASSUME TInv, NEW b \in DOMAIN backings
    PROVE  /\ Content(b) \in Contents
           /\ HashOf(b) \in Hashes
<1>1. backings[b] \in Backing /\ host \in [HostPages -> Contents]
  BY DEF TInv, TypeOK
<1>2. Content(b) \in Contents
  BY <1>1 DEF Content, External, Backing
<1> QED
  BY <1>2 DEF HashOf, Hashes

\* What is recorded about a page when it is first touched.
LEMMA DependencyTyped ==
    ASSUME TInv, NEW a, CommittedPage(a)
    PROVE  NewDependency(a) \in Dependency /\ NewDependency(a).backing = pages[a].backing
<1> DEFINE b == pages[a].backing
<1>1. /\ pages[a] \in Page /\ b \in Backings /\ b \in DOMAIN backings /\ backings[b] \in Backing
  BY CommittedTyped
<1>2. HashOf(b) \in Hashes
  BY <1>1, ContentTyped
<1>3. External(b) \in BOOLEAN
  BY DEF External
<1>4. /\ pages[a].generation \in Nat /\ pages[a].protection \in Protection
      /\ backings[b].generation \in Nat
  BY <1>1 DEF Page, Backing
<1>5. NewDependency(a)
        = [generation |-> pages[a].generation, contentGeneration |-> backings[b].generation,
           hash |-> HashOf(b), backing |-> b, protection |-> pages[a].protection,
           external |-> External(b)]
  BY DEF NewDependency
<1> HIDE DEF b
<1> QED
  BY <1>1, <1>2, <1>3, <1>4, <1>5 DEF Dependency, b

\* The number of pages that point to a live backing.
LEMMA OwnersCounted ==
    ASSUME TInv
    PROVE  /\ CountsExact(Owners, backings, Pins) /\ Pins \in [Backings -> Nat]
           /\ DOMAIN backings \subseteq Backings /\ DOMAIN Owners = DOMAIN pages
           /\ \A b : IsFiniteSet(Pointing(Owners, b)) /\ Cardinality(Pointing(Owners, b)) \in Nat
<1>1. TypeOK /\ PinnedExact(Pins) /\ Pins \in [Backings -> Nat]
  BY PinsTyped DEF TInv
<1>2. DOMAIN Owners = DOMAIN pages /\ DOMAIN Owners \subseteq Address
  BY <1>1 DEF Owners, TypeOK
<1>3. \A b : IsFiniteSet(Pointing(Owners, b))
  BY <1>1, <1>2, PointingFinite
<1>4. \A b : Cardinality(Pointing(Owners, b)) \in Nat
  BY <1>3, FS_CardinalityType
<1>5. CountsExact(Owners, backings, Pins)
  BY <1>1, ExactByOwners
<1> QED
  BY <1>1, <1>2, <1>3, <1>4, <1>5 DEF TypeOK

\* A step that gives and takes references of live backings while the pages keep
\* theirs.
LEMMA PinStep ==
    ASSUME TInv, NEW delta,
           \A b \in DOMAIN backings : delta[b] \in Int /\ Pins'[b] = Pins[b] + delta[b],
           \A b \in Backings \ DOMAIN backings : Pins'[b] = 0,
           pages' = pages,
           DOMAIN backings' = {b \in DOMAIN backings : backings[b].refs + delta[b] > 0},
           \A b \in DOMAIN backings' : backings'[b].refs = backings[b].refs + delta[b]
    PROVE  PinnedExact(Pins)'
<1>1. /\ CountsExact(Owners, backings, Pins) /\ Pins \in [Backings -> Nat]
      /\ DOMAIN backings \subseteq Backings
      /\ \A b : IsFiniteSet(Pointing(Owners, b)) /\ Cardinality(Pointing(Owners, b)) \in Nat
  BY OwnersCounted
<1>2. Owners' = Owners
  BY DEF Owners
<1>3. Pins' \in [Backings -> Nat]
  BY PinsTyped
<1>4. ASSUME NEW b \in DOMAIN backings
      PROVE  /\ backings[b].refs = Cardinality(Pointing(Owners, b)) + Pins[b]
             /\ Cardinality(Pointing(Owners, b)) \in Nat /\ delta[b] \in Int
             /\ IsFiniteSet(Pointing(Owners, b))
             /\ Cardinality(Pointing(Owners, b)) + Pins'[b]
                  = Cardinality(Pointing(Owners, b)) + Pins[b] + delta[b]
  <2>1. backings[b].refs = Cardinality(Pointing(Owners, b)) + Pins[b]
    BY <1>1 DEF CountsExact
  <2>2. Cardinality(Pointing(Owners, b)) \in Nat /\ Pins[b] \in Nat
    BY <1>1
  <2> QED
    BY <1>1, <2>1, <2>2
<1>5. \A p \in DOMAIN Owners : Owners[p] # NoBacking => Owners[p] \in DOMAIN backings
  BY <1>1 DEF CountsExact
<1>6. \A b \in Backings : Pins'[b] > 0 => b \in DOMAIN backings
  OBVIOUS
<1>7. Balanced(Owners, backings, Pins, Owners, backings', Pins', delta)
  BY <1>1, <1>4, <1>5, <1>6 DEF Balanced
<1>8. CountsExact(Owners, backings', Pins')
  BY <1>1, <1>3, <1>7, RebalanceExact
<1> QED
  BY <1>2, <1>8, PinnedNext

\* One more reference, held by the dependency that t records for a.
LEMMA Recorded ==
    ASSUME TInv, NEW t \in Threads, NEW a \in TxnPages, CommittedPage(a),
           a \notin DOMAIN txn[t].deps, backings' = Pin(pages[a].backing),
           UNCHANGED <<alive, pages, host, nextGen>>,
           NEW d, d = Merge(txn[t].deps, [x \in {a} |-> NewDependency(a)]),
           NEW st, NEW sh, NEW r, NEW w, Becomes(t, st, d, sh, txn[t].copies, r, w), TxnTyped'
    PROVE  TInv'
<1> DEFINE pb == pages[a].backing
           delta == [b \in DOMAIN backings |-> IF b = pb THEN 1 ELSE 0]
<1>1. /\ pb \in Backings /\ pb \in DOMAIN backings /\ backings[pb] \in Backing
      /\ NewDependency(a).backing = pb
  BY CommittedTyped, DependencyTyped
<1>2. TypeOK /\ TxnTyped /\ \A b \in DOMAIN backings : backings[b] \in Backing
  BY DEF TInv, TypeOK
<1>3. DOMAIN txn[t].deps \subseteq TxnPages /\ DOMAIN txn[t].copies \subseteq TxnPages
  BY <1>2, TxnFields
<1>4. /\ DOMAIN d = DOMAIN txn[t].deps \cup {a} /\ d[a] = NewDependency(a)
      /\ \A x \in DOMAIN txn[t].deps : d[x] = txn[t].deps[x]
  BY DEF Merge
<1>5. ASSUME NEW b \in Backings
      PROVE  Pins'[b] = Pins[b] + (IF b = pb THEN 1 ELSE 0)
  <2> DEFINE n == Cardinality(Naming(txn[t].deps, b))
             m == Cardinality(Naming(d, b))
             k == Cardinality(Naming(txn[t].copies, b))
  <2>1. Pins'[b] = Pins[b] - n + m - k + k
    BY <1>2, <1>3, <1>4, PinsChange
  <2>2. IsFiniteSet(Naming(txn[t].deps, b)) /\ n \in Nat /\ k \in Nat /\ Pins[b] \in Nat
    BY <1>3, PagesFinite, PinsTyped
  <2>3. m = n + (IF b = pb THEN 1 ELSE 0)
    <3>1. CASE b = pb
      <4>1. Naming(d, b) = Naming(txn[t].deps, b) \cup {a} /\ a \notin Naming(txn[t].deps, b)
        BY <1>1, <1>4, <3>1 DEF Naming
      <4> QED
        BY <2>2, <3>1, <4>1, FS_AddElement
    <3>2. CASE b # pb
      <4>1. Naming(d, b) = Naming(txn[t].deps, b)
        BY <1>1, <1>4, <3>2 DEF Naming
      <4> QED
        BY <2>2, <3>2, <4>1
    <3> QED
      BY <3>1, <3>2
  <2> HIDE DEF n, m, k, pb
  <2> QED
    BY <2>1, <2>2, <2>3
<1>6. /\ DOMAIN backings' = DOMAIN backings
      /\ \A b \in DOMAIN backings : backings'[b].refs = backings[b].refs + delta[b]
      /\ \A b \in DOMAIN backings : backings'[b] \in Backing
  BY <1>1, <1>2 DEF Pin, Backing
<1>7. \A b \in DOMAIN backings : delta[b] \in Int /\ backings[b].refs + delta[b] > 0
  <2>1. \A b \in DOMAIN backings : backings[b].refs \in Nat /\ backings[b].refs > 0
    BY <1>2 DEF TInv, PinnedExact, Backing
  <2> QED
    BY <2>1
<1>8. /\ \A b \in DOMAIN backings : Pins'[b] = Pins[b] + delta[b]
      /\ \A b \in Backings \ DOMAIN backings : Pins'[b] = 0
  <2>1. \A b \in DOMAIN backings : b \in Backings
    BY <1>2 DEF TypeOK
  <2>2. \A b \in Backings \ DOMAIN backings : b # pb /\ Pins[b] = 0
    BY <1>1, PinsTyped DEF TInv, PinnedExact
  <2> HIDE DEF pb
  <2> QED
    BY <1>5, <2>1, <2>2
<1> HIDE DEF delta, pb
<1>9. PinnedExact(Pins)'
  BY <1>6, <1>7, <1>8, PinStep
<1>10. TypeOK'
  BY <1>2, <1>6 DEF TypeOK
<1> QED
  BY <1>9, <1>10 DEF TInv

\* The bytes of a page are added to what t has read.
LEMMA ShadowTyped ==
    ASSUME TInv, NEW t \in Threads, NEW a \in TxnPages, CommittedPage(a),
           NEW sh, sh = Merge(txn[t].shadow, [x \in {a} |-> Content(pages[a].backing)])
    PROVE  sh \in Partial(TxnPages, Contents) /\ DOMAIN sh = DOMAIN txn[t].shadow \cup {a}
<1>1. Content(pages[a].backing) \in Contents
  BY CommittedTyped, ContentTyped
<1>2. txn[t].shadow \in Partial(TxnPages, Contents)
  BY TxnFields DEF TInv
<1>3. DOMAIN sh = DOMAIN txn[t].shadow \cup {a}
  BY DEF Merge
<1>4. sh \in Partial(TxnPages, Contents)
  BY Zenon, <1>1, <1>2, MergeOne
<1> QED
  BY <1>3, <1>4

\* A dependency is added to those of t.
LEMMA DepsTyped ==
    ASSUME TInv, NEW t \in Threads, NEW a \in TxnPages, CommittedPage(a),
           NEW d, d = Merge(txn[t].deps, [x \in {a} |-> NewDependency(a)])
    PROVE  d \in Partial(TxnPages, Dependency) /\ DOMAIN d = DOMAIN txn[t].deps \cup {a}
<1>1. NewDependency(a) \in Dependency
  BY DependencyTyped
<1>2. txn[t].deps \in Partial(TxnPages, Dependency)
  BY TxnFields DEF TInv
<1>3. DOMAIN d = DOMAIN txn[t].deps \cup {a}
  BY DEF Merge
<1>4. d \in Partial(TxnPages, Dependency)
  BY Zenon, <1>1, <1>2, MergeOne
<1> QED
  BY <1>3, <1>4

\* gem_memory_transaction_validate: recording a page
LEMMA RecordKeeps ==
    ASSUME TInv, NEW t \in Threads, NEW a \in TxnPages, Record(t, a)
    PROVE  TInv'
<1> DEFINE d == Merge(txn[t].deps, [x \in {a} |-> NewDependency(a)])
<1>1. TxnTyped /\ WellShaped(txn[t]) /\ txn[t].stage = "open" /\ CommittedPage(a)
  BY DEF TInv, TxnTyped, Record
<1>2. d \in Partial(TxnPages, Dependency) /\ DOMAIN d = DOMAIN txn[t].deps \cup {a}
  BY <1>1, DepsTyped
<1>3. txn' = [txn EXCEPT ![t].deps = d]
  BY DEF Record
<1> HIDE DEF d
<1>4. Becomes(t, txn[t].stage, d, txn[t].shadow, txn[t].copies, txn[t].reading, txn[t].writing)
  BY <1>1, <1>2, <1>3, RecordBecomes
<1>5. TxnTyped'
  BY <1>1, <1>2, <1>4, TypedNext DEF WellShaped
<1> QED
  BY <1>1, <1>4, <1>5, Recorded DEF Record, d

\* gem_memory_transaction_snapshot_page
LEMMA SnapshotKeeps ==
    ASSUME TInv, NEW t \in Threads, NEW a \in TxnPages, Snapshot(t, a)
    PROVE  TInv'
<1> DEFINE d == Merge(txn[t].deps, [x \in {a} |-> NewDependency(a)])
           sh == Merge(txn[t].shadow, [x \in {a} |-> Content(pages[a].backing)])
<1>1. TxnTyped /\ WellShaped(txn[t]) /\ txn[t].stage = "open" /\ CommittedPage(a)
  BY DEF TInv, TxnTyped, Snapshot
<1>2. d \in Partial(TxnPages, Dependency) /\ DOMAIN d = DOMAIN txn[t].deps \cup {a}
  BY <1>1, DepsTyped
<1>3. sh \in Partial(TxnPages, Contents) /\ DOMAIN sh = DOMAIN txn[t].shadow \cup {a}
  BY <1>1, ShadowTyped
<1>4. UNCHANGED <<alive, pages, host, nextGen>>
  BY DEF Snapshot
<1>8. /\ DOMAIN txn[t].shadow \subseteq DOMAIN txn[t].deps /\ DOMAIN txn[t].copies = {}
      /\ txn[t].reading \cup txn[t].writing = {}
  BY <1>1 DEF WellShaped
<1>5. CASE /\ a \notin DOMAIN txn[t].deps /\ backings' = Pin(pages[a].backing)
           /\ txn' = [txn EXCEPT ![t].deps = d, ![t].shadow = sh]
  <2> HIDE DEF d, sh
  <2>1. Becomes(t, txn[t].stage, d, sh, txn[t].copies, txn[t].reading, txn[t].writing)
    BY <1>1, <1>2, <1>3, <1>5, SnapshotBecomes
  <2>2. TxnTyped'
    <3>1. DOMAIN sh \subseteq DOMAIN d /\ DOMAIN txn[t].copies \subseteq DOMAIN sh
      BY <1>2, <1>3, <1>8
    <3> QED
      BY <1>1, <1>8, <2>1, <3>1, TypedNext
  <2> QED
    BY <1>1, <1>4, <1>5, <2>1, <2>2, Recorded DEF d
<1>6. CASE /\ a \in DOMAIN txn[t].deps /\ txn' = [txn EXCEPT ![t].shadow = sh]
           /\ UNCHANGED backings
  <2> HIDE DEF d, sh
  <2>1. Becomes(t, txn[t].stage, txn[t].deps, sh, txn[t].copies, txn[t].reading, txn[t].writing)
    BY <1>1, <1>3, <1>6, ReadBecomes
  <2>2. TxnTyped'
    <3>1. DOMAIN sh \subseteq DOMAIN txn[t].deps /\ DOMAIN txn[t].copies \subseteq DOMAIN sh
      BY <1>3, <1>6, <1>8
    <3> QED
      BY <1>1, <1>8, <2>1, <3>1, TypedNext
  <2>3. UNCHANGED memoryVars
    BY <1>4, <1>6 DEF memoryVars
  <2> QED
    BY <2>1, <2>2, <2>3, QuietStep
<1>7. CASE Stop(t) /\ UNCHANGED backings
  <2>1. UNCHANGED memoryVars
    BY <1>4, <1>7 DEF memoryVars
  <2> QED
    BY <1>1, <1>7, <2>1, StageStep DEF Stop, Stages
<1> QED
  BY <1>5, <1>6, <1>7 DEF Snapshot

\* A protection without its guard.
LEMMA ProtectionUnguarded ==
    ASSUME NEW p \in Protection PROVE [p EXCEPT !.guard = FALSE] \in Protection
BY DEF Protection

\* A page without its guard.
LEMMA PageUnguarded ==
    ASSUME NEW p \in Page, NEW g \in Nat,
           NEW q, q = [p EXCEPT !.protection.guard = FALSE, !.generation = g]
    PROVE  q \in Page /\ q.backing = p.backing
<1>1. [p.protection EXCEPT !.guard = FALSE] \in Protection
  BY ProtectionUnguarded DEF Page
<1>2. q = [p EXCEPT !.protection = [p.protection EXCEPT !.guard = FALSE], !.generation = g]
  OBVIOUS
<1> QED
  BY <1>1, <1>2 DEF Page

\* What is recorded of a page whose guard an access has taken off.
LEMMA ValidatedTyped ==
    ASSUME NEW d \in Dependency, NEW g \in Nat,
           NEW h \in Hashes,
           NEW q, q = [d EXCEPT !.protection.guard = FALSE, !.generation = g, !.hash = h]
    PROVE  q \in Dependency /\ q.backing = d.backing
<1>1. [d.protection EXCEPT !.guard = FALSE] \in Protection
  BY ProtectionUnguarded DEF Dependency
<1>2. q = [d EXCEPT !.protection = [d.protection EXCEPT !.guard = FALSE], !.generation = g,
                    !.hash = h]
  OBVIOUS
<1> QED
  BY <1>1, <1>2 DEF Dependency

\* What is recorded of a page whose guard a commit has taken off.
LEMMA GuardTakenTyped ==
    ASSUME NEW d \in Dependency, NEW g \in Nat,
           NEW q, q = [d EXCEPT !.protection.guard = FALSE, !.generation = g]
    PROVE  q \in Dependency /\ q.backing = d.backing
<1>1. [d.protection EXCEPT !.guard = FALSE] \in Protection
  BY ProtectionUnguarded DEF Dependency
<1>2. q = [d EXCEPT !.protection = [d.protection EXCEPT !.guard = FALSE], !.generation = g]
  OBVIOUS
<1> QED
  BY <1>1, <1>2 DEF Dependency

\* A step of t that changes the record q of a recorded page a, but not its
\* backing, and takes the guard off the page.
LEMMA GuardStep ==
    ASSUME TInv, NEW t \in Threads, NEW a \in DOMAIN txn[t].deps, a \in DOMAIN pages,
           NEW q \in Dependency, q.backing = txn[t].deps[a].backing,
           pages' = [pages EXCEPT ![a].protection.guard = FALSE, ![a].generation = nextGen + 1],
           nextGen' = nextGen + 1, UNCHANGED <<alive, backings, host>>,
           txn[t].stage = "open",
           Becomes(t, "stopping", [txn[t].deps EXCEPT ![a] = q], Without(txn[t].shadow, a),
                   txn[t].copies, txn[t].reading, txn[t].writing)
    PROVE  TInv'
<1> DEFINE d == [txn[t].deps EXCEPT ![a] = q]
           sh == Without(txn[t].shadow, a)
<1>1. TypeOK /\ TxnTyped /\ WellShaped(txn[t])
  BY DEF TInv, TxnTyped
<1>2. /\ DOMAIN txn[t].shadow \subseteq DOMAIN txn[t].deps /\ DOMAIN txn[t].copies = {}
      /\ txn[t].reading \cup txn[t].writing = {}
  BY <1>1 DEF WellShaped
<1>3. /\ txn[t].deps \in Partial(TxnPages, Dependency)
      /\ txn[t].shadow \in Partial(TxnPages, Contents) /\ DOMAIN txn[t].deps \subseteq TxnPages
  BY <1>1, TxnFields
<1>4. /\ DOMAIN d = DOMAIN txn[t].deps
      /\ \A b : Naming(d, b) = Naming(txn[t].deps, b)
  BY DEF Naming
<1>5. DOMAIN sh = DOMAIN txn[t].shadow \ {a}
  BY DEF Without
<1>6. DOMAIN sh \subseteq DOMAIN d /\ DOMAIN txn[t].copies \subseteq DOMAIN sh
  BY <1>2, <1>4, <1>5
<1> HIDE DEF d, sh
<1>7. Becomes(t, "stopping", d, sh, txn[t].copies, txn[t].reading, txn[t].writing)
  BY DEF d, sh
<1>8. TxnTyped'
  BY <1>1, <1>2, <1>6, <1>7, TypedNext
<1>9. Pins' = Pins
  <2>1. DOMAIN d \subseteq TxnPages /\ DOMAIN txn[t].copies \subseteq TxnPages
    BY <1>2, <1>3, <1>4
  <2> QED
    BY <1>1, <1>4, <1>7, <2>1, PinsSame
<1>10. pages[a] \in Page /\ nextGen + 1 \in Nat
  BY <1>1 DEF TypeOK
<1>11. pages' = [pages EXCEPT ![a] = [pages[a] EXCEPT !.protection.guard = FALSE,
                                                     !.generation = nextGen + 1]]
  OBVIOUS
<1>12. /\ DOMAIN pages' = DOMAIN pages /\ pages'[a] \in Page
       /\ pages'[a].backing = pages[a].backing
       /\ \A p \in DOMAIN pages \ {a} : pages'[p] = pages[p]
  <2> DEFINE q0 == [pages[a] EXCEPT !.protection.guard = FALSE, !.generation = nextGen + 1]
  <2>1. q0 \in Page /\ q0.backing = pages[a].backing
    BY <1>10, PageUnguarded
  <2>2. pages' = [pages EXCEPT ![a] = q0]
    BY <1>11
  <2> HIDE DEF q0
  <2> QED
    BY <2>1, <2>2
<1>13. TypeOK'
  BY <1>1, <1>10, <1>12 DEF TypeOK
<1>14. PinnedExact(Pins)'
  BY <1>9, <1>12, RefsSame
<1> QED
  BY <1>8, <1>13, <1>14 DEF TInv

\* gem_memory_transaction_validate: the access
LEMMA ValidateKeeps ==
    ASSUME TInv, NEW t \in Threads, NEW a \in TxnPages, NEW mode, Validate(t, a, mode)
    PROVE  TInv'
<1> DEFINE old == txn[t].deps[a]
           h == HashOf(old.backing)
           q == [old EXCEPT !.protection.guard = FALSE, !.generation = nextGen + 1, !.hash = h]
           sh == Without(txn[t].shadow, a)
<1>1. txn[t].stage = "open" /\ a \in DOMAIN txn[t].deps
  BY DEF Validate
<1>2. CASE Stop(t) /\ UNCHANGED memoryVars
  BY <1>1, <1>2, StageStep DEF Stop, Stages
<1>3. CASE /\ SameMapping(a, old)
           /\ pages' = [pages EXCEPT ![a].protection.guard = FALSE,
                                     ![a].generation = nextGen + 1]
           /\ nextGen' = nextGen + 1 /\ UNCHANGED <<alive, backings, host>>
           /\ txn' = [txn EXCEPT ![t].stage = "stopping",
                                 ![t].deps[a] = [@ EXCEPT !.protection.guard = FALSE,
                                                          !.generation = nextGen + 1,
                                                          !.hash = h],
                                 ![t].shadow = sh]
  <2>1. TxnTyped /\ nextGen + 1 \in Nat
    BY DEF TInv, TypeOK
  <2>2. /\ txn[t].deps \in Partial(TxnPages, Dependency) /\ old \in Dependency
        /\ txn[t].shadow \in Partial(TxnPages, Contents)
    BY <1>1, <2>1, TxnFields
  <2>3. a \in DOMAIN pages /\ pages[a].backing = old.backing /\ old.backing \in Backings
    BY <1>3, <2>2 DEF SameMapping, Dependency
  <2>4. old.backing \in DOMAIN backings
    BY <2>3, BackingAssumption DEF TInv, PinnedExact
  <2>5. h \in Hashes
    BY <2>4, ContentTyped
  <2> HIDE DEF h
  <2>6. q \in Dependency /\ q.backing = old.backing
    <3>1. q = [old EXCEPT !.protection.guard = FALSE, !.generation = nextGen + 1, !.hash = h]
      OBVIOUS
    <3> HIDE DEF old, q
    <3> QED
      BY <2>1, <2>2, <2>5, <3>1, ValidatedTyped
  <2>7. sh \in Partial(TxnPages, Contents)
    BY <2>2, WithoutPartial
  <2>8. [txn[t].deps EXCEPT ![a] = q] \in Partial(TxnPages, Dependency)
    BY <1>1, <2>2, <2>6, ExceptPartial
  <2> HIDE DEF sh
  <2>9. Becomes(t, "stopping", [txn[t].deps EXCEPT ![a] = q], sh, txn[t].copies,
                txn[t].reading, txn[t].writing)
    BY <1>3, <2>1, <2>7, <2>8, ValidateBecomes DEF Stages
  <2> HIDE DEF q, old
  <2> QED
    BY <1>1, <1>3, <2>3, <2>6, <2>9, GuardStep DEF sh, old
<1> QED
  BY <1>1, <1>2, <1>3 DEF Validate

\* A commit that finds a guard
LEMMA CommitGuardKeeps ==
    ASSUME TInv, NEW t \in Threads, NEW W, CommitGuard(t, W)
    PROVE  TInv'
<1>1. PICK a \in W :
        /\ pages' = [pages EXCEPT ![a].protection.guard = FALSE, ![a].generation = nextGen + 1]
        /\ txn' = [txn EXCEPT ![t].stage = "stopping",
                              ![t].deps[a] = [@ EXCEPT !.protection.guard = FALSE,
                                                       !.generation = nextGen + 1],
                              ![t].shadow = Without(@, a)]
  BY DEF CommitGuard
<1> DEFINE old == txn[t].deps[a]
           q == [old EXCEPT !.protection.guard = FALSE, !.generation = nextGen + 1]
           sh == Without(txn[t].shadow, a)
<1>2. /\ txn[t].stage = "open" /\ W \subseteq DOMAIN txn[t].shadow /\ CommittedPage(a)
      /\ nextGen' = nextGen + 1 /\ UNCHANGED <<alive, backings, host>>
  BY DEF CommitGuard, CommitReady, WritablePages
<1>3. TxnTyped /\ nextGen + 1 \in Nat
  BY DEF TInv, TypeOK
<1>4. /\ txn[t].deps \in Partial(TxnPages, Dependency)
      /\ txn[t].shadow \in Partial(TxnPages, Contents)
      /\ a \in DOMAIN txn[t].deps /\ old \in Dependency
  BY <1>2, <1>3, TxnFields
<1>5. a \in DOMAIN pages
  BY <1>2, CommittedTyped
<1>6. q \in Dependency /\ q.backing = old.backing
  BY <1>3, <1>4, GuardTakenTyped
<1>7. sh \in Partial(TxnPages, Contents)
  BY <1>4, WithoutPartial
<1>8. [txn[t].deps EXCEPT ![a] = q] \in Partial(TxnPages, Dependency)
  BY <1>4, <1>6, ExceptPartial
<1>9. Becomes(t, "stopping", [txn[t].deps EXCEPT ![a] = q], sh, txn[t].copies,
              txn[t].reading, txn[t].writing)
  BY <1>1, <1>3, <1>7, <1>8, GuardBecomes DEF Stages
<1> HIDE DEF q, old
<1> QED
  BY <1>1, <1>2, <1>4, <1>5, <1>6, <1>9, GuardStep DEF old

\* Who is named by a dependency or by a copy is alive.
LEMMA PinnedAlive ==
    ASSUME TInv, NEW t \in Threads
    PROVE  /\ \A a \in DOMAIN txn[t].deps : txn[t].deps[a].backing \in DOMAIN backings
           /\ \A a \in DOMAIN txn[t].copies : txn[t].copies[a].backing \in DOMAIN backings
<1>1. TxnTyped
  BY DEF TInv
<1>2. ASSUME NEW b \in Backings, NEW g, NEW x \in HeldBy(g, b), g = Deps \/ g = Copies
      PROVE  b \in DOMAIN backings
  <2> DEFINE m == Cardinality(HeldBy(Deps, b))
             n == Cardinality(HeldBy(Copies, b))
  <2>1. m \in Nat /\ n \in Nat
    BY PagesFinite
  <2>2. IsFiniteSet(HeldBy(g, b)) /\ HeldBy(g, b) # {}
    BY PagesFinite
  <2>3. Cardinality(HeldBy(g, b)) # 0
    BY <2>2, FS_EmptySet
  <2>4. m # 0 \/ n # 0
    BY <1>2, <2>3
  <2>5. Pins[b] = m + n
    BY DEF Pins
  <2> HIDE DEF m, n
  <2>6. Pins[b] > 0
    BY <2>1, <2>4, <2>5
  <2> QED
    BY <2>6 DEF TInv, PinnedExact
<1>3. ASSUME NEW a \in DOMAIN txn[t].deps
      PROVE  txn[t].deps[a].backing \in DOMAIN backings
  <2>1. a \in TxnPages /\ txn[t].deps[a].backing \in Backings
    BY <1>1, TxnFields DEF Dependency
  <2>2. <<t, a>> \in HeldBy(Deps, txn[t].deps[a].backing)
    BY <2>1 DEF HeldBy, Deps
  <2> QED
    BY <1>2, <2>1, <2>2
<1>4. ASSUME NEW a \in DOMAIN txn[t].copies
      PROVE  txn[t].copies[a].backing \in DOMAIN backings
  <2>1. a \in TxnPages /\ txn[t].copies[a].backing \in Backings
    BY <1>1, TxnFields DEF Copy
  <2>2. <<t, a>> \in HeldBy(Copies, txn[t].copies[a].backing)
    BY <2>1 DEF HeldBy, Copies
  <2> QED
    BY <1>2, <2>1, <2>2
<1> QED
  BY <1>3, <1>4

\* One line of a commit
LEMMA CopyLineKeeps ==
    ASSUME TInv, NEW t \in Threads, CopyLine(t)
    PROVE  TInv'
<1> DEFINE c == txn[t].copies
<1>1. PICK a \in DOMAIN c, l \in Lines :
        /\ l \in c[a].left
        /\ backings' = [backings EXCEPT ![c[a].backing].data[l] = txn[t].shadow[a][l]]
        /\ txn' = [txn EXCEPT ![t].copies[a] = [@ EXCEPT !.left = txn[t].copies[a].left \ {l}]]
  BY DEF CopyLine
<1> DEFINE pb == c[a].backing
           q == [c[a] EXCEPT !.left = c[a].left \ {l}]
           c2 == [c EXCEPT ![a] = q]
           data == [backings[pb].data EXCEPT ![l] = txn[t].shadow[a][l]]
<1>2. /\ TypeOK /\ TxnTyped /\ WellShaped(txn[t]) /\ txn[t].stage = "copying"
      /\ UNCHANGED <<alive, pages, host, nextGen>>
  BY DEF TInv, TxnTyped, CopyLine
<1>3. /\ c \in Partial(TxnPages, Copy) /\ c[a] \in Copy
      /\ DOMAIN txn[t].shadow \subseteq DOMAIN txn[t].deps /\ DOMAIN c \subseteq DOMAIN txn[t].shadow
      /\ txn[t].shadow[a] \in Contents /\ DOMAIN txn[t].deps \subseteq TxnPages
  BY <1>2, TxnFields
<1>4. q \in Copy /\ q.backing = c[a].backing
  BY <1>3 DEF Copy
<1>5. c2 \in Partial(TxnPages, Copy) /\ DOMAIN c2 = DOMAIN c
  <2> HIDE DEF q
  <2>1. c2 \in Partial(TxnPages, Copy)
    BY <1>3, <1>4, ExceptPartial
  <2> QED
    BY <2>1
<1>6. Becomes(t, txn[t].stage, txn[t].deps, txn[t].shadow, c2, txn[t].reading, txn[t].writing)
  <2>1. c2 = [txn[t].copies EXCEPT ![a] = [@ EXCEPT !.left = txn[t].copies[a].left \ {l}]]
    OBVIOUS
  <2>2. txn' = [txn EXCEPT ![t].copies[a] = [@ EXCEPT !.left = txn[t].copies[a].left \ {l}]]
    BY <1>1
  <2> HIDE DEF c2, q
  <2> QED
    BY <1>2, <1>5, <2>1, <2>2, CopyBecomes
<1>7. \A b : Naming(c2, b) = Naming(c, b)
  <2> HIDE DEF q
  <2> QED
    BY <1>4 DEF Naming
<1> HIDE DEF c2
<1>8. TxnTyped'
  BY <1>2, <1>3, <1>5, <1>6, TypedNext
<1>9. Pins' = Pins
  <2>1. DOMAIN c2 \subseteq TxnPages
    BY <1>3, <1>5
  <2> QED
    BY <1>2, <1>3, <1>6, <1>7, <2>1, PinsSame
<1>10. pb \in DOMAIN backings /\ backings[pb] \in Backing
  BY <1>2, PinnedAlive DEF TypeOK
<1>11. data \in Contents
  BY <1>3, <1>10, TransactionAssumption DEF Backing
<1>12. backings' = [backings EXCEPT ![pb] = [backings[pb] EXCEPT !.data = data]]
  BY <1>1
<1> HIDE DEF data, pb
<1>13. /\ DOMAIN backings' = DOMAIN backings
       /\ \A b \in DOMAIN backings : backings'[b] \in Backing
       /\ \A b \in DOMAIN backings : backings'[b].refs = backings[b].refs
  BY <1>2, <1>10, <1>11, <1>12 DEF Backing, TypeOK
<1>14. TypeOK'
  BY <1>2, <1>13 DEF TypeOK
<1>15. PinnedExact(Pins)'
  BY <1>2, <1>9, <1>13, RefsSame
<1> QED
  BY <1>8, <1>14, <1>15 DEF TInv

\* Backings and the change of their references.
Rebalancing(B, delta) ==
    DOMAIN B \subseteq Backings /\ \A b \in DOMAIN B : B[b] \in Backing /\ delta[b] \in Int

\* B2 is what is left of B.
Rebalanced(B, delta, B2) ==
    /\ DOMAIN B2 = {b \in DOMAIN B : B[b].refs + delta[b] > 0}
    /\ \A b \in DOMAIN B2 : B2[b].refs = B[b].refs + delta[b]
    /\ \A b \in DOMAIN B2 : B2[b] \in Backing
    /\ \A b \in DOMAIN B2 : /\ B2[b].generation = B[b].generation
                            /\ B2[b].host = B[b].host /\ B2[b].data = B[b].data

\* What is left after references have been given and taken.
LEMMA RebalanceTyped ==
    ASSUME NEW B, NEW delta, Rebalancing(B, delta)
    PROVE  Rebalanced(B, delta, Rebalance(B, delta))
<1> DEFINE B2 == Rebalance(B, delta)
<1>1. /\ DOMAIN B2 = {b \in DOMAIN B : B[b].refs + delta[b] > 0}
      /\ \A b \in DOMAIN B2 : B2[b] = [B[b] EXCEPT !.refs = B[b].refs + delta[b]]
  BY DEF Rebalance
<1> HIDE DEF B2
<1>2. ASSUME NEW b \in DOMAIN B2
      PROVE  /\ B2[b].refs = B[b].refs + delta[b] /\ B2[b] \in Backing
             /\ B2[b].generation = B[b].generation
             /\ B2[b].host = B[b].host /\ B2[b].data = B[b].data
  <2> DEFINE n == B[b].refs + delta[b]
  <2>1. B[b] \in Backing /\ delta[b] \in Int /\ n > 0
    BY <1>1 DEF Rebalancing
  <2>2. n \in Nat
    BY <2>1 DEF Backing
  <2>3. B2[b] = [B[b] EXCEPT !.refs = n]
    BY <1>1
  <2> HIDE DEF n
  <2>4. B2[b].refs = n /\ B2[b] \in Backing
        /\ B2[b].generation = B[b].generation
        /\ B2[b].host = B[b].host /\ B2[b].data = B[b].data
    BY <2>1, <2>2, <2>3 DEF Backing
  <2> QED
    BY <2>4 DEF n
<1>3. Rebalanced(B, delta, B2)
  BY <1>1, <1>2 DEF Rebalanced
<1> QED
  BY <1>3 DEF B2

\* A step in which t gives up the references of f, its dependencies or its copies.
LEMMA GiveUp ==
    ASSUME TInv, NEW t \in Threads, NEW f,
           DOMAIN f \subseteq TxnPages,
           backings' = Rebalance(backings, [b \in DOMAIN backings |-> -Cardinality(Naming(f, b))]),
           \A b \in Backings : Pins'[b] = Pins[b] - Cardinality(Naming(f, b)),
           UNCHANGED <<alive, pages, host, nextGen>>, TxnTyped'
    PROVE  TInv'
<1> DEFINE delta == [b \in DOMAIN backings |-> -Cardinality(Naming(f, b))]
<1>1. /\ DOMAIN backings \subseteq Backings /\ \A b \in DOMAIN backings : backings[b] \in Backing
      /\ TypeOK
  BY DEF TInv, TypeOK
<1>2. \A b : Cardinality(Naming(f, b)) \in Nat
  BY PagesFinite
<1>3. \A b \in DOMAIN backings : delta[b] \in Int /\ delta[b] = -Cardinality(Naming(f, b))
  BY <1>2
<1>4. /\ Pins \in [Backings -> Nat] /\ Pins' \in [Backings -> Nat]
      /\ \A b \in Backings \ DOMAIN backings : Pins[b] = 0
  BY PinsTyped DEF TInv, PinnedExact
<1>5. ASSUME NEW b \in Backings \ DOMAIN backings PROVE Pins'[b] = 0
  BY <1>2, <1>4
<1>6. ASSUME NEW b \in DOMAIN backings PROVE Pins'[b] = Pins[b] + delta[b]
  <2>1. b \in Backings /\ Pins[b] \in Nat /\ Cardinality(Naming(f, b)) \in Nat
    BY <1>1, <1>2, <1>4
  <2>2. Pins'[b] = Pins[b] - Cardinality(Naming(f, b))
    BY <2>1
  <2>3. delta[b] = -Cardinality(Naming(f, b))
    BY <1>3
  <2> HIDE DEF delta
  <2> QED
    BY <2>1, <2>2, <2>3
<1>7. backings' = Rebalance(backings, delta)
  OBVIOUS
<1> HIDE DEF delta
<1>8. /\ DOMAIN backings' = {b \in DOMAIN backings : backings[b].refs + delta[b] > 0}
      /\ \A b \in DOMAIN backings' : backings'[b].refs = backings[b].refs + delta[b]
      /\ \A b \in DOMAIN backings' : backings'[b] \in Backing
  <2>1. Rebalancing(backings, delta)
    BY <1>1, <1>3 DEF Rebalancing
  <2>2. Rebalanced(backings, delta, Rebalance(backings, delta))
    BY <2>1, RebalanceTyped
  <2>3. Rebalanced(backings, delta, backings')
    BY <1>7, <2>2, Zenon
  <2> QED
    BY <2>3 DEF Rebalanced
<1>9. PinnedExact(Pins)'
  BY <1>3, <1>5, <1>6, <1>8, PinStep
<1>10. TypeOK'
  BY <1>1, <1>8 DEF TypeOK
<1> QED
  BY <1>9, <1>10 DEF TInv

\* drop(commit_backings[i])
LEMMA DropPinsKeeps ==
    ASSUME TInv, NEW t \in Threads, DropPins(t)
    PROVE  TInv'
<1> DEFINE c == txn[t].copies
<1>1. TxnTyped /\ WellShaped(txn[t]) /\ txn[t].stage = "unpinning"
  BY DEF TInv, TxnTyped, DropPins
<1>2. /\ DOMAIN txn[t].shadow \subseteq DOMAIN txn[t].deps /\ DOMAIN txn[t].deps \subseteq TxnPages
      /\ DOMAIN c \subseteq DOMAIN txn[t].shadow /\ txn[t].reading \cup txn[t].writing = {}
  BY <1>1, TxnFields DEF WellShaped
<1>3. <<>> \in Partial(TxnPages, Copy) /\ DOMAIN <<>> = {}
  <2>1. <<>> \in [{} -> Copy]
    OBVIOUS
  <2> QED
    BY <2>1 DEF Partial
<1>4. txn' = [txn EXCEPT ![t].stage = "open", ![t].copies = <<>>]
  BY DEF DropPins
<1>5. Becomes(t, "open", txn[t].deps, txn[t].shadow, <<>>, txn[t].reading, txn[t].writing)
  BY <1>1, <1>3, <1>4, DropBecomes DEF Stages
<1>6. TxnTyped'
  BY <1>1, <1>2, <1>3, <1>5, TypedNext
<1>7. \A b : Naming(<<>>, b) = {}
  BY <1>3 DEF Naming
<1>8. ASSUME NEW b \in Backings PROVE Pins'[b] = Pins[b] - Cardinality(Naming(c, b))
  <2> DEFINE n == Cardinality(Naming(txn[t].deps, b))
             k == Cardinality(Naming(c, b))
             z == Cardinality(Naming(<<>>, b))
  <2>1. Pins'[b] = Pins[b] - n + n - k + z
    BY <1>1, <1>2, <1>3, <1>5, PinsChange
  <2>2. n \in Nat /\ k \in Nat /\ Pins[b] \in Nat
    BY <1>2, PagesFinite, PinsTyped
  <2>3. z = 0
    BY <1>7, FS_EmptySet
  <2> HIDE DEF n, k, z
  <2>4. Pins'[b] = Pins[b] - k
    BY <2>1, <2>2, <2>3
  <2> QED
    BY <2>4 DEF k
<1>9. backings' = Rebalance(backings, [b \in DOMAIN backings |-> -Cardinality(Naming(c, b))])
  BY DEF DropPins, Naming
<1>10. DOMAIN c \subseteq TxnPages /\ UNCHANGED <<alive, pages, host, nextGen>>
  BY <1>2 DEF DropPins
<1> HIDE DEF c
<1> QED
  BY <1>6, <1>8, <1>9, <1>10, GiveUp

\* gem_memory_transaction_end
LEMMA EndKeeps ==
    ASSUME TInv, NEW t \in Threads, End(t)
    PROVE  TInv'
<1> DEFINE d == txn[t].deps
<1>1. TxnTyped /\ WellShaped(txn[t]) /\ txn[t].stage \notin {"copying", "unpinning"}
  BY DEF TInv, TxnTyped, End
<1>2. DOMAIN d \subseteq TxnPages /\ DOMAIN txn[t].copies = {}
  BY <1>1, TxnFields DEF WellShaped
<1>3. txn' = [txn EXCEPT ![t] = Idle]
  BY DEF End
<1>4. Becomes(t, "idle", <<>>, <<>>, <<>>, {}, {})
  BY <1>1, <1>3, EndBecomes
<1>5. DOMAIN <<>> = {}
  OBVIOUS
<1>6. TxnTyped'
  BY <1>1, <1>4, <1>5, TypedNext
<1>7. \A b : Naming(<<>>, b) = {} /\ Naming(txn[t].copies, b) = {}
  BY <1>2, <1>5 DEF Naming
<1>8. ASSUME NEW b \in Backings PROVE Pins'[b] = Pins[b] - Cardinality(Naming(d, b))
  <2> DEFINE n == Cardinality(Naming(d, b))
             k == Cardinality(Naming(txn[t].copies, b))
             z == Cardinality(Naming(<<>>, b))
  <2>1. Pins'[b] = Pins[b] - n + z - k + z
    BY <1>1, <1>4, <1>5, PinsChange
  <2>2. n \in Nat /\ Pins[b] \in Nat
    BY <1>2, PagesFinite, PinsTyped
  <2>3. z = 0 /\ k = 0
    BY <1>7, FS_EmptySet
  <2> HIDE DEF n, k, z
  <2>4. Pins'[b] = Pins[b] - n
    BY <2>1, <2>2, <2>3
  <2> QED
    BY <2>4 DEF n
<1>9. backings' = Rebalance(backings, [b \in DOMAIN backings |-> -Cardinality(Naming(d, b))])
  BY DEF End, Naming
<1>10. UNCHANGED <<alive, pages, host, nextGen>>
  BY DEF End
<1> HIDE DEF d
<1> QED
  BY <1>2, <1>6, <1>8, <1>9, <1>10, GiveUp

-----------------------------------------------------------------------------
(* A successful commit.                                                     *)

\* The parts of CommitPages by name.
Copied(W) == UNION {CopyOnWrite(a, 1) : a \in W}
Rank(W, a) == Cardinality({q \in W : q < a})
Target(W, f) == [a \in W |-> IF a \in Copied(W) THEN f[a] ELSE pages[a].backing]
FreshCopies(W, f) ==
    [b \in {f[a] : a \in Copied(W)} |->
        LET a == CHOOSE q \in Copied(W) : f[q] = b
        IN  [refs |-> 0, generation |-> 0, host |-> NoHost, data |-> Content(pages[a].backing)]]
CommitDelta(t, W, f) ==
    [b \in DOMAIN backings \cup DOMAIN FreshCopies(W, f) |->
        Cardinality({a \in W : Target(W, f)[a] = b})
        + 2 * Cardinality({a \in Copied(W) : Target(W, f)[a] = b})
        - Cardinality({a \in Copied(W) : pages[a].backing = b})
        - Cardinality({a \in Copied(W) : txn[t].deps[a].backing = b})]
CommitTable(t, W, f) == Rebalance(Merge(backings, FreshCopies(W, f)), CommitDelta(t, W, f))
Stamped(W, table, last) ==
    [b \in DOMAIN table |->
        IF b \in DOMAIN last
        THEN [table[b] EXCEPT !.generation = nextGen + 2 * Rank(W, last[b]) + 1]
        ELSE table[b]]
CallerOwned(W) == {a \in W : External(pages[a].backing)}
CommitHost(v, last) == [h \in HostPages |-> IF h \in DOMAIN last THEN v[last[h]] ELSE host[h]]
CommitTo(W, f) ==
    [a \in DOMAIN pages |->
        IF a \in W
        THEN [pages[a] EXCEPT !.backing = Target(W, f)[a],
                              !.protection.access = Detached(@),
                              !.generation = nextGen + 2 * Rank(W, a) + 2]
        ELSE pages[a]]
CommitDeps(t, W, f, v) ==
    [a \in DOMAIN txn[t].deps |->
        IF a \in W
        THEN [generation |-> nextGen + 2 * Rank(W, a) + 2,
              contentGeneration |-> nextGen + 2 * Rank(W, a) + 1,
              hash |-> IF txn[t].deps[a].external THEN Hash(v[a]) ELSE NoHash,
              backing |-> Target(W, f)[a],
              protection |-> [txn[t].deps[a].protection EXCEPT !.access = Detached(@)],
              external |-> txn[t].deps[a].external]
        ELSE txn[t].deps[a]]
CommitCopies(t, W, f) ==
    [a \in W |-> [backing |-> Target(W, f)[a],
                  left |-> IF txn[t].deps[a].external THEN {} ELSE Lines]]

\* What a successful commit does once it has chosen the copies' backings.
CommitsAs(t, W, v, f) ==
    /\ \E last \in LastPages(Target(W, f), W) :
          backings' = Stamped(W, CommitTable(t, W, f), last)
    /\ \E last \in LastPages([a \in CallerOwned(W) |-> backings[pages[a].backing].host],
                             CallerOwned(W)) :
          host' = CommitHost(v, last)
    /\ pages' = CommitTo(W, f)
    /\ txn' = [txn EXCEPT ![t].stage = "copying",
                          ![t].shadow = Merge(@, v),
                          ![t].deps = CommitDeps(t, W, f, v),
                          ![t].copies = CommitCopies(t, W, f),
                          ![t].writing = WriteStripes(W),
                          ![t].reading = DependencyStripes(t) \ WriteStripes(W)]

\* A successful commit chooses them.
LEMMA CommitParts ==
    ASSUME NEW t \in Threads, NEW W, NEW v, CommitPages(t, W, v)
    PROVE  \E f \in Allocations(Copied(W)) : CommitsAs(t, W, v, f)
BY Zenon DEF CommitPages, CommitsAs, Copied, Rank, Target, FreshCopies, CommitDelta, CommitTable, Stamped, CallerOwned,
   CommitHost, CommitTo, CommitDeps, CommitCopies

\* The entries of O in C now point elsewhere.
Redirected(O, O2, C) ==
    /\ DOMAIN O2 = DOMAIN O /\ C \subseteq DOMAIN O /\ IsFiniteSet(DOMAIN O)
    /\ \A p \in DOMAIN O \ C : O2[p] = O[p]

\* How many entries point to b then.
RedirectCounted(O, O2, C, b) ==
    /\ Cardinality(Pointing(O2, b)) = Cardinality(Pointing(O, b))
         - Cardinality({p \in C : O[p] = b}) + Cardinality({p \in C : O2[p] = b})
    /\ IsFiniteSet(Pointing(O2, b))
    /\ Cardinality(Pointing(O2, b)) \in Nat /\ Cardinality(Pointing(O, b)) \in Nat
    /\ Cardinality({p \in C : O[p] = b}) \in Nat
    /\ Cardinality({p \in C : O2[p] = b}) \in Nat

\* The entries outside C count the same before and after.
LEMMA RedirectCount ==
    ASSUME NEW O, NEW O2, NEW C, Redirected(O, O2, C), NEW b
    PROVE  RedirectCounted(O, O2, C, b)
<1> DEFINE X == {p \in DOMAIN O \ C : O[p] = b}
           Y == {p \in C : O[p] = b}
           Z == {p \in C : O2[p] = b}
<1>1. /\ Pointing(O, b) = X \cup Y /\ X \cap Y = {}
      /\ Pointing(O2, b) = X \cup Z /\ X \cap Z = {}
  BY DEF Redirected, Pointing
<1>2. IsFiniteSet(X) /\ IsFiniteSet(Y) /\ IsFiniteSet(Z)
  <2>1. X \subseteq DOMAIN O /\ Y \subseteq DOMAIN O /\ Z \subseteq DOMAIN O
    BY DEF Redirected
  <2> QED
    BY <2>1, FS_Subset DEF Redirected
<1> HIDE DEF X, Y, Z
<1>3. Cardinality(X) \in Nat /\ Cardinality(Y) \in Nat /\ Cardinality(Z) \in Nat
  BY <1>2, FS_CardinalityType
<1>4. Cardinality({}) = 0
  BY FS_EmptySet
<1>5. IsFiniteSet(X \cup Y) /\ Cardinality(X \cup Y) = Cardinality(X) + Cardinality(Y)
  <2>1. Cardinality(X \cup Y) = Cardinality(X) + Cardinality(Y) - Cardinality(X \cap Y)
    BY <1>2, FS_Union
  <2>2. IsFiniteSet(X \cup Y)
    BY <1>2, FS_Union
  <2>3. Cardinality(X \cap Y) = 0
    BY <1>1, <1>4
  <2> QED
    BY <1>3, <2>1, <2>2, <2>3
<1>6. IsFiniteSet(X \cup Z) /\ Cardinality(X \cup Z) = Cardinality(X) + Cardinality(Z)
  <2>1. Cardinality(X \cup Z) = Cardinality(X) + Cardinality(Z) - Cardinality(X \cap Z)
    BY <1>2, FS_Union
  <2>2. IsFiniteSet(X \cup Z)
    BY <1>2, FS_Union
  <2>3. Cardinality(X \cap Z) = 0
    BY <1>1, <1>4
  <2> QED
    BY <1>3, <2>1, <2>2, <2>3
<1>7. /\ Cardinality(Pointing(O2, b)) = Cardinality(Pointing(O, b)) - Cardinality(Y) + Cardinality(Z)
      /\ IsFiniteSet(Pointing(O2, b))
      /\ Cardinality(Pointing(O2, b)) \in Nat /\ Cardinality(Pointing(O, b)) \in Nat
  BY <1>1, <1>3, <1>5, <1>6
<1> QED
  BY <1>3, <1>7 DEF Y, Z, RedirectCounted

\* What a commit knows about the pages it writes.
CommitKnows(t, W) ==
    /\ W \subseteq DOMAIN txn[t].shadow /\ W \subseteq DOMAIN txn[t].deps
    /\ W \subseteq TxnPages /\ W \subseteq DOMAIN pages
    /\ IsFiniteSet(W) /\ Copied(W) \subseteq W
    /\ \A a \in W : /\ pages[a] \in Page
                    /\ pages[a].backing \in DOMAIN backings
                    /\ pages[a].backing = txn[t].deps[a].backing
    /\ \A a : Rank(W, a) \in Nat
    /\ nextGen \in Nat

\* The guards of a successful commit make it so.
LEMMA CommitKnown ==
    ASSUME TInv, NEW t \in Threads, NEW W, NEW v, CommitPages(t, W, v)
    PROVE  CommitKnows(t, W)
<1>1. TypeOK /\ TxnTyped /\ AllCurrent(t) /\ WritablePages(W) /\ W \subseteq DOMAIN txn[t].shadow
  BY DEF TInv, CommitPages, CommitReady
<1>2. W \subseteq DOMAIN txn[t].deps /\ W \subseteq TxnPages
  BY <1>1, TxnFields
<1>3. ASSUME NEW a \in W
      PROVE  /\ a \in DOMAIN pages /\ pages[a] \in Page /\ pages[a].backing \in DOMAIN backings
             /\ pages[a].backing = txn[t].deps[a].backing
  <2>1. CommittedPage(a) /\ Current(a, txn[t].deps[a])
    BY <1>1, <1>2 DEF WritablePages, AllCurrent
  <2>2. a \in DOMAIN pages /\ pages[a] \in Page /\ pages[a].backing \in DOMAIN backings
    BY <2>1, CommittedTyped
  <2> QED
    BY <2>1, <2>2 DEF Current, SameMapping
<1>4. IsFiniteSet(W)
  BY <1>2, PagesFinite, FS_Subset
<1>5. \A a : Rank(W, a) \in Nat
  <2>1. \A a : {q \in W : q < a} \subseteq W
    OBVIOUS
  <2> QED
    BY <1>4, <2>1, FS_Subset, FS_CardinalityType DEF Rank
<1>6. Copied(W) \subseteq W
  <2> SUFFICES ASSUME NEW a \in W, NEW p \in CopyOnWrite(a, 1)
               PROVE  p \in W
    BY DEF Copied
  <2>1. a \in Nat
    BY <1>2, TransactionAssumption, AddressAssumption DEF Address
  <2>2. p \in Span(a, 1)
    BY DEF CopyOnWrite
  <2>3. p = a
    BY <2>1, <2>2 DEF Span
  <2> QED
    BY <2>3
<1>7. nextGen \in Nat
  BY <1>1 DEF TypeOK
<1> QED
  BY <1>1, <1>2, <1>3, <1>4, <1>5, <1>6, <1>7 DEF CommitKnows

\* Where the pages of a commit end up.
Targets(W, f, F) ==
    /\ F \in [W -> Backings]
    /\ \A a \in W \ Copied(W) : F[a] = pages[a].backing
    /\ \A a \in Copied(W) : F[a] = f[a] /\ F[a] \notin DOMAIN backings
    /\ \A a \in W : F[a] \in DOMAIN Merge(backings, FreshCopies(W, f))

\* In place for most pages, a new backing for the copied ones.
LEMMA TargetTyped ==
    ASSUME TypeOK, NEW t, NEW W, CommitKnows(t, W), NEW f \in Allocations(Copied(W))
    PROVE  Targets(W, f, Target(W, f))
<1>1. /\ f \in [Copied(W) -> Backings \ DOMAIN backings] /\ Copied(W) \subseteq W
      /\ \A a \in W : pages[a].backing \in DOMAIN backings
      /\ DOMAIN backings \subseteq Backings
  BY DEF Allocations, CommitKnows, TypeOK
<1>2. DOMAIN FreshCopies(W, f) = {f[a] : a \in Copied(W)}
  BY DEF FreshCopies
<1>3. DOMAIN Merge(backings, FreshCopies(W, f)) = DOMAIN backings \cup {f[a] : a \in Copied(W)}
  BY <1>2, MergeValues
<1>4. Target(W, f) = [a \in W |-> IF a \in Copied(W) THEN f[a] ELSE pages[a].backing]
  BY DEF Target
<1> QED
  BY <1>1, <1>3, <1>4 DEF Targets

\* The copies start with the bytes of the pages they are made of.
LEMMA FreshCopiesTyped ==
    ASSUME TInv, NEW t, NEW W, CommitKnows(t, W), NEW f \in Allocations(Copied(W))
    PROVE  /\ DOMAIN FreshCopies(W, f) = {f[a] : a \in Copied(W)}
           /\ DOMAIN FreshCopies(W, f) \subseteq Backings
           /\ DOMAIN FreshCopies(W, f) \cap DOMAIN backings = {}
           /\ \A b \in DOMAIN FreshCopies(W, f) : /\ FreshCopies(W, f)[b] \in Backing
                                                  /\ FreshCopies(W, f)[b].refs = 0
<1>1. DOMAIN FreshCopies(W, f) = {f[a] : a \in Copied(W)}
  BY DEF FreshCopies
<1>2. f \in [Copied(W) -> Backings \ DOMAIN backings]
  BY DEF Allocations
<1>3. ASSUME NEW b \in DOMAIN FreshCopies(W, f)
      PROVE  FreshCopies(W, f)[b] \in Backing /\ FreshCopies(W, f)[b].refs = 0
  <2> DEFINE a == CHOOSE q \in Copied(W) : f[q] = b
             x == Content(pages[a].backing)
  <2>1. a \in Copied(W)
    BY <1>1
  <2>2. FreshCopies(W, f)[b] = [refs |-> 0, generation |-> 0, host |-> NoHost, data |-> x]
    BY <1>1 DEF FreshCopies
  <2>3. pages[a].backing \in DOMAIN backings
    BY <2>1 DEF CommitKnows
  <2> HIDE DEF a
  <2>4. x \in Contents
    BY <2>3, ContentTyped
  <2> HIDE DEF x
  <2> QED
    BY <2>2, <2>4 DEF Backing
<1> QED
  BY <1>1, <1>2, <1>3

\* A page after a commit: a detached one with a backing.
LEMMA CommitToTyped ==
    ASSUME TInv, NEW t, NEW W, CommitKnows(t, W), NEW f, Targets(W, f, Target(W, f))
    PROVE  /\ DOMAIN CommitTo(W, f) = DOMAIN pages
           /\ \A a \in DOMAIN pages : CommitTo(W, f)[a] \in Page
           /\ \A a \in W : CommitTo(W, f)[a].backing = Target(W, f)[a]
           /\ \A a \in DOMAIN pages \ W : CommitTo(W, f)[a] = pages[a]
<1> DEFINE F == Target(W, f)
           M == CommitTo(W, f)
<1>1. DOMAIN M = DOMAIN pages /\ \A a \in DOMAIN pages \ W : M[a] = pages[a]
  BY DEF CommitTo
<1>2. \A a \in DOMAIN pages : pages[a] \in Page
  BY DEF TInv, TypeOK
<1>3. ASSUME NEW a \in W PROVE a \in DOMAIN pages /\ M[a] \in Page /\ M[a].backing = F[a]
  <2> DEFINE prot == [pages[a].protection EXCEPT !.access = Detached(@)]
             g == nextGen + 2 * Rank(W, a) + 2
  <2>1. a \in DOMAIN pages /\ pages[a] \in Page /\ g \in Nat
    BY DEF CommitKnows
  <2>2. [pages[a] EXCEPT !.protection.access = Detached(@)] \in Page
    BY <2>1, DetachedTyped
  <2>3. prot \in Protection
    BY <2>1, <2>2 DEF Page
  <2>4. M[a] = [pages[a] EXCEPT !.backing = F[a], !.protection.access = Detached(@),
                                !.generation = g]
    BY <2>1 DEF CommitTo
  <2>5. F[a] \in Backings
    BY DEF Targets
  <2> HIDE DEF F, M, g
  <2>6. M[a] = [pages[a] EXCEPT !.backing = F[a], !.protection = prot, !.generation = g]
    BY <2>4
  <2> HIDE DEF prot
  <2> QED
    BY <2>1, <2>3, <2>5, <2>6 DEF Page
<1> QED
  BY <1>1, <1>2, <1>3

\* The bytes of the caller's pages.
LEMMA CommitHostTyped ==
    ASSUME TypeOK, NEW W, NEW v \in [W -> Stores], NEW E, E \subseteq W,
           NEW owner, NEW last \in LastPages(owner, E)
    PROVE  CommitHost(v, last) \in [HostPages -> Contents]
<1>1. last \in [{owner[p] : p \in E} -> E]
  BY DEF LastPages
<1>2. ASSUME NEW h \in HostPages
      PROVE  (IF h \in DOMAIN last THEN v[last[h]] ELSE host[h]) \in Contents
  <2>1. CASE h \in DOMAIN last
    <3>1. last[h] \in W
      BY <1>1, <2>1
    <3> QED
      BY <2>1, <3>1, TransactionAssumption
  <2>2. CASE h \notin DOMAIN last
    BY <2>2 DEF TypeOK
  <2> QED
    BY <2>1, <2>2
<1> QED
  BY <1>2 DEF CommitHost

\* The dependencies of the committed pages follow the commit.
LEMMA CommitDepsTyped ==
    ASSUME TInv, NEW t \in Threads, NEW W, CommitKnows(t, W), NEW v \in [W -> Stores],
           NEW f, Targets(W, f, Target(W, f))
    PROVE  /\ CommitDeps(t, W, f, v) \in Partial(TxnPages, Dependency)
           /\ DOMAIN CommitDeps(t, W, f, v) = DOMAIN txn[t].deps
           /\ \A a \in W : CommitDeps(t, W, f, v)[a].backing = Target(W, f)[a]
           /\ \A a \in DOMAIN txn[t].deps \ W : CommitDeps(t, W, f, v)[a] = txn[t].deps[a]
<1> DEFINE F == Target(W, f)
           D == CommitDeps(t, W, f, v)
           d == txn[t].deps
<1>1. DOMAIN D = DOMAIN d /\ \A a \in DOMAIN d \ W : D[a] = d[a]
  BY DEF CommitDeps
<1>2. DOMAIN d \subseteq TxnPages /\ \A a \in DOMAIN d : d[a] \in Dependency
  BY TxnFields DEF TInv
<1>3. ASSUME NEW a \in W PROVE a \in DOMAIN d /\ D[a] \in Dependency /\ D[a].backing = F[a]
  <2> DEFINE prot == [d[a].protection EXCEPT !.access = Detached(@)]
             g == nextGen + 2 * Rank(W, a) + 2
             k == nextGen + 2 * Rank(W, a) + 1
             h == IF d[a].external THEN Hash(v[a]) ELSE NoHash
             e == d[a].external
  <2>1. a \in DOMAIN d /\ d[a] \in Dependency /\ pages[a] \in Page
    BY <1>2 DEF CommitKnows
  <2>2. g \in Nat /\ k \in Nat
    BY DEF CommitKnows
  <2>3. h \in Hashes
    <3>1. v[a] \in Contents
      BY TransactionAssumption
    <3> QED
      BY <3>1 DEF Hashes
  <2>4. d[a].protection \in Protection /\ e \in BOOLEAN
    BY <2>1 DEF Dependency
  <2>5. prot \in Protection
    BY <2>4 DEF Detached, Protection, Access, WriteAccess, WriteCopyAccess, ExecuteAccess
  <2>6. D[a] = [generation |-> g, contentGeneration |-> k, hash |-> h, backing |-> F[a],
                protection |-> prot, external |-> e]
    BY <2>1 DEF CommitDeps
  <2>7. F[a] \in Backings
    BY DEF Targets
  <2> HIDE DEF F, D, g, k, h, prot, e
  <2> QED
    BY <2>1, <2>2, <2>3, <2>4, <2>5, <2>6, <2>7 DEF Dependency
<1>4. D = [a \in DOMAIN d |-> D[a]]
  BY DEF CommitDeps
<1> HIDE DEF D
<1>5. \A a \in DOMAIN d : D[a] \in Dependency
  BY <1>1, <1>2, <1>3
<1>6. D \in [DOMAIN d -> Dependency]
  BY <1>4, <1>5
<1>7. D \in Partial(TxnPages, Dependency)
  BY <1>2, <1>6 DEF Partial
<1> QED
  BY <1>1, <1>3, <1>7 DEF D

\* The copies of a commit are of its pages.
LEMMA CommitCopiesTyped ==
    ASSUME NEW t, NEW W, CommitKnows(t, W), NEW f, Targets(W, f, Target(W, f))
    PROVE  /\ CommitCopies(t, W, f) \in Partial(TxnPages, Copy)
           /\ DOMAIN CommitCopies(t, W, f) = W
           /\ \A a \in W : CommitCopies(t, W, f)[a].backing = Target(W, f)[a]
<1> DEFINE F == Target(W, f)
           c == CommitCopies(t, W, f)
<1>1. \A a \in W : F[a] \in Backings
  BY DEF Targets
<1> HIDE DEF F
<1>2. c = [a \in W |-> [backing |-> F[a], left |-> IF txn[t].deps[a].external THEN {} ELSE Lines]]
  BY DEF CommitCopies, F
<1>3. c \in [W -> Copy] /\ DOMAIN c = W /\ \A a \in W : c[a].backing = F[a]
  BY <1>1, <1>2 DEF Copy
<1>4. W \subseteq TxnPages
  BY DEF CommitKnows
<1> HIDE DEF c
<1>5. c \in Partial(TxnPages, Copy)
  BY <1>3, <1>4 DEF Partial
<1> QED
  BY <1>3, <1>5 DEF F, c

\* Every stripe is one of the stripes of an address or a backing.
LEMMA StripesTyped ==
    ASSUME TInv, NEW t \in Threads, NEW W, CommitKnows(t, W)
    PROVE  WriteStripes(W) \subseteq Locked /\ DependencyStripes(t) \subseteq Locked
<1>1. \A a \in Address, b \in Backings \cup {NoBacking} : PageStripes(a, b) \subseteq Locked
  BY TransactionAssumption DEF PageStripes, Locked
<1>2. ASSUME NEW a \in W PROVE PageStripes(a, MappedBacking(a)) \subseteq Locked
  <2>1. a \in Address /\ a \in DOMAIN pages /\ pages[a] \in Page
    BY TransactionAssumption DEF CommitKnows
  <2>2. MappedBacking(a) \in Backings \cup {NoBacking}
    BY <2>1 DEF MappedBacking, Page
  <2> QED
    BY <1>1, <2>1, <2>2
<1>3. ASSUME NEW a \in DOMAIN txn[t].deps
      PROVE  PageStripes(a, txn[t].deps[a].backing) \subseteq Locked
  <2>1. a \in TxnPages /\ txn[t].deps[a] \in Dependency
    BY TxnFields DEF TInv
  <2>2. a \in Address /\ txn[t].deps[a].backing \in Backings
    BY <2>1, TransactionAssumption DEF Dependency
  <2> QED
    BY <1>1, <2>2
<1> QED
  BY <1>2, <1>3 DEF WriteStripes, DependencyStripes

\* The transaction of a thread that has committed W.
LEMMA CommitTxn ==
    ASSUME TInv, NEW t \in Threads, NEW W, CommitKnows(t, W), NEW v \in [W -> Stores],
           NEW f, Targets(W, f, Target(W, f)),
           txn' = [txn EXCEPT ![t].stage = "copying",
                              ![t].shadow = Merge(@, v),
                              ![t].deps = CommitDeps(t, W, f, v),
                              ![t].copies = CommitCopies(t, W, f),
                              ![t].writing = WriteStripes(W),
                              ![t].reading = DependencyStripes(t) \ WriteStripes(W)]
    PROVE  /\ Becomes(t, "copying", CommitDeps(t, W, f, v), Merge(txn[t].shadow, v),
                      CommitCopies(t, W, f), DependencyStripes(t) \ WriteStripes(W),
                      WriteStripes(W))
           /\ TxnTyped'
<1> DEFINE D == CommitDeps(t, W, f, v)
           c == CommitCopies(t, W, f)
           w == WriteStripes(W)
           r == DependencyStripes(t) \ WriteStripes(W)
           sh == Merge(txn[t].shadow, v)
<1>1. D \in Partial(TxnPages, Dependency) /\ DOMAIN D = DOMAIN txn[t].deps
  BY CommitDepsTyped
<1>2. c \in Partial(TxnPages, Copy) /\ DOMAIN c = W
  BY CommitCopiesTyped
<1>3. w \in SUBSET Locked /\ r \in SUBSET Locked
  BY StripesTyped
<1>4. TxnTyped /\ W \subseteq TxnPages /\ W \subseteq DOMAIN txn[t].shadow
  BY DEF TInv, CommitKnows
<1>5. sh \in Partial(TxnPages, Contents) /\ DOMAIN sh = DOMAIN txn[t].shadow
  <2>1. v \in [W -> Contents]
    BY TransactionAssumption
  <2>2. v \in Partial(TxnPages, Contents)
    BY <1>4, <2>1 DEF Partial
  <2>3. txn[t].shadow \in Partial(TxnPages, Contents)
    BY <1>4, TxnFields
  <2>4. sh \in Partial(TxnPages, Contents)
    BY <2>2, <2>3, MergePartial
  <2>5. DOMAIN sh = DOMAIN txn[t].shadow \cup DOMAIN v /\ DOMAIN v = W
    BY MergeValues
  <2> QED
    BY <1>4, <2>4, <2>5
<1>6. txn' = [txn EXCEPT ![t].stage = "copying", ![t].shadow = sh, ![t].deps = D,
                         ![t].copies = c, ![t].writing = w, ![t].reading = r]
  OBVIOUS
<1>7. DOMAIN txn[t].shadow \subseteq DOMAIN txn[t].deps
  BY <1>4, TxnFields
<1> HIDE DEF D, c, w, r, sh
<1>8. Becomes(t, "copying", D, sh, c, r, w)
  BY <1>1, <1>2, <1>3, <1>4, <1>5, <1>6, CommitBecomes DEF Stages
<1>9. TxnTyped'
  BY <1>1, <1>2, <1>4, <1>5, <1>7, <1>8, TypedNext
<1> QED
  BY <1>8, <1>9 DEF D, c, w, r, sh

\* How the commit's own bookkeeping shifts the pins.
LEMMA CommitPins ==
    ASSUME TInv, NEW t \in Threads, txn[t].stage = "open", NEW W, CommitKnows(t, W), NEW v \in [W -> Stores],
           NEW f, Targets(W, f, Target(W, f)), NEW sh, NEW r, NEW w,
           Becomes(t, "copying", CommitDeps(t, W, f, v), sh, CommitCopies(t, W, f), r, w),
           NEW b \in Backings
    PROVE  Pins'[b] = Pins[b] + Cardinality({a \in W : Target(W, f)[a] = b})
                      + Cardinality({a \in Copied(W) : Target(W, f)[a] = b})
                      - Cardinality({a \in Copied(W) : txn[t].deps[a].backing = b})
<1> DEFINE d == txn[t].deps
           D == CommitDeps(t, W, f, v)
           c == CommitCopies(t, W, f)
           O == [a \in DOMAIN d |-> d[a].backing]
           O2 == [a \in DOMAIN d |-> D[a].backing]
           F == Target(W, f)
           C == Copied(W)
<1>1. /\ DOMAIN D = DOMAIN d /\ \A a \in W : D[a].backing = F[a]
      /\ \A a \in DOMAIN d \ W : D[a] = d[a]
  BY CommitDepsTyped
<1>2. DOMAIN c = W /\ \A a \in W : c[a].backing = F[a]
  BY CommitCopiesTyped
<1>3. /\ TxnTyped /\ DOMAIN d \subseteq TxnPages /\ DOMAIN txn[t].copies = {}
  BY TxnFields DEF TInv, TxnTyped, WellShaped
<1>4. /\ C \subseteq W /\ W \subseteq DOMAIN d /\ W \subseteq TxnPages
      /\ \A a \in W : pages[a].backing = d[a].backing
      /\ \A a \in W \ C : F[a] = pages[a].backing
  BY DEF CommitKnows, Targets
<1> HIDE DEF d, D, c, F, C
<1>5. Redirected(O, O2, C)
  <2>1. IsFiniteSet(DOMAIN d)
    BY <1>3, PagesFinite, FS_Subset
  <2>2. DOMAIN O = DOMAIN d /\ DOMAIN O2 = DOMAIN d
    OBVIOUS
  <2>3. ASSUME NEW a \in DOMAIN d \ C PROVE O2[a] = O[a]
    BY <1>1, <1>4
  <2> QED
    BY <1>4, <2>1, <2>2, <2>3 DEF Redirected
<1>6. /\ Naming(d, b) = Pointing(O, b) /\ Naming(D, b) = Pointing(O2, b)
      /\ {a \in C : O[a] = b} = {a \in C : d[a].backing = b}
      /\ {a \in C : O2[a] = b} = {a \in C : F[a] = b}
      /\ Naming(c, b) = {a \in W : F[a] = b} /\ Naming(txn[t].copies, b) = {}
  BY <1>1, <1>2, <1>3, <1>4 DEF Naming, Pointing
<1> HIDE DEF O, O2
<1> DEFINE nd == Cardinality(Naming(d, b))
           nD == Cardinality(Naming(D, b))
           nc == Cardinality(Naming(c, b))
           n0 == Cardinality(Naming(txn[t].copies, b))
           x == Cardinality({a \in C : d[a].backing = b})
           y == Cardinality({a \in C : F[a] = b})
           z == Cardinality({a \in W : F[a] = b})
<1>7. Pins'[b] = Pins[b] - nd + nD - n0 + nc
  BY <1>1, <1>2, <1>3, <1>4, PinsChange DEF d, D, c
<1>8. nD = nd - x + y /\ nD \in Nat /\ nd \in Nat /\ x \in Nat /\ y \in Nat
  <2>1. RedirectCounted(O, O2, C, b)
    BY <1>5, RedirectCount
  <2> QED
    BY <1>6, <2>1 DEF RedirectCounted
<1>9. nc = z /\ n0 = 0
  BY <1>6, FS_EmptySet
<1>10. nc \in Nat /\ Pins[b] \in Nat
  <2>1. IsFiniteSet(Naming(c, b)) /\ Cardinality(Naming(c, b)) \in Nat
    BY <1>2, <1>4, PagesFinite
  <2> QED
    BY <2>1, PinsTyped
<1> HIDE DEF nd, nD, nc, n0, x, y, z
<1>11. Pins'[b] = Pins[b] + z + y - x
  BY <1>7, <1>8, <1>9, <1>10
<1> QED
  BY <1>11 DEF x, y, z, F, C, d

\* The backings before references are given and taken: the copies have none.
LEMMA CommitBefore ==
    ASSUME TInv, NEW t, NEW W, CommitKnows(t, W), NEW f \in Allocations(Copied(W)),
           NEW B, B = Merge(backings, FreshCopies(W, f))
    PROVE  /\ DOMAIN B \subseteq Backings /\ \A b \in DOMAIN B : B[b] \in Backing
           /\ DOMAIN backings \subseteq DOMAIN B
           /\ \A b \in DOMAIN B : B[b].refs = Cardinality(Pointing(Owners, b)) + Pins[b]
<1> DEFINE N == FreshCopies(W, f)
<1>1. /\ DOMAIN N \subseteq Backings /\ DOMAIN N \cap DOMAIN backings = {}
      /\ \A b \in DOMAIN N : N[b] \in Backing /\ N[b].refs = 0
  BY FreshCopiesTyped
<1>2. DOMAIN backings \subseteq Backings /\ \A b \in DOMAIN backings : backings[b] \in Backing
  BY DEF TInv, TypeOK
<1> HIDE DEF N
<1>3. /\ DOMAIN B = DOMAIN backings \cup DOMAIN N
      /\ \A b \in DOMAIN N : B[b] = N[b]
      /\ \A b \in DOMAIN backings \ DOMAIN N : B[b] = backings[b]
  BY MergeValues DEF N
<1>4. CountsExact(Owners, backings, Pins) /\ Pins \in [Backings -> Nat]
  BY OwnersCounted
<1>5. ASSUME NEW b \in DOMAIN N PROVE B[b].refs = Cardinality(Pointing(Owners, b)) + Pins[b]
  <2>1. b \in Backings \ DOMAIN backings /\ b # NoBacking
    BY <1>1, BackingAssumption
  <2>2. Pointing(Owners, b) = {}
    BY <1>4, <2>1 DEF CountsExact, Pointing
  <2>3. Pins[b] = 0
    <3>1. Pins[b] \in Nat /\ ~(Pins[b] > 0)
      BY <1>4, <2>1 DEF CountsExact
    <3> QED
      BY <3>1
  <2>4. Cardinality(Pointing(Owners, b)) = 0
    BY <2>2, FS_EmptySet
  <2> QED
    BY <1>1, <1>3, <2>3, <2>4
<1>6. ASSUME NEW b \in DOMAIN backings
      PROVE  B[b].refs = Cardinality(Pointing(Owners, b)) + Pins[b]
  BY <1>1, <1>3, <1>4 DEF CountsExact
<1> QED
  BY <1>1, <1>2, <1>3, <1>5, <1>6

\* Stamping changes no count.
LEMMA StampedTyped ==
    ASSUME TInv, NEW t, NEW W, CommitKnows(t, W), NEW last, NEW T,
           \A b \in DOMAIN T : T[b] \in Backing
    PROVE  /\ DOMAIN Stamped(W, T, last) = DOMAIN T
           /\ \A b \in DOMAIN T : /\ Stamped(W, T, last)[b] \in Backing
                                  /\ Stamped(W, T, last)[b].refs = T[b].refs
<1> DEFINE S == Stamped(W, T, last)
<1>1. DOMAIN S = DOMAIN T
  BY DEF Stamped
<1>2. ASSUME NEW b \in DOMAIN T PROVE S[b] \in Backing /\ S[b].refs = T[b].refs
  <2> DEFINE g == nextGen + 2 * Rank(W, last[b]) + 1
  <2>1. g \in Nat
    BY DEF CommitKnows
  <2>2. S[b] = T[b] \/ S[b] = [T[b] EXCEPT !.generation = g]
    BY DEF Stamped
  <2> HIDE DEF S, g
  <2> QED
    BY <2>1, <2>2 DEF Backing
<1> QED
  BY <1>1, <1>2

\* How many references a commit adds to b.
LEMMA CommitDeltaValue ==
    ASSUME TInv, NEW t \in Threads, NEW W, CommitKnows(t, W), NEW f \in Allocations(Copied(W)),
           NEW b \in DOMAIN Merge(backings, FreshCopies(W, f))
    PROVE  /\ CommitDelta(t, W, f)[b]
                = Cardinality({a \in W : Target(W, f)[a] = b})
                  + 2 * Cardinality({a \in Copied(W) : Target(W, f)[a] = b})
                  - Cardinality({a \in Copied(W) : pages[a].backing = b})
                  - Cardinality({a \in Copied(W) : txn[t].deps[a].backing = b})
           /\ CommitDelta(t, W, f)[b] \in Int
<1> DEFINE P == {a \in W : Target(W, f)[a] = b}
           Q == {a \in Copied(W) : Target(W, f)[a] = b}
           R == {a \in Copied(W) : pages[a].backing = b}
           S == {a \in Copied(W) : txn[t].deps[a].backing = b}
<1>1. b \in DOMAIN backings \cup DOMAIN FreshCopies(W, f)
  BY MergeValues
<1>2. CommitDelta(t, W, f)[b] = Cardinality(P) + 2 * Cardinality(Q) - Cardinality(R) - Cardinality(S)
  BY <1>1 DEF CommitDelta
<1>3. P \subseteq W /\ Q \subseteq W /\ R \subseteq W /\ S \subseteq W /\ IsFiniteSet(W)
  BY DEF CommitKnows
<1> HIDE DEF P, Q, R, S
<1>4. Cardinality(P) \in Nat /\ Cardinality(Q) \in Nat /\ Cardinality(R) \in Nat /\ Cardinality(S) \in Nat
  BY <1>3, FS_Subset, FS_CardinalityType
<1>5. CommitDelta(t, W, f)[b] \in Int
  BY <1>2, <1>4
<1> QED
  BY <1>2, <1>5 DEF P, Q, R, S

\* The pages that point to b before and after a commit.
LEMMA CommitOwners ==
    ASSUME TInv, NEW t, NEW W, CommitKnows(t, W), NEW f, Targets(W, f, Target(W, f)),
           pages' = CommitTo(W, f)
    PROVE  /\ Redirected(Owners, Owners', Copied(W))
           /\ \A p \in DOMAIN Owners' : Owners'[p] # NoBacking =>
                 Owners'[p] \in DOMAIN backings \cup DOMAIN Merge(backings, FreshCopies(W, f))
           /\ \A a \in Copied(W) : /\ Owners[a] = pages[a].backing
                                   /\ Owners'[a] = Target(W, f)[a]
<1> DEFINE F == Target(W, f)
           C == Copied(W)
           M == DOMAIN Merge(backings, FreshCopies(W, f))
<1>1. /\ DOMAIN pages' = DOMAIN pages
      /\ \A a \in W : pages'[a].backing = F[a]
      /\ \A a \in DOMAIN pages \ W : pages'[a] = pages[a]
  BY CommitToTyped
<1>2. /\ C \subseteq W /\ W \subseteq DOMAIN pages
      /\ \A a \in W \ C : F[a] = pages[a].backing
      /\ \A a \in W : F[a] \in M
  BY DEF CommitKnows, Targets
<1>3. IsFiniteSet(DOMAIN pages)
  <2>1. DOMAIN pages \subseteq Address
    BY DEF TInv, TypeOK
  <2>2. IsFiniteSet(Address)
    BY FS_Interval, AddressAssumption DEF Address
  <2> QED
    BY <2>1, <2>2, FS_Subset
<1>4. \A p \in DOMAIN pages : pages[p].backing # NoBacking => pages[p].backing \in DOMAIN backings
  BY DEF TInv, PinnedExact
<1> HIDE DEF F, C, M
<1>5. /\ DOMAIN Owners = DOMAIN pages /\ DOMAIN Owners' = DOMAIN pages
      /\ \A p \in DOMAIN pages : Owners[p] = pages[p].backing /\ Owners'[p] = pages'[p].backing
  BY <1>1 DEF Owners
<1>6. \A p \in DOMAIN pages \ C : Owners'[p] = Owners[p]
  BY <1>1, <1>2, <1>5
<1>7. Redirected(Owners, Owners', C)
  BY <1>2, <1>3, <1>5, <1>6 DEF Redirected
<1>8. \A p \in DOMAIN Owners' : Owners'[p] # NoBacking => Owners'[p] \in DOMAIN backings \cup M
  BY <1>1, <1>2, <1>4, <1>5
<1>9. \A a \in C : Owners[a] = pages[a].backing /\ Owners'[a] = F[a]
  BY <1>1, <1>2, <1>5
<1> QED
  BY <1>7, <1>8, <1>9 DEF F, C, M

\* A commit leaves every count exact.
LEMMA CommitExactCounts ==
    ASSUME TInv, NEW t \in Threads, txn[t].stage = "open", NEW W, CommitKnows(t, W),
           NEW v \in [W -> Stores], NEW f \in Allocations(Copied(W)),
           Targets(W, f, Target(W, f)), NEW sh, NEW r, NEW w,
           Becomes(t, "copying", CommitDeps(t, W, f, v), sh, CommitCopies(t, W, f), r, w),
           pages' = CommitTo(W, f), NEW last, backings' = Stamped(W, CommitTable(t, W, f), last)
    PROVE  /\ PinnedExact(Pins)'
           /\ DOMAIN backings' \subseteq Backings
           /\ \A b \in DOMAIN backings' : backings'[b] \in Backing
<1> DEFINE B == Merge(backings, FreshCopies(W, f))
           delta == CommitDelta(t, W, f)
           T == CommitTable(t, W, f)
           F == Target(W, f)
           C == Copied(W)
<1>1. /\ DOMAIN B \subseteq Backings /\ \A b \in DOMAIN B : B[b] \in Backing
      /\ DOMAIN backings \subseteq DOMAIN B
      /\ \A b \in DOMAIN B : B[b].refs = Cardinality(Pointing(Owners, b)) + Pins[b]
  BY CommitBefore
<1>2. \A b \in DOMAIN B : delta[b] \in Int
  BY CommitDeltaValue
<1>3. Rebalanced(B, delta, T)
  <2> HIDE DEF B, delta
  <2>1. Rebalancing(B, delta)
    BY <1>1, <1>2 DEF Rebalancing
  <2>2. T = Rebalance(B, delta)
    BY DEF CommitTable, B, delta
  <2> QED
    BY <2>1, <2>2, RebalanceTyped
<1>4. /\ DOMAIN backings' = DOMAIN T
      /\ \A b \in DOMAIN T : backings'[b] \in Backing /\ backings'[b].refs = T[b].refs
  BY <1>3, StampedTyped DEF Rebalanced
<1>5. /\ DOMAIN backings' = {b \in DOMAIN B : B[b].refs + delta[b] > 0}
      /\ \A b \in DOMAIN backings' : backings'[b].refs = B[b].refs + delta[b]
  <2> HIDE DEF B, delta, T
  <2> QED
    BY <1>3, <1>4 DEF Rebalanced
<1>6. /\ Redirected(Owners, Owners', C)
      /\ \A p \in DOMAIN Owners' : Owners'[p] # NoBacking => Owners'[p] \in DOMAIN backings \cup DOMAIN B
      /\ \A a \in C : Owners[a] = pages[a].backing /\ Owners'[a] = F[a]
  BY CommitOwners
<1>7. /\ Pins \in [Backings -> Nat] /\ Pins' \in [Backings -> Nat]
      /\ \A b : IsFiniteSet(Pointing(Owners, b)) /\ Cardinality(Pointing(Owners, b)) \in Nat
  BY OwnersCounted, PinsTyped
<1>8. ASSUME NEW b \in DOMAIN B
      PROVE  /\ IsFiniteSet(Pointing(Owners', b))
             /\ Cardinality(Pointing(Owners', b)) + Pins'[b]
                  = Cardinality(Pointing(Owners, b)) + Pins[b] + delta[b]
  <2> DEFINE x == Cardinality({a \in W : F[a] = b})
             y == Cardinality({a \in C : F[a] = b})
             z == Cardinality({a \in C : txn[t].deps[a].backing = b})
             u == Cardinality({a \in C : pages[a].backing = b})
             m == Cardinality(Pointing(Owners, b))
             n == Cardinality(Pointing(Owners', b))
  <2>1. delta[b] = x + 2 * y - u - z
    BY CommitDeltaValue
  <2>2. b \in Backings
    BY <1>1
  <2>3. Pins'[b] = Pins[b] + x + y - z
    BY <2>2, CommitPins
  <2>4. RedirectCounted(Owners, Owners', C, b)
    BY <1>6, RedirectCount
  <2>5. /\ {p \in C : Owners[p] = b} = {a \in C : pages[a].backing = b}
        /\ {p \in C : Owners'[p] = b} = {a \in C : F[a] = b}
    BY <1>6
  <2>6. /\ n = m - u + y /\ IsFiniteSet(Pointing(Owners', b))
        /\ n \in Nat /\ m \in Nat /\ u \in Nat /\ y \in Nat
    BY <2>4, <2>5 DEF RedirectCounted
  <2>7. x \in Nat /\ z \in Nat
    <3>1. {a \in W : F[a] = b} \subseteq W /\ {a \in C : txn[t].deps[a].backing = b} \subseteq W
          /\ IsFiniteSet(W)
      BY DEF CommitKnows
    <3> QED
      BY <3>1, FS_Subset, FS_CardinalityType
  <2>8. Pins[b] \in Nat
    BY <1>7, <2>2
  <2> HIDE DEF x, y, z, u, m, n, delta, F, C, B
  <2>9. n + Pins'[b] = m + Pins[b] + delta[b]
    BY <2>1, <2>3, <2>6, <2>7, <2>8
  <2> QED
    BY <2>6, <2>9 DEF m, n
<1>9. ASSUME NEW b \in Backings, Pins'[b] > 0 PROVE b \in DOMAIN B
  <2> SUFFICES ASSUME b \notin DOMAIN B PROVE FALSE
    OBVIOUS
  <2> DEFINE X == {a \in W : F[a] = b}
             Y == {a \in C : F[a] = b}
             Z == {a \in C : txn[t].deps[a].backing = b}
  <2>1. X = {} /\ Y = {} /\ Z = {}
    BY <1>1 DEF Targets, CommitKnows
  <2>2. Pins'[b] = Pins[b] + Cardinality(X) + Cardinality(Y) - Cardinality(Z)
    BY CommitPins
  <2>3. Pins[b] = 0
    <3>1. b \notin DOMAIN backings
      BY <1>1
    <3>2. Pins[b] \in Nat /\ ~(Pins[b] > 0)
      BY <1>7, <3>1 DEF TInv, PinnedExact
    <3> QED
      BY <3>2
  <2> HIDE DEF X, Y, Z
  <2>4. Cardinality(X) = 0 /\ Cardinality(Y) = 0 /\ Cardinality(Z) = 0
    BY <2>1, FS_EmptySet
  <2> QED
    BY <1>9, <2>2, <2>3, <2>4
<1> HIDE DEF B, delta, F, C, T
<1>10. Balanced(Owners, B, Pins, Owners', backings', Pins', delta)
  BY <1>1, <1>2, <1>5, <1>6, <1>7, <1>8, <1>9 DEF Balanced
<1>11. CountsExact(Owners', backings', Pins')
  BY <1>7, <1>10, RebalanceExact
<1>12. PinnedExact(Pins)'
  BY <1>11, PinnedNext
<1> QED
  BY <1>1, <1>4, <1>5, <1>12

\* gem_memory_transaction_commit_pages, when it succeeds
LEMMA CommitPagesKeeps ==
    ASSUME TInv, NEW t \in Threads, NEW W, NEW v \in [W -> Stores], CommitPages(t, W, v)
    PROVE  TInv'
<1>1. CommitKnows(t, W)
  BY CommitKnown
<1>2. TypeOK /\ txn[t].stage = "open"
      /\ nextGen' = nextGen + 2 * Cardinality(W) /\ alive' = alive
  BY DEF TInv, CommitPages, CommitReady
<1>0. PICK f \in Allocations(Copied(W)) : CommitsAs(t, W, v, f)
  BY CommitParts
<1>3. /\ \E last \in LastPages(Target(W, f), W) :
            backings' = Stamped(W, CommitTable(t, W, f), last)
      /\ \E last \in LastPages([a \in CallerOwned(W) |-> backings[pages[a].backing].host],
                               CallerOwned(W)) :
            host' = CommitHost(v, last)
      /\ pages' = CommitTo(W, f)
      /\ txn' = [txn EXCEPT ![t].stage = "copying",
                            ![t].shadow = Merge(@, v),
                            ![t].deps = CommitDeps(t, W, f, v),
                            ![t].copies = CommitCopies(t, W, f),
                            ![t].writing = WriteStripes(W),
                            ![t].reading = DependencyStripes(t) \ WriteStripes(W)]
  BY <1>0 DEF CommitsAs
<1>4. Targets(W, f, Target(W, f))
  BY <1>1, <1>2, TargetTyped
<1>5. Becomes(t, "copying", CommitDeps(t, W, f, v), Merge(txn[t].shadow, v),
              CommitCopies(t, W, f), DependencyStripes(t) \ WriteStripes(W), WriteStripes(W))
  BY <1>1, <1>3, <1>4, CommitTxn
<1>6. TxnTyped'
  BY <1>1, <1>3, <1>4, CommitTxn
<1>7. host' \in [HostPages -> Contents]
  <2> DEFINE E == CallerOwned(W)
             owner == [a \in CallerOwned(W) |-> backings[pages[a].backing].host]
  <2>1. PICK last \in LastPages(owner, E) : host' = CommitHost(v, last)
    BY <1>3
  <2>2. E \subseteq W
    BY DEF CallerOwned
  <2> HIDE DEF E, owner
  <2> QED
    BY <1>2, <2>1, <2>2, CommitHostTyped
<1>8. PICK last : backings' = Stamped(W, CommitTable(t, W, f), last)
  BY <1>3
<1>9. /\ PinnedExact(Pins)'
      /\ DOMAIN backings' \subseteq Backings
      /\ \A b \in DOMAIN backings' : backings'[b] \in Backing
  BY <1>1, <1>2, <1>3, <1>4, <1>5, <1>8, CommitExactCounts
<1>10. DOMAIN pages' \subseteq Address /\ \A a \in DOMAIN pages' : pages'[a] \in Page
  <2>1. DOMAIN pages' = DOMAIN pages /\ \A a \in DOMAIN pages : pages'[a] \in Page
    BY <1>1, <1>3, <1>4, CommitToTyped
  <2> QED
    BY <1>2, <2>1 DEF TypeOK
<1>11. nextGen' \in Nat
  <2>1. Cardinality(W) \in Nat /\ nextGen \in Nat
    BY <1>1, FS_CardinalityType DEF CommitKnows
  <2> QED
    BY <1>2, <2>1
<1>12. TypeOK'
  BY <1>2, <1>7, <1>9, <1>10, <1>11 DEF TypeOK
<1> QED
  BY <1>6, <1>9, <1>12 DEF TInv

-----------------------------------------------------------------------------
(* The ordinary operations, and the theorems.                               *)

\* An ordinary operation is a step of GemMemory.
LEMMA OrdinaryNext ==
    ASSUME alive, Ordinary
    PROVE  Next
<1>1. ASSUME NEW r \in Ranges, Exclusive(r[1], r[2]) PROVE Operation
  <2>1. ASSUME NEW v \in [Span(r[1], r[2]) -> Stores], Write(r[1], r[2], v) PROVE Operation
    <3>1. v \in [Span(r[1], r[2]) -> Contents]
      BY TransactionAssumption
    <3> QED
      BY <2>1, <3>1 DEF Operation
  <2>2. CASE \/ Release(r[1], r[2]) \/ Unmap(r[1], r[2]) \/ Decommit(r[1], r[2])
             \/ ConsumeGuard(r[1], r[2], "write")
    BY <2>2 DEF Operation
  <2>3. CASE \E prot \in Protections :
           \/ Commit(r[1], r[2], prot) \/ Protect(r[1], r[2], prot)
           \/ MapIdentity(r[1], r[2], prot)
           \/ \E s \in Address : Alias(r[1], s, r[2], prot)
           \/ \E h \in HostPages : CommitExternal(r[1], h, r[2], prot)
    BY <2>3, Zenon DEF Operation
  <2> QED
    BY <1>1, <2>1, <2>2, <2>3 DEF Exclusive
<1>2. ASSUME NEW r \in Ranges, Shared(r[1], r[2]) PROVE Operation
  BY <1>2, Zenon DEF Shared, Operation
<1>3. ASSUME NEW h \in HostPages, NEW v \in Stores, HostWrite(h, v) PROVE Operation
  BY <1>3, TransactionAssumption DEF Operation
<1>4. ASSUME NEW r \in Ranges, Reserve(r[1], r[2]) PROVE Operation
  BY <1>4, Zenon DEF Operation
<1>5. CASE (\E h \in HostPages : BindKuser(h)) \/ Destroy
  BY <1>5, Zenon DEF Operation, Next
<1> QED
  BY <1>1, <1>2, <1>3, <1>4, <1>5, Zenon DEF Ordinary, Next

\* It holds no pins.
LEMMA OrdinaryKeeps ==
    ASSUME TInv, alive, Ordinary
    PROVE  TInv'
<1>1. txn' = txn
  BY DEF Ordinary
<1>2. Next
  BY OrdinaryNext
<1>3. TypeOK /\ TxnTyped /\ Pins \in [Backings -> Nat]
  BY PinsTyped DEF TInv
<1>4. PICK P \in [Backings -> Nat] : P = Pins
  BY <1>3
<1>5. PinnedExact(P)
  BY <1>4 DEF TInv, PinnedExact
<1>6. PinnedExact(P)'
  BY <1>2, <1>3, <1>5, NextExact
<1>7. Pins' = Pins
  BY <1>1 DEF Pins, Deps, Copies, HeldBy
<1>8. PinnedExact(Pins)'
  BY <1>4, <1>6, <1>7 DEF PinnedExact
<1>9. TypeOK'
  BY <1>2, <1>3, NextTyped
<1>10. TxnTyped'
  BY <1>1, <1>3 DEF TxnTyped
<1> QED
  BY <1>8, <1>9, <1>10 DEF TInv

\* The invariant holds at first.
LEMMA TInitKeeps ==
    ASSUME TInit
    PROVE  TInv
<1>1. Init /\ txn = [t \in Threads |-> Idle]
  BY DEF TInit
<1>2. TypeOK /\ RefsExact
  BY <1>1, InitTyped, InitExact
<1>3. <<>> \in Partial(TxnPages, Dependency) /\ <<>> \in Partial(TxnPages, Contents)
      /\ <<>> \in Partial(TxnPages, Copy) /\ DOMAIN <<>> = {}
  <2>1. <<>> \in [{} -> Dependency] /\ <<>> \in [{} -> Contents] /\ <<>> \in [{} -> Copy]
    OBVIOUS
  <2> QED
    BY <2>1 DEF Partial
<1>4. Idle \in Txn
  BY <1>3 DEF Idle, Txn, Stages
<1>5. WellShaped(Idle)
  BY DEF WellShaped, Idle
<1>6. TxnTyped
  BY <1>1, <1>4, <1>5 DEF TxnTyped
<1>7. \A b \in Backings : HeldBy(Deps, b) = {} /\ HeldBy(Copies, b) = {}
  BY <1>1 DEF HeldBy, Deps, Copies, Idle
<1>8. Pins = [b \in Backings |-> 0]
  BY <1>7, FS_EmptySet DEF Pins
<1>9. PinnedExact(Pins)
  <2>1. PinnedExact([b \in Backings |-> 0])
    BY <1>2, UnpinnedExact
  <2> QED
    BY <1>8, <2>1
<1> QED
  BY <1>2, <1>6, <1>9 DEF TInv

\* Every step of every thread and of the ordinary operations keeps it.
LEMMA TNextKeeps ==
    ASSUME TInv, [TNext]_vars
    PROVE  TInv'
<1>1. CASE UNCHANGED vars
  <2>1. txn' = txn /\ memoryVars' = memoryVars
    BY <1>1 DEF vars
  <2>2. Pins' = Pins
    BY <2>1 DEF Pins, Deps, Copies, HeldBy
  <2>3. TypeOK' /\ TxnTyped'
    BY <2>1 DEF TInv, TypeOK, TxnTyped, memoryVars
  <2>4. PinnedExact(Pins)'
    BY <2>1, <2>2 DEF TInv, PinnedExact, memoryVars
  <2> QED
    BY <2>3, <2>4 DEF TInv
<1>2. CASE alive /\ Ordinary
  BY <1>2, OrdinaryKeeps
<1>3. ASSUME NEW t \in Threads, Transaction(t) PROVE TInv'
  <2>1. ASSUME NEW a \in TxnPages, Snapshot(t, a) PROVE TInv'
    BY <2>1, SnapshotKeeps
  <2>2. ASSUME NEW a \in TxnPages, Record(t, a) PROVE TInv'
    BY <2>2, RecordKeeps
  <2>3. ASSUME NEW a \in TxnPages, NEW mode \in {"read", "write", "fetch"}, Validate(t, a, mode)
        PROVE  TInv'
    BY <2>3, ValidateKeeps
  <2>4. ASSUME NEW W \in SUBSET TxnPages, CommitFails(t, W) \/ CommitGuard(t, W) PROVE TInv'
    BY <2>4, CommitFailsKeeps, CommitGuardKeeps
  <2>5. ASSUME NEW W \in SUBSET TxnPages, NEW v \in [W -> Stores], CommitPages(t, W, v)
        PROVE  TInv'
    BY <2>5, CommitPagesKeeps
  <2>6. CASE Begin(t) \/ CopyLine(t) \/ ReleaseStripes(t) \/ DropPins(t) \/ Finish(t) \/ End(t)
    BY <2>6, BeginKeeps, CopyLineKeeps, ReleaseStripesKeeps, DropPinsKeeps, FinishKeeps, EndKeeps
  <2> QED
    BY <1>3, <2>1, <2>2, <2>3, <2>4, <2>5, <2>6, Zenon DEF Transaction
<1> QED
  BY <1>1, <1>2, <1>3 DEF TNext

\* The types of the transactions are part of it.
LEMMA TInvTypes ==
    ASSUME TInv
    PROVE  TTypeOK
<1>1. ASSUME NEW t \in Threads
      PROVE  /\ txn[t].stage \in Stages
             /\ DOMAIN txn[t].deps \subseteq TxnPages
             /\ \A a \in DOMAIN txn[t].deps : txn[t].deps[a] \in Dependency
             /\ DOMAIN txn[t].shadow \subseteq DOMAIN txn[t].deps
             /\ \A a \in DOMAIN txn[t].shadow : txn[t].shadow[a] \in Contents
             /\ DOMAIN txn[t].copies \subseteq DOMAIN txn[t].shadow
             /\ \A a \in DOMAIN txn[t].copies :
                   txn[t].copies[a] \in [backing : Backings, left : SUBSET Lines]
             /\ txn[t].reading \cup txn[t].writing # {} => txn[t].stage = "copying"
  BY TxnFields DEF TInv, TxnTyped, WellShaped, Copy
<1>2. TypeOK /\ DOMAIN txn = Threads
  BY DEF TInv, TxnTyped
<1> QED
  BY <1>1, <1>2 DEF TTypeOK

\* The exact counts are part of it.
LEMMA TInvPins ==
    ASSUME TInv
    PROVE  PinsExact
<1>1. ASSUME NEW b \in DOMAIN backings
      PROVE  backings[b].refs =
             Cardinality({a \in DOMAIN pages : pages[a].backing = b})
             + Cardinality({x \in Threads \X TxnPages :
                  x[2] \in DOMAIN txn[x[1]].deps /\ txn[x[1]].deps[x[2]].backing = b})
             + Cardinality({x \in Threads \X TxnPages :
                  x[2] \in DOMAIN txn[x[1]].copies /\ txn[x[1]].copies[x[2]].backing = b})
  <2> DEFINE m == Cardinality({a \in DOMAIN pages : pages[a].backing = b})
             D == {x \in Threads \X TxnPages :
                     x[2] \in DOMAIN txn[x[1]].deps /\ txn[x[1]].deps[x[2]].backing = b}
             K == {x \in Threads \X TxnPages :
                     x[2] \in DOMAIN txn[x[1]].copies /\ txn[x[1]].copies[x[2]].backing = b}
  <2>1. backings[b].refs = m + Pins[b] /\ b \in Backings
    BY DEF TInv, TypeOK, PinnedExact
  <2>2. HeldBy(Deps, b) = D /\ HeldBy(Copies, b) = K
    BY DEF HeldBy, Deps, Copies
  <2>3. Pins[b] = Cardinality(HeldBy(Deps, b)) + Cardinality(HeldBy(Copies, b))
    BY <2>1 DEF Pins
  <2>4. Cardinality(HeldBy(Deps, b)) \in Nat /\ Cardinality(HeldBy(Copies, b)) \in Nat
    BY PagesFinite
  <2>5. m \in Nat
    <3>1. Pointing(Owners, b) = {a \in DOMAIN pages : pages[a].backing = b}
      BY DEF Pointing, Owners
    <3> QED
      BY <3>1, OwnersCounted
  <2> HIDE DEF m, D, K
  <2>6. backings[b].refs = m + Cardinality(D) + Cardinality(K)
    BY <2>1, <2>2, <2>3, <2>4, <2>5
  <2> QED
    BY <2>6 DEF m, D, K
<1>2. \A a \in DOMAIN pages : pages[a].backing # NoBacking => pages[a].backing \in DOMAIN backings
  BY DEF TInv, PinnedExact
<1> QED
  BY <1>1, <1>2, PinnedAlive DEF PinsExact

\* memory.c's transaction table is type correct: what a thread records, reads and
\* commits stays within its dependencies, and stripes are held only while copying.
THEOREM TransactionsTyped == TSpec => []TTypeOK
<1>1. TInit => TInv
  BY TInitKeeps
<1>2. TInv /\ [TNext]_vars => TInv'
  BY TNextKeeps
<1>3. TInv => TTypeOK
  BY TInvTypes
<1> QED
  BY <1>1, <1>2, <1>3, PTL DEF TSpec

\* Whatever the threads do, every backing's count is exactly the pages, recorded
\* dependencies and unfinished commits that refer to it, and none refers to freed
\* storage (retain and drop in memory.c).
THEOREM PinsStayExact == TSpec => []PinsExact
<1>1. TInit => TInv
  BY TInitKeeps
<1>2. TInv /\ [TNext]_vars => TInv'
  BY TNextKeeps
<1>3. TInv => PinsExact
  BY TInvPins
<1> QED
  BY <1>1, <1>2, <1>3, PTL DEF TSpec

-----------------------------------------------------------------------------
(* Where no caller asks for a write-copy view, commits through aliases are  *)
(* alone: a commit then holds the stripe of every backing it copies to.     *)

\* No caller passes a write-copy protection.
NoCopyAsked == \A prot \in Protections : prot.access \notin WriteCopyAccess

\* No page is write-copy.
InPlace == \A p \in DOMAIN pages : pages[p].protection.access \notin WriteCopyAccess

\* A commit that is copying holds the stripes of what it copies to.
Covered(r) ==
    r.stage = "copying" => \A a \in DOMAIN r.copies : Stripe[r.copies[a].backing] \in r.writing

\* No stripe is held exclusively by two threads.
Apart == \A t, u \in Threads : t # u => txn[t].writing \cap txn[u].writing = {}

AInv == InPlace /\ Apart /\ \A t \in Threads : Covered(txn[t])

\* A step that keeps protections, takes them from a caller or takes access away.
LEMMA InPlaceStep ==
    ASSUME NoCopyAsked, InPlace,
           \A p \in DOMAIN pages' :
              \/ p \in DOMAIN pages /\ pages'[p].protection.access = pages[p].protection.access
              \/ \E prot \in Protections : pages'[p].protection = prot
              \/ pages'[p].protection.access \in {"NONE", "NOACCESS"}
    PROVE  InPlace'
BY DEF NoCopyAsked, InPlace, WriteCopyAccess

\* Detaching does nothing to other protections.
LEMMA DetachedSame ==
    ASSUME NEW x, x \notin WriteCopyAccess
    PROVE  Detached(x) = x
BY DEF Detached, WriteCopyAccess

\* Fresh reservations take their protection from the caller.
LEMMA FreshInPlace ==
    ASSUME NoCopyAsked, InPlace, NEW a, NEW n, NEW backing, NEW prot, NEW gen,
           prot \in Protections \/ prot.access = "NONE",
           pages' = Merge(pages, FreshPages(a, n, backing, prot, gen))
    PROVE  InPlace'
<1> DEFINE g == FreshPages(a, n, backing, prot, gen)
<1>1. \A p \in DOMAIN g : g[p].protection = prot
  BY DEF FreshPages
<1> HIDE DEF g
<1>2. /\ DOMAIN pages' = DOMAIN pages \cup DOMAIN g
      /\ \A p \in DOMAIN g : pages'[p] = g[p]
      /\ \A p \in DOMAIN pages \ DOMAIN g : pages'[p] = pages[p]
  BY MergeValues DEF g
<1> QED
  BY <1>1, <1>2, InPlaceStep

\* Pages given backings take their protection from the caller.
LEMMA WithBackingsInPlace ==
    ASSUME NoCopyAsked, InPlace, TypeOK, NEW a, NEW n, NEW f, NEW prot, NEW gen,
           prot \in Protections \/ prot.access = "NOACCESS",
           pages' = WithBackings(a, n, f, prot, gen)
    PROVE  InPlace'
<1>1. DOMAIN pages' = DOMAIN pages
  BY DEF WithBackings
<1>2. ASSUME NEW p \in DOMAIN pages
      PROVE  pages'[p] = pages[p] \/ pages'[p].protection = prot
  <2>1. pages[p] \in Page
    BY DEF TypeOK
  <2> QED
    BY <2>1 DEF WithBackings, Page
<1> QED
  BY <1>1, <1>2, InPlaceStep

\* The ordinary operations create no write-copy page.
LEMMA OperationInPlace ==
    ASSUME NoCopyAsked, InPlace, TypeOK, Next
    PROVE  InPlace'
<1>0. \A p \in DOMAIN pages : pages[p] \in Page /\ pages[p].protection.access \notin WriteCopyAccess
  BY DEF TypeOK, InPlace
<1>1. ASSUME pages' = pages PROVE InPlace'
  BY <1>1 DEF InPlace
<1>2. ASSUME NEW a, NEW n, Reserve(a, n) PROVE InPlace'
  <2>1. CASE \E k : OutOfMemory(k)
    BY <1>1, <2>1 DEF OutOfMemory
  <2>2. CASE \E b : pages' = Merge(pages, FreshPages(b, n, [p \in Span(b, n) |-> NoBacking],
                                                     NoProtection, nextGen))
    <3>1. NoProtection.access = "NONE"
      BY DEF NoProtection
    <3> QED
      BY <2>2, <3>1, FreshInPlace
  <2> QED
    BY <1>2, <2>1, <2>2 DEF Reserve
<1>3. ASSUME NEW a, NEW n, Release(a, n) PROVE InPlace'
  BY <1>3, InPlaceStep DEF Release
<1>4. ASSUME NEW a, NEW n, Unmap(a, n) PROVE InPlace'
  <2>1. \A p \in DOMAIN pages' : p \in DOMAIN pages /\ pages'[p].protection = pages[p].protection
    BY <1>0, <1>4 DEF Unmap, Page
  <2> QED
    BY <2>1, InPlaceStep
<1>5. ASSUME NEW a, NEW n, Decommit(a, n) PROVE InPlace'
  <2> DEFINE prot == [access |-> "NOACCESS", guard |-> FALSE]
             f == [p \in Span(a, n) |-> NoBacking]
  <2>1. prot.access = "NOACCESS" /\ pages' = WithBackings(a, n, f, prot, nextGen)
    BY <1>5 DEF Decommit
  <2> HIDE DEF prot, f
  <2> QED
    BY <2>1, WithBackingsInPlace
<1>6. ASSUME NEW a, NEW n, NEW prot \in Protections, Commit(a, n, prot) PROVE InPlace'
  BY <1>6, WithBackingsInPlace DEF Commit
<1>7. ASSUME NEW a, NEW n, NEW prot \in Protections, Protect(a, n, prot) PROVE InPlace'
  BY <1>7, WithBackingsInPlace DEF Protect
<1>8. ASSUME NEW a, NEW n, NEW h, NEW prot \in Protections, CommitExternal(a, h, n, prot)
      PROVE  InPlace'
  BY <1>8, WithBackingsInPlace DEF CommitExternal
<1>9. ASSUME NEW a, NEW s, NEW n, NEW prot \in Protections, Alias(a, s, n, prot) PROVE InPlace'
  <2>1. CASE \E k : OutOfMemory(k)
    BY <1>1, <2>1 DEF OutOfMemory
  <2>2. CASE \E g : pages' = Merge(pages, FreshPages(a, n, g, prot, nextGen))
    BY <2>2, FreshInPlace
  <2> QED
    BY <1>9, <2>1, <2>2 DEF Alias
<1>10. ASSUME NEW a, NEW n, NEW prot \in Protections, MapIdentity(a, n, prot) PROVE InPlace'
  <2>1. CASE \E k : OutOfMemory(k)
    BY <1>1, <2>1 DEF OutOfMemory
  <2>2. CASE \E g : pages' = Merge(pages, FreshPages(a, n, g, prot, nextGen + n))
    BY <2>2, FreshInPlace
  <2> QED
    BY <1>10, <2>1, <2>2 DEF MapIdentity
<1>11. ASSUME NEW h, BindKuser(h) PROVE InPlace'
  <2>1. \A p \in DOMAIN pages' : p \in DOMAIN pages /\ pages'[p].protection = pages[p].protection
    BY <1>0, <1>11 DEF BindKuser, Page
  <2> QED
    BY <2>1, InPlaceStep
<1>12. ASSUME NEW a, NEW n, NEW mode, ConsumeGuard(a, n, mode) PROVE InPlace'
  <2>1. \A p \in DOMAIN pages' :
           p \in DOMAIN pages /\ pages'[p].protection.access = pages[p].protection.access
    BY <1>0, <1>12 DEF ConsumeGuard, Page, Protection
  <2> QED
    BY <2>1, InPlaceStep
<1>13. ASSUME NEW a, NEW n, NEW mode, ReadOrFetch(a, n, mode) PROVE InPlace'
  <2>1. DOMAIN pages' = DOMAIN pages
    BY <1>13 DEF ReadOrFetch
  <2>2. ASSUME NEW p \in DOMAIN pages
        PROVE  pages'[p].protection.access = pages[p].protection.access
    <3>1. pages[p] \in Page /\ Detached(pages[p].protection.access) = pages[p].protection.access
      BY <1>0, DetachedSame
    <3>2. \/ pages'[p] = pages[p]
          \/ pages'[p] = [pages[p] EXCEPT !.protection.access = Detached(@)]
      BY <1>13 DEF ReadOrFetch
    <3> QED
      BY <3>1, <3>2 DEF Page, Protection
  <2> QED
    BY <2>1, <2>2, InPlaceStep
<1>14. ASSUME NEW a, NEW n, NEW v, Write(a, n, v) PROVE InPlace'
  <2> DEFINE C == CopyOnWrite(a, n)
             G == nextGen + Cardinality(C)
             target(f) == [p \in Span(a, n) |-> IF p \in C THEN f[p] ELSE pages[p].backing]
  <2>0. PICK f \in Allocations(C) : pages' = [p \in DOMAIN pages |->
                   IF p \in Span(a, n)
                   THEN [pages[p] EXCEPT !.backing = target(f)[p],
                                         !.protection.access = Detached(@),
                                         !.generation = G + 2 * (p - a) + 2]
                   ELSE pages[p]]
    BY <1>14 DEF Write
  <2> DEFINE F == target(f)
  <2>1. pages' = [p \in DOMAIN pages |->
                   IF p \in Span(a, n)
                   THEN [pages[p] EXCEPT !.backing = F[p], !.protection.access = Detached(@),
                                         !.generation = G + 2 * (p - a) + 2]
                   ELSE pages[p]]
    BY <2>0
  <2> HIDE DEF F, G
  <2>2. DOMAIN pages' = DOMAIN pages
    BY <2>1
  <2>3. ASSUME NEW p \in DOMAIN pages
        PROVE  pages'[p].protection.access = pages[p].protection.access
    <3>1. pages[p] \in Page /\ Detached(pages[p].protection.access) = pages[p].protection.access
      BY <1>0, DetachedSame
    <3> DEFINE g == G + 2 * (p - a) + 2
    <3>2. \/ pages'[p] = pages[p]
          \/ pages'[p] = [pages[p] EXCEPT !.backing = F[p], !.protection.access = Detached(@),
                                          !.generation = g]
      BY <2>1
    <3> HIDE DEF g
    <3> QED
      BY <3>1, <3>2 DEF Page, Protection
  <2> QED
    BY <2>2, <2>3, InPlaceStep
<1>15. ASSUME NEW h, NEW v, HostWrite(h, v) PROVE InPlace'
  BY <1>1, <1>15 DEF HostWrite
<1>16. CASE Destroy
  BY <1>16 DEF Destroy, InPlace
<1> QED
  BY <1>2, <1>3, <1>4, <1>5, <1>6, <1>7, <1>8, <1>9, <1>10, <1>11, <1>12, <1>13, <1>14, <1>15,
     <1>16, Zenon DEF Next, Operation

\* A step of t that takes no stripe.
LEMMA CoveredStep ==
    ASSUME AInv, NEW t \in Threads, \A u \in Threads \ {t} : txn'[u] = txn[u],
           txn'[t].writing \subseteq txn[t].writing, Covered(txn'[t]), InPlace'
    PROVE  AInv'
BY DEF AInv, Apart, Covered

\* Taking a guard off a page.
LEMMA GuardInPlace ==
    ASSUME NoCopyAsked, InPlace, TypeOK, NEW a, NEW g,
           pages' = [pages EXCEPT ![a].protection.guard = FALSE, ![a].generation = g]
    PROVE  InPlace'
<1>1. \A p \in DOMAIN pages : pages[p] \in Page
  BY DEF TypeOK
<1>2. \A p \in DOMAIN pages' :
         p \in DOMAIN pages /\ pages'[p].protection.access = pages[p].protection.access
  BY <1>1 DEF Page, Protection
<1> QED
  BY <1>2, InPlaceStep

\* The other threads' transactions are not touched, and the step takes no stripe.
Aside(t) ==
    /\ \A u \in Threads \ {t} : txn'[u] = txn[u]
    /\ txn'[t].writing = txn[t].writing
    /\ txn'[t].stage # "copying"

\* Steps that only move t to another stage.
LEMMA AsideStep ==
    ASSUME TxnTyped, NEW t \in Threads, NEW x, x # "copying", txn' = [txn EXCEPT ![t].stage = x]
    PROVE  Aside(t)
BY DEF TxnTyped, Txn, Aside

\* The steps of a transaction that take no stripe and copy nothing.
LEMMA TransactionAside ==
    ASSUME TxnTyped, NEW t \in Threads,
           \/ Begin(t) \/ Finish(t) \/ End(t) \/ DropPins(t)
           \/ \E a \in TxnPages : \/ Snapshot(t, a) \/ Record(t, a)
                                  \/ \E mode \in {"read", "write", "fetch"} : Validate(t, a, mode)
           \/ \E W \in SUBSET TxnPages : CommitFails(t, W) \/ CommitGuard(t, W)
    PROVE  Aside(t)
<1>1. txn \in [Threads -> Txn]
  BY DEF TxnTyped
<1>2. ASSUME Stop(t) PROVE Aside(t)
  BY <1>2, AsideStep DEF Stop
<1>3. ASSUME Begin(t) \/ Finish(t) PROVE Aside(t)
  BY <1>3, AsideStep DEF Begin, Finish
<1>4. CASE End(t)
  BY <1>1, <1>4, TxnFields DEF End, Idle, Aside, TxnTyped, WellShaped
<1>5. CASE DropPins(t)
  BY <1>1, <1>5 DEF DropPins, Aside, Txn
<1>6. ASSUME NEW a \in TxnPages, Snapshot(t, a) PROVE Aside(t)
  <2> DEFINE sh == Merge(txn[t].shadow, [x \in {a} |-> Content(pages[a].backing)])
             d == Merge(txn[t].deps, [x \in {a} |-> NewDependency(a)])
  <2>1. \/ txn' = [txn EXCEPT ![t].deps = d, ![t].shadow = sh]
        \/ txn' = [txn EXCEPT ![t].shadow = sh] \/ Stop(t)
    BY <1>6 DEF Snapshot
  <2>2. txn[t].stage = "open"
    BY <1>6 DEF Snapshot
  <2> HIDE DEF sh, d
  <2> QED
    BY <1>1, <1>2, <2>1, <2>2 DEF Txn, Aside
<1>7. ASSUME NEW a \in TxnPages, Record(t, a) PROVE Aside(t)
  <2> DEFINE d == Merge(txn[t].deps, [x \in {a} |-> NewDependency(a)])
  <2>1. txn' = [txn EXCEPT ![t].deps = d] /\ txn[t].stage = "open"
    BY <1>7 DEF Record
  <2> HIDE DEF d
  <2> QED
    BY <1>1, <2>1 DEF Txn, Aside
<1>8. ASSUME NEW a \in TxnPages, NEW mode, Validate(t, a, mode) PROVE Aside(t)
  <2> DEFINE sh == Without(txn[t].shadow, a)
             q == [txn[t].deps[a] EXCEPT !.protection.guard = FALSE, !.generation = nextGen + 1,
                                         !.hash = HashOf(txn[t].deps[a].backing)]
             d == [txn[t].deps EXCEPT ![a] = q]
  <2>0. \/ Stop(t)
        \/ txn' = [txn EXCEPT ![t].stage = "stopping",
                              ![t].deps[a] = [@ EXCEPT !.protection.guard = FALSE,
                                                       !.generation = nextGen + 1,
                                                       !.hash = HashOf(txn[t].deps[a].backing)],
                              ![t].shadow = Without(@, a)]
    BY <1>8 DEF Validate
  <2>1. \/ Stop(t)
        \/ txn' = [txn EXCEPT ![t].stage = "stopping", ![t].deps = d, ![t].shadow = sh]
    BY <2>0
  <2> HIDE DEF sh, d
  <2> QED
    BY <1>1, <1>2, <2>1 DEF Txn, Aside
<1>9. ASSUME NEW W, CommitFails(t, W) PROVE Aside(t)
  BY <1>2, <1>9 DEF CommitFails
<1>10. ASSUME NEW W, CommitGuard(t, W) PROVE Aside(t)
  <2>1. PICK g \in W : txn' = [txn EXCEPT ![t].stage = "stopping",
                                ![t].deps[g] = [@ EXCEPT !.protection.guard = FALSE,
                                                         !.generation = nextGen + 1],
                                ![t].shadow = Without(@, g)]
    BY <1>10 DEF CommitGuard
  <2> DEFINE sh == Without(txn[t].shadow, g)
             q == [txn[t].deps[g] EXCEPT !.protection.guard = FALSE, !.generation = nextGen + 1]
             d == [txn[t].deps EXCEPT ![g] = q]
  <2>2. txn' = [txn EXCEPT ![t].stage = "stopping", ![t].deps = d, ![t].shadow = sh]
    BY <2>1
  <2> HIDE DEF sh, d
  <2> QED
    BY <1>1, <2>2 DEF Txn, Aside
<1> QED
  BY <1>3, <1>4, <1>5, <1>6, <1>7, <1>8, <1>9, <1>10, Zenon

\* With no write-copy page a commit makes no copies.
LEMMA NothingCopied ==
    ASSUME InPlace, NEW t, NEW W, CommitKnows(t, W)
    PROVE  Copied(W) = {}
<1> SUFFICES ASSUME NEW a \in W, NEW p \in CopyOnWrite(a, 1) PROVE FALSE
  BY DEF Copied
<1>1. p \in Copied(W)
  BY DEF Copied
<1>2. p \in DOMAIN pages
  BY <1>1 DEF CommitKnows
<1> QED
  BY <1>2 DEF InPlace, CopyOnWrite

\* The stripes a commit takes include those of its pages' backings.
LEMMA WrittenStriped ==
    ASSUME TypeOK, NEW t, NEW W, CommitKnows(t, W), NEW a \in W
    PROVE  Stripe[pages[a].backing] \in WriteStripes(W)
<1>1. a \in DOMAIN pages /\ pages[a].backing \in Backings
  BY DEF CommitKnows, TypeOK
<1>2. pages[a].backing # NoBacking
  BY <1>1, BackingAssumption
<1>3. Stripe[pages[a].backing] \in PageStripes(a, MappedBacking(a))
  BY <1>1, <1>2 DEF PageStripes, MappedBacking
<1> QED
  BY <1>3 DEF WriteStripes

\* A commit that succeeds takes the stripes of its pages and of their backings,
\* and with no write-copy page those are the backings it copies to.
LEMMA CommitCovered ==
    ASSUME TInv, NoCopyAsked, AInv, NEW t \in Threads, NEW W, NEW v \in [W -> Stores],
           CommitPages(t, W, v)
    PROVE  AInv'
<1>1. CommitKnows(t, W)
  BY CommitKnown
<1>2. TypeOK /\ Writable(WriteStripes(W)) /\ InPlace
  BY DEF TInv, CommitPages, CommitReady, AInv
<1>3. PICK f \in Allocations(Copied(W)) : CommitsAs(t, W, v, f)
  BY CommitParts
<1>4. Targets(W, f, Target(W, f))
  BY <1>1, <1>2, TargetTyped
<1>5. Becomes(t, "copying", CommitDeps(t, W, f, v), Merge(txn[t].shadow, v),
              CommitCopies(t, W, f), DependencyStripes(t) \ WriteStripes(W), WriteStripes(W))
  BY <1>1, <1>3, <1>4, CommitTxn DEF CommitsAs
<1>6. Copied(W) = {}
  BY <1>1, <1>2, NothingCopied
<1>7. ASSUME NEW a \in W PROVE Stripe[Target(W, f)[a]] \in WriteStripes(W)
  <2>1. Target(W, f)[a] = pages[a].backing
    BY <1>4, <1>6 DEF Targets
  <2> QED
    BY <1>1, <1>2, <2>1, WrittenStriped
<1>8. Covered(txn'[t])
  <2>1. /\ DOMAIN CommitCopies(t, W, f) = W
        /\ \A a \in W : CommitCopies(t, W, f)[a].backing = Target(W, f)[a]
    BY <1>1, <1>4, CommitCopiesTyped
  <2> QED
    BY <1>5, <1>7, <2>1 DEF Becomes, Covered
<1>9. InPlace'
  <2>1. pages' = CommitTo(W, f)
    BY <1>3 DEF CommitsAs
  <2>2. DOMAIN pages' = DOMAIN pages /\ \A a \in DOMAIN pages \ W : pages'[a] = pages[a]
    BY <2>1 DEF CommitTo
  <2>3. ASSUME NEW a \in W
        PROVE  pages'[a].protection.access = pages[a].protection.access
    <3> DEFINE g == nextGen + 2 * Rank(W, a) + 2
               F == Target(W, f)
    <3>1. a \in DOMAIN pages /\ pages[a] \in Page
      BY <1>1 DEF CommitKnows
    <3>2. Detached(pages[a].protection.access) = pages[a].protection.access
      BY <1>2, <3>1, DetachedSame DEF InPlace
    <3>3. pages'[a] = [pages[a] EXCEPT !.backing = F[a], !.protection.access = Detached(@),
                                       !.generation = g]
      BY <2>1, <3>1 DEF CommitTo
    <3> HIDE DEF g, F
    <3> QED
      BY <3>1, <3>2, <3>3 DEF Page, Protection
  <2> QED
    BY <1>2, <2>2, <2>3, InPlaceStep
<1>10. Apart'
  <2>1. \A u \in Threads : WriteStripes(W) \cap txn[u].writing = {}
    BY <1>2 DEF Writable
  <2> QED
    BY <1>5, <2>1 DEF AInv, Apart, Becomes
<1>11. \A u \in Threads \ {t} : Covered(txn'[u])
  BY <1>5 DEF AInv, Becomes, Covered
<1> QED
  BY <1>8, <1>9, <1>10, <1>11 DEF AInv

\* Copying a line leaves what is copied to and the stripes as they are.
LEMMA CopyCovered ==
    ASSUME TInv, AInv, NEW t \in Threads, CopyLine(t)
    PROVE  AInv'
<1>1. /\ txn \in [Threads -> Txn] /\ pages' = pages /\ TxnTyped
  BY DEF TInv, TxnTyped, CopyLine
<1>2. PICK a \in DOMAIN txn[t].copies, l \in Lines :
         txn' = [txn EXCEPT ![t].copies[a] = [@ EXCEPT !.left = txn[t].copies[a].left \ {l}]]
  BY DEF CopyLine
<1> DEFINE c == txn[t].copies
           q == [c[a] EXCEPT !.left = c[a].left \ {l}]
           c2 == [c EXCEPT ![a] = q]
<1>3. txn' = [txn EXCEPT ![t].copies = c2]
  BY <1>2
<1>4. c[a] \in Copy
  BY <1>1, TxnFields
<1>5. q.backing = c[a].backing
  BY <1>4 DEF Copy
<1> HIDE DEF q
<1>6. DOMAIN c2 = DOMAIN c /\ \A p \in DOMAIN c : c2[p].backing = c[p].backing
  BY <1>5
<1> HIDE DEF c2
<1>7. /\ \A u \in Threads \ {t} : txn'[u] = txn[u]
      /\ txn'[t].writing = txn[t].writing /\ txn'[t].copies = c2 /\ txn'[t].stage = txn[t].stage
  BY <1>1, <1>3 DEF Txn
<1>8. Covered(txn'[t])
  BY <1>6, <1>7 DEF AInv, Covered
<1>9. InPlace'
  BY <1>1 DEF AInv, InPlace
<1> QED
  BY <1>7, <1>8, <1>9, CoveredStep

\* Giving the stripes back.
LEMMA ReleaseCovered ==
    ASSUME TInv, AInv, NEW t \in Threads, ReleaseStripes(t)
    PROVE  AInv'
<1>1. /\ txn \in [Threads -> Txn] /\ pages' = pages
      /\ txn' = [txn EXCEPT ![t].stage = "unpinning", ![t].reading = {}, ![t].writing = {}]
  BY DEF TInv, TxnTyped, ReleaseStripes, memoryVars
<1>2. /\ \A u \in Threads \ {t} : txn'[u] = txn[u]
      /\ txn'[t].writing = {} /\ txn'[t].stage = "unpinning"
  BY <1>1 DEF Txn
<1>3. InPlace'
  BY <1>1 DEF AInv, InPlace
<1> QED
  BY <1>2, <1>3, CoveredStep DEF Covered

\* Every step keeps the commits apart.
LEMMA TNextCovered ==
    ASSUME TInv, NoCopyAsked, AInv, [TNext]_vars
    PROVE  AInv'
<1>1. TypeOK /\ TxnTyped /\ InPlace
  BY DEF TInv, AInv
<1>2. CASE UNCHANGED vars
  BY <1>2 DEF vars, memoryVars, AInv, InPlace, Apart, Covered
<1>3. CASE alive /\ Ordinary
  <2>1. txn' = txn
    BY <1>3 DEF Ordinary
  <2>2. InPlace'
    BY <1>1, <1>3, OrdinaryNext, OperationInPlace
  <2> QED
    BY <2>1, <2>2 DEF AInv, Apart, Covered
<1>4. ASSUME NEW t \in Threads, Transaction(t) PROVE AInv'
  <2>1. ASSUME pages' = pages, Aside(t) PROVE AInv'
    <3>1. InPlace'
      BY <1>1, <2>1 DEF InPlace
    <3> QED
      BY <2>1, <3>1, CoveredStep DEF Aside, Covered
  <2>2. ASSUME NEW a, NEW g, Aside(t),
               pages' = [pages EXCEPT ![a].protection.guard = FALSE, ![a].generation = g]
        PROVE  AInv'
    <3>1. InPlace'
      BY <1>1, <2>2, GuardInPlace
    <3> QED
      BY <2>2, <3>1, CoveredStep DEF Aside, Covered
  <2>3. CASE Begin(t) \/ Finish(t) \/ End(t) \/ DropPins(t)
    BY <1>1, <2>1, <2>3, TransactionAside DEF Begin, Finish, End, DropPins, memoryVars
  <2>4. ASSUME NEW a \in TxnPages, Snapshot(t, a) \/ Record(t, a) PROVE AInv'
    BY <1>1, <2>1, <2>4, TransactionAside DEF Snapshot, Record
  <2>5. ASSUME NEW a \in TxnPages, NEW mode \in {"read", "write", "fetch"}, Validate(t, a, mode)
        PROVE  AInv'
    <3>1. Aside(t)
      BY <1>1, <2>5, TransactionAside
    <3>2. \/ pages' = pages
          \/ pages' = [pages EXCEPT ![a].protection.guard = FALSE, ![a].generation = nextGen + 1]
      BY <2>5 DEF Validate, memoryVars
    <3> QED
      BY <2>1, <2>2, <3>1, <3>2
  <2>6. ASSUME NEW W \in SUBSET TxnPages, CommitFails(t, W) PROVE AInv'
    BY <1>1, <2>1, <2>6, TransactionAside DEF CommitFails, memoryVars
  <2>7. ASSUME NEW W \in SUBSET TxnPages, CommitGuard(t, W) PROVE AInv'
    <3>1. Aside(t)
      BY <1>1, <2>7, TransactionAside
    <3>2. \E g : pages' = [pages EXCEPT ![g].protection.guard = FALSE,
                                        ![g].generation = nextGen + 1]
      BY <2>7 DEF CommitGuard
    <3> QED
      BY <2>2, <3>1, <3>2
  <2>8. ASSUME NEW W \in SUBSET TxnPages, NEW v \in [W -> Stores], CommitPages(t, W, v)
        PROVE  AInv'
    BY <2>8, CommitCovered
  <2>9. CASE CopyLine(t) \/ ReleaseStripes(t)
    BY <2>9, CopyCovered, ReleaseCovered
  <2> QED
    BY <1>4, <2>3, <2>4, <2>5, <2>6, <2>7, <2>8, <2>9, Zenon DEF Transaction
<1> QED
  BY <1>2, <1>3, <1>4 DEF TNext

\* At first no page is write-copy and no stripe is held.
LEMMA TInitCovered == TInit => AInv
<1> SUFFICES ASSUME TInit PROVE AInv
  OBVIOUS
<1>1. Init /\ txn = [t \in Threads |-> Idle]
  BY DEF TInit
<1>2. InPlace
  BY <1>1 DEF Init, InPlace, WriteCopyAccess
<1>3. \A t \in Threads : txn[t].writing = {} /\ txn[t].stage = "idle"
  BY <1>1 DEF Idle
<1> QED
  BY <1>2, <1>3 DEF AInv, Apart, Covered

\* Where no caller asks for a write-copy view, two guest aliases of the same bytes
\* are never copied by two commits at once: each holds the stripe of the backing
\* exclusively (gem_memory_transaction_commit_pages, ADR 0010).
THEOREM AliasesStayAlone ==
    ASSUME \A prot \in Protections : prot.access \notin WriteCopyAccess
    PROVE  TSpec => []AliasesCommitAlone
<1> DEFINE Inv == TInv /\ AInv
<1>0. NoCopyAsked
  BY DEF NoCopyAsked
<1>1. TInit => Inv
  BY TInitKeeps, TInitCovered
<1>2. Inv /\ [TNext]_vars => Inv'
  BY <1>0, TNextKeeps, TNextCovered
<1>3. Inv => AliasesCommitAlone
  BY DEF AInv, Apart, Covered, AliasesCommitAlone
<1> QED
  BY <1>1, <1>2, <1>3, PTL DEF TSpec

-----------------------------------------------------------------------------
(* What an engine has read is what memory holds, as long as the stamps say  *)
(* so, and a commit's bytes land whole.  T are the transactions, B the      *)
(* backings and n the last generation given out.                            *)

\* The recorded content generation is still the backing's.
Matching(B, d) == ~d.external /\ B[d.backing].generation = d.contentGeneration

\* Nothing recorded or stored has a stamp from the future.
StampsPast(T, B, n) ==
    /\ n \in Nat /\ n >= 3
    /\ \A b \in DOMAIN B : B[b].generation \in 0 .. n
    /\ \A t \in Threads : \A a \in DOMAIN T[t].deps : T[t].deps[a].contentGeneration \in 0 .. n

\* Whose storage a dependency is about is known.
ExternalKnown(T, B) ==
    \A t \in Threads : \A a \in DOMAIN T[t].deps :
        T[t].deps[a].external <=> B[T[t].deps[a].backing].host # NoHost

\* The hash of caller-owned bytes is that of the bytes read.
Hashed(T) ==
    \A t \in Threads : \A a \in DOMAIN T[t].shadow :
        T[t].deps[a].external => T[t].deps[a].hash = Hash(T[t].shadow[a])

\* While t copies to a backing, nobody's record of it is current but that of
\* the last page t commits to it.
OneWriter(T, B) ==
    \A t, u \in Threads : \A q \in DOMAIN T[t].copies, a \in DOMAIN T[u].deps :
        /\ T[t].stage = "copying" /\ Matching(B, T[u].deps[a])
        /\ T[u].deps[a].backing = T[t].copies[q].backing
        => u = t /\ a \in DOMAIN T[t].copies /\ q <= a

\* A current record is of the bytes read, unless they are just being copied.
Tracked(T, B) ==
    \A u \in Threads : \A a \in DOMAIN T[u].shadow :
        Matching(B, T[u].deps[a]) =>
            \/ T[u].stage = "copying" /\ a \in DOMAIN T[u].copies
            \/ T[u].shadow[a] = B[T[u].deps[a].backing].data

\* The lines copied so far of the last page of each backing are in place.
LinesLanded(T, B) ==
    \A t \in Threads : \A a \in DOMAIN T[t].copies :
        /\ T[t].stage = "copying" /\ ~T[t].deps[a].external
        /\ \A q \in DOMAIN T[t].copies : T[t].copies[q].backing = T[t].copies[a].backing => q <= a
        => \A l \in Lines \ T[t].copies[a].left :
              B[T[t].copies[a].backing].data[l] = T[t].shadow[a][l]

\* Pages are copied one after another.
PagesInOrder(T) ==
    \A t \in Threads : \A a, q \in DOMAIN T[t].copies :
        /\ T[t].stage = "copying" /\ a < q
        /\ T[t].copies[a].left # {} /\ ~T[t].deps[q].external
        => T[t].copies[q].left = Lines

\* A commit copies to where its own records point.
CopiesFollow(T) ==
    \A t \in Threads : \A a \in DOMAIN T[t].copies :
        T[t].stage = "copying" => T[t].copies[a].backing = T[t].deps[a].backing

Reads(T, B, n) ==
    /\ StampsPast(T, B, n) /\ ExternalKnown(T, B) /\ Hashed(T) /\ OneWriter(T, B)
    /\ Tracked(T, B) /\ LinesLanded(T, B) /\ PagesInOrder(T) /\ CopiesFollow(T)

Shaped(T) == \A t \in Threads : WellShaped(T[t])

VInv == Reads(txn, backings, nextGen)

\* The backings change under unchanged transactions: those recorded are kept or
\* stamped anew, and those being copied to keep their bytes.
Carried(T, B, n, B2, n2) ==
    /\ n2 \in Nat /\ n <= n2 /\ \A b \in DOMAIN B2 : B2[b].generation \in 0 .. n2
    /\ \A t \in Threads : \A a \in DOMAIN T[t].deps :
          /\ T[t].deps[a].backing \in DOMAIN B2
          /\ B2[T[t].deps[a].backing].host = B[T[t].deps[a].backing].host
          /\ \/ /\ B2[T[t].deps[a].backing].data = B[T[t].deps[a].backing].data
                /\ B2[T[t].deps[a].backing].generation = B[T[t].deps[a].backing].generation
             \/ B2[T[t].deps[a].backing].generation > n
    /\ \A t \in Threads : \A a \in DOMAIN T[t].copies :
          T[t].stage = "copying" =>
              B2[T[t].copies[a].backing].data = B[T[t].copies[a].backing].data

\* Then everything stays as recorded.
LEMMA CarriedReads ==
    ASSUME NEW T, NEW B, NEW n, NEW B2, NEW n2, Shaped(T), Reads(T, B, n),
           Carried(T, B, n, B2, n2)
    PROVE  Reads(T, B2, n2)
<1>1. /\ StampsPast(T, B, n) /\ ExternalKnown(T, B) /\ Hashed(T) /\ OneWriter(T, B)
      /\ Tracked(T, B) /\ LinesLanded(T, B) /\ PagesInOrder(T) /\ CopiesFollow(T)
  BY DEF Reads
<1>2. StampsPast(T, B2, n2)
  BY <1>1 DEF StampsPast, Carried
<1>3. ExternalKnown(T, B2)
  BY <1>1 DEF ExternalKnown, Carried
<1>4. ASSUME NEW u \in Threads, NEW a \in DOMAIN T[u].deps, Matching(B2, T[u].deps[a])
      PROVE  /\ Matching(B, T[u].deps[a])
             /\ B2[T[u].deps[a].backing].data = B[T[u].deps[a].backing].data
  <2> DEFINE d == T[u].deps[a]
             b == d.backing
  <2>1. /\ d.contentGeneration \in 0 .. n /\ b \in DOMAIN B2 /\ B2[b].generation \in 0 .. n2
        /\ n \in Nat /\ n2 \in Nat
    BY <1>1 DEF StampsPast, Carried
  <2>2. \/ B2[b].data = B[b].data /\ B2[b].generation = B[b].generation
        \/ B2[b].generation > n
    BY DEF Carried
  <2>3. ~d.external /\ B2[b].generation = d.contentGeneration
    BY <1>4 DEF Matching
  <2> HIDE DEF d, b
  <2>4. ~(B2[b].generation > n)
    BY <2>1, <2>3
  <2> QED
    BY <2>2, <2>3, <2>4 DEF Matching, d, b
<1>5. OneWriter(T, B2)
  BY <1>1, <1>4 DEF OneWriter
<1>6. Tracked(T, B2)
  BY <1>1, <1>4 DEF Tracked, Shaped, WellShaped
<1>7. LinesLanded(T, B2)
  BY <1>1 DEF LinesLanded, Carried
<1> QED
  BY <1>1, <1>2, <1>3, <1>5, <1>6, <1>7 DEF Reads

\* One thread's transaction changes outside the copying stage: what remains of its
\* records and reads is unchanged but for mapping generation and protection.
Trimmed(T, t, T2) ==
    /\ \A u \in Threads \ {t} : T2[u] = T[u]
    /\ T[t].stage # "copying" /\ T2[t].stage # "copying"
    /\ DOMAIN T2[t].deps \subseteq DOMAIN T[t].deps
    /\ DOMAIN T2[t].shadow \subseteq DOMAIN T[t].shadow
    /\ \A a \in DOMAIN T2[t].deps :
          /\ T2[t].deps[a].backing = T[t].deps[a].backing
          /\ T2[t].deps[a].contentGeneration = T[t].deps[a].contentGeneration
          /\ T2[t].deps[a].external = T[t].deps[a].external
    /\ \A a \in DOMAIN T2[t].shadow :
          T2[t].shadow[a] = T[t].shadow[a] /\ T2[t].deps[a].hash = T[t].deps[a].hash

\* Such a step disturbs nothing.
LEMMA TrimmedReads ==
    ASSUME NEW T, NEW B, NEW n, NEW t \in Threads, NEW T2, Shaped(T2), Reads(T, B, n), Trimmed(T, t, T2)
    PROVE  Reads(T2, B, n)
<1>1. /\ StampsPast(T, B, n) /\ ExternalKnown(T, B) /\ Hashed(T) /\ OneWriter(T, B)
      /\ Tracked(T, B) /\ LinesLanded(T, B) /\ PagesInOrder(T) /\ CopiesFollow(T)
  BY DEF Reads
<1>2. ASSUME NEW u \in Threads, NEW a \in DOMAIN T2[u].deps
      PROVE  /\ a \in DOMAIN T[u].deps
             /\ T2[u].deps[a].backing = T[u].deps[a].backing
             /\ T2[u].deps[a].contentGeneration = T[u].deps[a].contentGeneration
             /\ T2[u].deps[a].external = T[u].deps[a].external
             /\ Matching(B, T2[u].deps[a]) => Matching(B, T[u].deps[a])
  BY DEF Trimmed, Matching
<1>3. ASSUME NEW u \in Threads, T2[u].stage = "copying" PROVE u # t /\ T2[u] = T[u]
  BY <1>3 DEF Trimmed
<1>4. ASSUME NEW u \in Threads, NEW a \in DOMAIN T2[u].shadow
      PROVE  /\ a \in DOMAIN T[u].shadow /\ a \in DOMAIN T2[u].deps
             /\ T2[u].shadow[a] = T[u].shadow[a] /\ T2[u].deps[a].hash = T[u].deps[a].hash
  BY DEF Trimmed, Shaped, WellShaped
<1>5. StampsPast(T2, B, n)
  BY <1>1, <1>2 DEF StampsPast
<1>6. ExternalKnown(T2, B)
  BY <1>1, <1>2 DEF ExternalKnown
<1>7. Hashed(T2)
  BY <1>1, <1>2, <1>4 DEF Hashed
<1>8. OneWriter(T2, B)
  BY <1>1, <1>2, <1>3 DEF OneWriter
<1>9. Tracked(T2, B)
  <2> SUFFICES ASSUME NEW u \in Threads, NEW a \in DOMAIN T2[u].shadow, Matching(B, T2[u].deps[a])
               PROVE  \/ T2[u].stage = "copying" /\ a \in DOMAIN T2[u].copies
                      \/ T2[u].shadow[a] = B[T2[u].deps[a].backing].data
    BY DEF Tracked
  <2>1. \/ T[u].stage = "copying" /\ a \in DOMAIN T[u].copies
        \/ T[u].shadow[a] = B[T[u].deps[a].backing].data
    BY <1>1, <1>2, <1>4 DEF Tracked
  <2>2. CASE u = t
    BY <1>2, <1>4, <2>1, <2>2 DEF Trimmed
  <2>3. CASE u # t
    BY <2>1, <2>3 DEF Trimmed
  <2> QED
    BY <2>2, <2>3
<1>10. LinesLanded(T2, B)
  BY <1>1, <1>3 DEF LinesLanded
<1>11. PagesInOrder(T2) /\ CopiesFollow(T2)
  BY <1>1, <1>3 DEF PagesInOrder, CopiesFollow
<1> QED
  BY <1>5, <1>6, <1>7, <1>8, <1>9, <1>10, <1>11 DEF Reads

\* Whatever a transaction names is alive.
AllPinned ==
    \A t \in Threads :
        /\ \A a \in DOMAIN txn[t].deps : txn[t].deps[a].backing \in DOMAIN backings
        /\ \A a \in DOMAIN txn[t].copies : txn[t].copies[a].backing \in DOMAIN backings

\* It is so before a step and after it.
LEMMA PinnedAliveNext == (TInv => AllPinned) /\ (TInv' => AllPinned')
<1>1. TInv => AllPinned
  BY PinnedAlive DEF AllPinned
<1> QED
  BY <1>1, PTL

\* An ordinary operation that stores holds the stripes of its range.
LEMMA OrdinarySplit ==
    ASSUME Ordinary
    PROVE  NonWrite \/ \E r \in Ranges : \E v : Writable(RangeStripes(r[1], r[2])) /\ Write(r[1], r[2], v)
<1>1. Stores \subseteq Contents
  BY TransactionAssumption
<1>2. ASSUME NEW h \in HostPages, NEW v \in Stores, HostWrite(h, v) PROVE NonWrite
  BY <1>1, <1>2 DEF NonWrite
<1>3. ASSUME NEW r \in Ranges, Writable(RangeStripes(r[1], r[2])), Exclusive(r[1], r[2])
      PROVE  NonWrite \/ \E x \in Ranges : \E v : Writable(RangeStripes(x[1], x[2])) /\ Write(x[1], x[2], v)
  BY <1>3, Zenon DEF Exclusive, NonWrite
<1>4. ASSUME NEW r \in Ranges, Shared(r[1], r[2]) PROVE NonWrite
  BY <1>4, Zenon DEF Shared, NonWrite
<1>5. ASSUME NEW r \in Ranges, Reserve(r[1], r[2]) PROVE NonWrite
  BY <1>5, Zenon DEF NonWrite
<1>6. CASE (\E h \in HostPages : BindKuser(h)) \/ Destroy
  BY <1>6, Zenon DEF NonWrite
<1> QED
  BY <1>2, <1>3, <1>4, <1>5, <1>6, Zenon DEF Ordinary

\* No storage is handed out with a stamp from the future.
GarbagePast == \A g \in Garbage : g <= 3

\* Under an ordinary operation records stay current or are stamped over, and no
\* store reaches what a commit is copying to: the commit holds its stripe.
LEMMA OrdinaryReads ==
    ASSUME TInv, TInv', AInv, VInv, GarbagePast, alive, Ordinary
    PROVE  VInv'
<1>1. txn' = txn /\ Next /\ TypeOK /\ TypeOK' /\ TxnTyped
  BY OrdinaryNext DEF Ordinary, TInv
<1>2. Shaped(txn)
  BY <1>1 DEF TxnTyped, Shaped
<1>3. nextGen \in Nat /\ nextGen >= 3 /\ nextGen' \in Nat /\ nextGen <= nextGen'
  BY <1>1, NextTouched DEF PagesTouched, TypeOK, VInv, Reads, StampsPast
<1>4. AllPinned /\ AllPinned'
  BY PinnedAliveNext
<1>5. \A b \in DOMAIN backings : backings[b].generation \in 0 .. nextGen
  BY DEF VInv, Reads, StampsPast
<1>6. \A t \in Threads : \A a \in DOMAIN txn[t].deps :
        txn[t].deps[a].backing \in DOMAIN backings \cap DOMAIN backings'
  BY <1>1, <1>4 DEF AllPinned
<1>7. \A t \in Threads : \A a \in DOMAIN txn[t].copies :
        txn[t].copies[a].backing \in DOMAIN backings \cap DOMAIN backings'
  BY <1>1, <1>4 DEF AllPinned
<1>8. Carried(txn, backings, nextGen, backings', nextGen')
  <2>1. CASE NonWrite
    <3>1. BackingsKept
      BY <1>1, <2>1, NonWriteKept
    <3>2. \A b \in DOMAIN backings' : backings'[b].generation \in 0 .. nextGen'
      <4>1. \A g \in Garbage : g \in 0 .. nextGen'
        BY <1>3, BackingAssumption DEF GarbagePast
      <4>2. \A b \in DOMAIN backings \cap DOMAIN backings' :
               backings'[b].generation = backings[b].generation
        BY <3>1 DEF BackingsKept, BackingKept
      <4>3. \A b \in DOMAIN backings' \ DOMAIN backings : backings'[b].generation \in Garbage
        BY <3>1 DEF BackingsKept
      <4> QED
        BY <1>3, <1>5, <4>1, <4>2, <4>3
    <3> QED
      BY <1>3, <1>6, <1>7, <3>1, <3>2 DEF Carried, BackingsKept, BackingKept
  <2>2. ASSUME NEW r \in Ranges, NEW v, Writable(RangeStripes(r[1], r[2])), Write(r[1], r[2], v)
        PROVE  Carried(txn, backings, nextGen, backings', nextGen')
    <3> DEFINE a0 == r[1]
               n0 == r[2]
    <3>1. a0 \in Nat /\ n0 \in Nat
      BY AddressAssumption
    <3>2. /\ \A b \in DOMAIN backings' \ DOMAIN backings :
                 \/ backings'[b].generation = 0
                 \/ backings'[b].generation \in nextGen + 1 .. nextGen'
          /\ \A b \in DOMAIN backings \cap DOMAIN backings' :
                 /\ backings'[b].host = backings[b].host
                 /\ \/ BackingKept(b)
                    \/ /\ backings'[b].generation \in nextGen + 1 .. nextGen'
                       /\ \E p \in Span(a0, n0) : p \in DOMAIN pages /\ pages[p].backing = b
      BY <1>1, <2>2, <3>1, WriteContents
    <3>3. \A b \in DOMAIN backings' : backings'[b].generation \in 0 .. nextGen'
      BY <1>3, <1>5, <3>2 DEF BackingKept
    <3>4. ASSUME NEW t \in Threads, NEW a \in DOMAIN txn[t].copies, txn[t].stage = "copying"
          PROVE  BackingKept(txn[t].copies[a].backing)
      <4> DEFINE b == txn[t].copies[a].backing
      <4>1. Stripe[b] \in txn[t].writing
        BY <3>4 DEF AInv, Covered
      <4>2. ASSUME NEW p \in Span(a0, n0), p \in DOMAIN pages, pages[p].backing = b PROVE FALSE
        <5>1. b # NoBacking
          BY <1>1, <1>7, BackingAssumption DEF TypeOK
        <5>2. Stripe[b] \in PageStripes(p, MappedBacking(p))
          BY <4>2, <5>1 DEF PageStripes, MappedBacking
        <5>3. Stripe[b] \in RangeStripes(a0, n0)
          BY <5>2 DEF RangeStripes
        <5> QED
          BY <2>2, <4>1, <5>3 DEF Writable
      <4> QED
        BY <1>7, <3>2, <4>2
    <3>5. \A b \in DOMAIN backings \cap DOMAIN backings' :
             /\ backings'[b].host = backings[b].host
             /\ BackingKept(b) \/ backings'[b].generation > nextGen
      BY <1>3, <3>2
    <3> HIDE DEF a0, n0
    <3> QED
      BY <1>3, <1>6, <1>7, <3>3, <3>4, <3>5 DEF Carried, BackingKept
  <2> QED
    BY <2>1, <2>2, OrdinarySplit
<1>9. Reads(txn, backings', nextGen')
  BY <1>2, <1>8, CarriedReads DEF VInv
<1> QED
  BY <1>1, <1>9 DEF VInv

\* Every backing that is left has its bytes and its stamp.
Thinned == \A b \in DOMAIN backings' : b \in DOMAIN backings /\ BackingKept(b)

\* A step that trims one transaction and frees backings nobody names.
LEMMA TrimStep ==
    ASSUME TInv', VInv, NEW t \in Threads, Trimmed(txn, t, txn'),
           nextGen' \in Nat, nextGen <= nextGen', Thinned
    PROVE  VInv'
<1>1. Shaped(txn')
  BY DEF TInv, TxnTyped, Shaped
<1>2. Reads(txn', backings, nextGen)
  BY <1>1, TrimmedReads DEF VInv
<1>3. nextGen \in Nat /\ \A b \in DOMAIN backings : backings[b].generation \in 0 .. nextGen
  BY DEF VInv, Reads, StampsPast
<1>4. AllPinned'
  BY PinnedAliveNext
<1>5. \A b \in DOMAIN backings' : backings'[b].generation \in 0 .. nextGen'
  BY <1>3 DEF Thinned, BackingKept
<1>6. Carried(txn', backings, nextGen, backings', nextGen')
  BY <1>4, <1>5 DEF Carried, Thinned, BackingKept, AllPinned
<1>7. Reads(txn', backings', nextGen')
  BY <1>1, <1>2, <1>6, CarriedReads
<1> QED
  BY <1>7 DEF VInv

\* Steps that only move t to another stage.
LEMMA StageTrims ==
    ASSUME TxnTyped, NEW t \in Threads, NEW x \in Stages \ {"copying"}, txn[t].stage # "copying",
           txn' = [txn EXCEPT ![t].stage = x]
    PROVE  Trimmed(txn, t, txn')
<1>1. Becomes(t, x, txn[t].deps, txn[t].shadow, txn[t].copies, txn[t].reading, txn[t].writing)
  BY StageBecomes
<1> QED
  BY <1>1 DEF Becomes, Trimmed

\* Giving references back leaves bytes and stamps alone.
LEMMA GivingThins ==
    ASSUME TypeOK, NEW delta, backings' = Rebalance(backings, delta)
    PROVE  Thinned
<1>1. ASSUME NEW b \in DOMAIN backings' PROVE b \in DOMAIN backings /\ BackingKept(b)
  <2> DEFINE n == backings[b].refs + delta[b]
  <2>1. b \in DOMAIN backings /\ backings'[b] = [backings[b] EXCEPT !.refs = n]
    BY <1>1 DEF Rebalance
  <2>2. backings[b] \in Backing
    BY <2>1 DEF TypeOK
  <2> HIDE DEF n
  <2> QED
    BY <2>1, <2>2 DEF BackingKept, Backing
<1> QED
  BY <1>1 DEF Thinned

\* Beginning, stopping, finishing, ending and dropping the pins of a commit.
LEMMA StagesReads ==
    ASSUME TInv, TInv', VInv, NEW t \in Threads,
           \/ Begin(t) \/ Finish(t) \/ End(t) \/ DropPins(t) \/ \E W : CommitFails(t, W)
    PROVE  VInv'
<1>1. TxnTyped /\ TypeOK /\ nextGen \in Nat
  BY DEF TInv, TypeOK
<1>2. ASSUME UNCHANGED memoryVars, NEW x \in Stages \ {"copying"}, txn[t].stage # "copying",
             txn' = [txn EXCEPT ![t].stage = x]
      PROVE  VInv'
  <2>1. Thinned /\ nextGen' = nextGen
    BY <1>2 DEF memoryVars, Thinned, BackingKept
  <2>2. Trimmed(txn, t, txn')
    BY <1>1, <1>2, StageTrims
  <2>3. nextGen' \in Nat /\ nextGen <= nextGen'
    BY <1>1, <2>1
  <2> QED
    BY <2>1, <2>2, <2>3, TrimStep
<1>3. CASE Begin(t)
  BY <1>2, <1>3 DEF Begin, Stages
<1>4. CASE Finish(t)
  <2> DEFINE x == IF AllCurrent(t) THEN "committed" ELSE "conflicted"
  <2>1. txn' = [txn EXCEPT ![t].stage = x] /\ txn[t].stage # "copying" /\ UNCHANGED memoryVars
    BY <1>4 DEF Finish
  <2>2. x \in Stages \ {"copying"}
    BY DEF Stages
  <2> HIDE DEF x
  <2> QED
    BY <1>2, <2>1, <2>2
<1>5. CASE \E W : CommitFails(t, W)
  <2>1. txn' = [txn EXCEPT ![t].stage = "stopping"] /\ txn[t].stage # "copying" /\ UNCHANGED memoryVars
    BY <1>5 DEF CommitFails, CommitReady, Stop
  <2> QED
    BY <1>2, <2>1 DEF Stages
<1>6. CASE End(t)
  <2>1. Becomes(t, "idle", <<>>, <<>>, <<>>, {}, {}) /\ txn[t].stage # "copying"
    BY <1>1, <1>6, EndBecomes DEF End
  <2>2. Trimmed(txn, t, txn')
    BY <2>1 DEF Becomes, Trimmed
  <2>3. Thinned
    BY <1>1, <1>6, GivingThins DEF End
  <2>4. nextGen' = nextGen
    BY <1>6 DEF End
  <2> QED
    BY <1>1, <2>2, <2>3, <2>4, TrimStep
<1>7. CASE DropPins(t)
  <2>1. txn' = [txn EXCEPT ![t].stage = "open", ![t].copies = <<>>] /\ txn[t].stage = "unpinning"
    BY <1>7 DEF DropPins
  <2>2. Trimmed(txn, t, txn')
    BY <1>1, <2>1 DEF TxnTyped, Txn, Trimmed
  <2>3. Thinned
    BY <1>1, <1>7, GivingThins DEF DropPins
  <2>4. nextGen' = nextGen
    BY <1>7 DEF DropPins
  <2> QED
    BY <1>1, <2>2, <2>3, <2>4, TrimStep
<1> QED
  BY <1>3, <1>4, <1>5, <1>6, <1>7

\* A dependency that only got another mapping stamp or hash.
SameRecord(d, e) ==
    /\ e.backing = d.backing /\ e.contentGeneration = d.contentGeneration
    /\ e.external = d.external

\* One record of t is relabelled and its bytes are forgotten.
LEMMA RelabelTrims ==
    ASSUME TxnTyped, NEW t \in Threads, NEW a \in DOMAIN txn[t].deps, NEW e,
           SameRecord(txn[t].deps[a], e), txn[t].stage # "copying",
           txn' = [txn EXCEPT ![t].stage = "stopping", ![t].deps = [txn[t].deps EXCEPT ![a] = e],
                              ![t].shadow = Without(txn[t].shadow, a)]
    PROVE  Trimmed(txn, t, txn')
<1> DEFINE d2 == [txn[t].deps EXCEPT ![a] = e]
           sh2 == Without(txn[t].shadow, a)
<1>1. /\ DOMAIN sh2 = DOMAIN txn[t].shadow \ {a}
      /\ \A x \in DOMAIN sh2 : sh2[x] = txn[t].shadow[x]
  BY DEF Without
<1>2. /\ DOMAIN d2 = DOMAIN txn[t].deps
      /\ \A x \in DOMAIN d2 : IF x = a THEN d2[x] = e ELSE d2[x] = txn[t].deps[x]
  OBVIOUS
<1>3. DOMAIN txn[t].shadow \subseteq DOMAIN txn[t].deps
  BY TxnFields
<1> HIDE DEF d2, sh2
<1>4. txn' = [txn EXCEPT ![t].stage = "stopping", ![t].deps = d2, ![t].shadow = sh2]
  BY DEF d2, sh2
<1>5. /\ \A u \in Threads \ {t} : txn'[u] = txn[u]
      /\ txn'[t].stage = "stopping" /\ txn'[t].deps = d2 /\ txn'[t].shadow = sh2
  BY <1>4 DEF TxnTyped, Txn
<1> QED
  BY <1>1, <1>2, <1>3, <1>5 DEF Trimmed, SameRecord

\* The access check and the commit that take a guard off.
LEMMA GuardReads ==
    ASSUME TInv, TInv', VInv, NEW t \in Threads,
           \/ \E a \in TxnPages, mode \in {"read", "write", "fetch"} : Validate(t, a, mode)
           \/ \E W \in SUBSET TxnPages : CommitGuard(t, W)
    PROVE  VInv'
<1>1. TxnTyped /\ TypeOK /\ nextGen \in Nat
  BY DEF TInv, TypeOK
<1>2. ASSUME backings' = backings PROVE Thinned
  BY <1>2 DEF Thinned, BackingKept
<1>3. ASSUME NEW a \in TxnPages, NEW mode, Validate(t, a, mode) PROVE VInv'
  <2> DEFINE d == txn[t].deps[a]
             h == HashOf(d.backing)
             e == [d EXCEPT !.protection.guard = FALSE, !.generation = nextGen + 1, !.hash = h]
  <2>1. txn[t].stage = "open" /\ a \in DOMAIN txn[t].deps /\ d \in Dependency
    BY <1>1, <1>3, TxnFields DEF Validate
  <2>2. \/ Stop(t) /\ UNCHANGED memoryVars
        \/ /\ txn' = [txn EXCEPT ![t].stage = "stopping",
                              ![t].deps[a] = [@ EXCEPT !.protection.guard = FALSE,
                                                       !.generation = nextGen + 1,
                                                       !.hash = h],
                              ![t].shadow = Without(@, a)]
           /\ backings' = backings /\ nextGen' = nextGen + 1
    BY <1>3 DEF Validate
  <2>3. SameRecord(d, e)
    <3> HIDE DEF h, d
    <3> QED
      BY <2>1 DEF SameRecord, Dependency
  <2>4. CASE Stop(t) /\ UNCHANGED memoryVars
    <3>1. Thinned /\ nextGen' = nextGen
      BY <1>2, <2>4 DEF memoryVars
    <3>2. Trimmed(txn, t, txn')
      BY <1>1, <2>1, <2>4, StageTrims DEF Stop, Stages
    <3> QED
      BY <1>1, <3>1, <3>2, TrimStep
  <2>5. CASE /\ txn' = [txn EXCEPT ![t].stage = "stopping",
                              ![t].deps[a] = [@ EXCEPT !.protection.guard = FALSE,
                                                       !.generation = nextGen + 1,
                                                       !.hash = h],
                              ![t].shadow = Without(@, a)]
             /\ backings' = backings /\ nextGen' = nextGen + 1
    <3>1. txn' = [txn EXCEPT ![t].stage = "stopping", ![t].deps = [txn[t].deps EXCEPT ![a] = e],
                             ![t].shadow = Without(txn[t].shadow, a)]
      BY <2>5
    <3> HIDE DEF e
    <3>2. Trimmed(txn, t, txn')
      BY <1>1, <2>1, <2>3, <3>1, RelabelTrims
    <3>3. Thinned /\ nextGen' \in Nat /\ nextGen <= nextGen'
      BY <1>1, <1>2, <2>5
    <3> QED
      BY <3>2, <3>3, TrimStep
  <2> QED
    BY <2>2, <2>4, <2>5
<1>4. ASSUME NEW W \in SUBSET TxnPages, CommitGuard(t, W) PROVE VInv'
  <2>1. PICK g \in W : txn' = [txn EXCEPT ![t].stage = "stopping",
                                ![t].deps[g] = [@ EXCEPT !.protection.guard = FALSE,
                                                         !.generation = nextGen + 1],
                                ![t].shadow = Without(@, g)]
    BY <1>4 DEF CommitGuard
  <2> DEFINE d == txn[t].deps[g]
             e == [d EXCEPT !.protection.guard = FALSE, !.generation = nextGen + 1]
  <2>2. txn[t].stage = "open" /\ g \in DOMAIN txn[t].deps /\ d \in Dependency
    BY <1>1, <1>4, TxnFields DEF CommitGuard, CommitReady
  <2>3. SameRecord(d, e)
    <3> HIDE DEF d
    <3> QED
      BY <2>2 DEF SameRecord, Dependency
  <2>4. txn' = [txn EXCEPT ![t].stage = "stopping", ![t].deps = [txn[t].deps EXCEPT ![g] = e],
                           ![t].shadow = Without(txn[t].shadow, g)]
    BY <2>1
  <2> HIDE DEF e
  <2>5. Trimmed(txn, t, txn')
    BY <1>1, <2>2, <2>3, <2>4, RelabelTrims
  <2>6. Thinned /\ nextGen' \in Nat /\ nextGen <= nextGen'
    <3>1. backings' = backings /\ nextGen' = nextGen + 1
      BY <1>4 DEF CommitGuard
    <3> QED
      BY <1>1, <1>2, <3>1
  <2> QED
    BY <2>5, <2>6, TrimStep
<1> QED
  BY <1>3, <1>4

\* What d says of its backing is so now, and nobody is copying to it.
Fresh(T, B, d) ==
    /\ d.backing \in DOMAIN B /\ d.contentGeneration = B[d.backing].generation
    /\ d.external <=> B[d.backing].host # NoHost
    /\ \A u \in Threads : \A q \in DOMAIN T[u].copies :
          T[u].stage = "copying" => T[u].copies[q].backing # d.backing

\* The bytes c are those d speaks of.
Seen(B, d, c) ==
    /\ d.external => d.hash = Hash(c)
    /\ ~d.external => c = B[d.backing].data

\* The open transaction of t records page a or reads it again.
Noted(T, t, a, B, T2) ==
    /\ \A u \in Threads \ {t} : T2[u] = T[u]
    /\ T[t].stage = "open" /\ T2[t].stage = "open"
    /\ DOMAIN T2[t].deps = DOMAIN T[t].deps \cup {a}
    /\ DOMAIN T2[t].shadow \subseteq DOMAIN T[t].shadow \cup {a}
    /\ \A x \in DOMAIN T2[t].deps : x # a => T2[t].deps[x] = T[t].deps[x]
    /\ \A x \in DOMAIN T2[t].shadow : x # a => T2[t].shadow[x] = T[t].shadow[x]
    /\ Fresh(T, B, T2[t].deps[a])
    /\ a \in DOMAIN T2[t].shadow => Seen(B, T2[t].deps[a], T2[t].shadow[a])

\* Such a record is tracked from then on.
LEMMA NotedReads ==
    ASSUME NEW T, NEW B, NEW n, NEW t \in Threads, NEW a, NEW T2, Shaped(T), Shaped(T2),
           Reads(T, B, n), Noted(T, t, a, B, T2)
    PROVE  Reads(T2, B, n)
<1>1. /\ StampsPast(T, B, n) /\ ExternalKnown(T, B) /\ Hashed(T) /\ OneWriter(T, B)
      /\ Tracked(T, B) /\ LinesLanded(T, B) /\ PagesInOrder(T) /\ CopiesFollow(T)
  BY DEF Reads
<1>2. ASSUME NEW u \in Threads, NEW x \in DOMAIN T2[u].deps, ~(u = t /\ x = a)
      PROVE  x \in DOMAIN T[u].deps /\ T2[u].deps[x] = T[u].deps[x]
  BY <1>2 DEF Noted
<1>3. ASSUME NEW u \in Threads, T2[u].stage = "copying" PROVE u # t /\ T2[u] = T[u]
  BY <1>3 DEF Noted
<1>4. ASSUME NEW u \in Threads, NEW x \in DOMAIN T2[u].shadow, ~(u = t /\ x = a)
      PROVE  /\ x \in DOMAIN T[u].shadow /\ x \in DOMAIN T2[u].deps
             /\ T2[u].shadow[x] = T[u].shadow[x] /\ T2[u].deps[x] = T[u].deps[x]
  <2>1. x \in DOMAIN T2[u].deps
    BY DEF Shaped, WellShaped
  <2> QED
    BY <1>2, <1>4, <2>1 DEF Noted
<1> DEFINE d == T2[t].deps[a]
<1>5. /\ Fresh(T, B, d) /\ a \in DOMAIN T2[t].deps
      /\ a \in DOMAIN T2[t].shadow => Seen(B, d, T2[t].shadow[a])
  BY DEF Noted
<1> HIDE DEF d
<1>6. StampsPast(T2, B, n)
  <2>1. d.contentGeneration \in 0 .. n
    BY <1>1, <1>5 DEF StampsPast, Fresh
  <2>2. ASSUME NEW u \in Threads, NEW x \in DOMAIN T2[u].deps
        PROVE  T2[u].deps[x].contentGeneration \in 0 .. n
    <3>1. CASE u = t /\ x = a
      BY <2>1, <3>1 DEF d
    <3>2. CASE ~(u = t /\ x = a)
      BY <1>1, <1>2, <3>2 DEF StampsPast
    <3> QED
      BY <3>1, <3>2
  <2> QED
    BY <1>1, <2>2 DEF StampsPast
<1>7. ExternalKnown(T2, B)
  <2> SUFFICES ASSUME NEW u \in Threads, NEW x \in DOMAIN T2[u].deps
               PROVE  T2[u].deps[x].external <=> B[T2[u].deps[x].backing].host # NoHost
    BY DEF ExternalKnown
  <2>1. CASE u = t /\ x = a
    BY <1>5, <2>1 DEF d, Fresh
  <2>2. CASE ~(u = t /\ x = a)
    BY <1>1, <1>2, <2>2 DEF ExternalKnown
  <2> QED
    BY <2>1, <2>2
<1>8. Hashed(T2)
  <2> SUFFICES ASSUME NEW u \in Threads, NEW x \in DOMAIN T2[u].shadow, T2[u].deps[x].external
               PROVE  T2[u].deps[x].hash = Hash(T2[u].shadow[x])
    BY DEF Hashed
  <2>1. CASE u = t /\ x = a
    BY <1>5, <2>1 DEF d, Seen
  <2>2. CASE ~(u = t /\ x = a)
    BY <1>1, <1>4, <2>2 DEF Hashed
  <2> QED
    BY <2>1, <2>2
<1>9. OneWriter(T2, B)
  <2> SUFFICES ASSUME NEW s \in Threads, NEW u \in Threads, NEW q \in DOMAIN T2[s].copies,
                      NEW x \in DOMAIN T2[u].deps, T2[s].stage = "copying",
                      Matching(B, T2[u].deps[x]), T2[u].deps[x].backing = T2[s].copies[q].backing
               PROVE  u = s /\ x \in DOMAIN T2[s].copies /\ q <= x
    BY DEF OneWriter
  <2>1. s # t /\ T2[s] = T[s]
    BY <1>3
  <2>2. CASE u = t /\ x = a
    BY <1>5, <2>1, <2>2 DEF d, Fresh
  <2>3. CASE ~(u = t /\ x = a)
    BY <1>1, <1>2, <2>1, <2>3 DEF OneWriter
  <2> QED
    BY <2>2, <2>3
<1>10. Tracked(T2, B)
  <2> SUFFICES ASSUME NEW u \in Threads, NEW x \in DOMAIN T2[u].shadow, Matching(B, T2[u].deps[x])
               PROVE  \/ T2[u].stage = "copying" /\ x \in DOMAIN T2[u].copies
                      \/ T2[u].shadow[x] = B[T2[u].deps[x].backing].data
    BY DEF Tracked
  <2>1. CASE u = t /\ x = a
    BY <1>5, <2>1 DEF d, Seen, Matching
  <2>2. CASE ~(u = t /\ x = a)
    <3>1. \/ T[u].stage = "copying" /\ x \in DOMAIN T[u].copies
          \/ T[u].shadow[x] = B[T[u].deps[x].backing].data
      BY <1>1, <1>4, <2>2 DEF Tracked
    <3>2. T[u].stage = "copying" => T2[u] = T[u]
      BY DEF Noted
    <3> QED
      BY <1>4, <2>2, <3>1, <3>2
  <2> QED
    BY <2>1, <2>2
<1>11. LinesLanded(T2, B)
  BY <1>1, <1>3 DEF LinesLanded
<1>12. PagesInOrder(T2) /\ CopiesFollow(T2)
  BY <1>1, <1>3 DEF PagesInOrder, CopiesFollow
<1> QED
  BY <1>6, <1>7, <1>8, <1>9, <1>10, <1>11, <1>12 DEF Reads

\* A step that notes a page and pins backings.
LEMMA NoteStep ==
    ASSUME TInv, TInv', VInv, NEW t \in Threads, NEW a, Noted(txn, t, a, backings, txn'),
           nextGen' = nextGen, Thinned
    PROVE  VInv'
<1>1. Shaped(txn) /\ Shaped(txn')
  BY DEF TInv, TxnTyped, Shaped
<1>2. Reads(txn', backings, nextGen)
  BY <1>1, NotedReads DEF VInv
<1>3. nextGen \in Nat /\ \A b \in DOMAIN backings : backings[b].generation \in 0 .. nextGen
  BY DEF VInv, Reads, StampsPast
<1>4. AllPinned'
  BY PinnedAliveNext
<1>5. \A b \in DOMAIN backings' : backings'[b].generation \in 0 .. nextGen'
  BY <1>3 DEF Thinned, BackingKept
<1>6. Carried(txn', backings, nextGen, backings', nextGen')
  BY <1>3, <1>4, <1>5 DEF Carried, Thinned, BackingKept, AllPinned
<1>7. Reads(txn', backings', nextGen')
  BY <1>1, <1>2, <1>6, CarriedReads
<1> QED
  BY <1>7 DEF VInv

\* Pinning leaves bytes and stamps alone.
LEMMA PinThins ==
    ASSUME TypeOK, NEW b, backings' = Pin(b)
    PROVE  Thinned
<1>1. \A c \in DOMAIN backings : backings[c] \in Backing
  BY DEF TypeOK
<1> QED
  BY <1>1 DEF Pin, Thinned, BackingKept, Backing

\* Under the shared stripe of a backing nobody copies to it.
LEMMA ReadableUncopied ==
    ASSUME TInv, AInv, NEW a, NEW b \in DOMAIN backings, Readable(PageStripes(a, b)),
           NEW u \in Threads, NEW q \in DOMAIN txn[u].copies, txn[u].stage = "copying"
    PROVE  txn[u].copies[q].backing # b
<1>1. b # NoBacking
  BY BackingAssumption DEF TInv, TypeOK
<1>2. Stripe[b] \in PageStripes(a, b)
  BY <1>1 DEF PageStripes
<1> QED
  BY <1>2 DEF AInv, Covered, Readable

\* What is recorded of a committed page is so.
LEMMA NewDependencyFresh ==
    ASSUME TInv, AInv, NEW a, CommittedPage(a), Readable(PageStripes(a, pages[a].backing))
    PROVE  /\ Fresh(txn, backings, NewDependency(a))
           /\ Seen(backings, NewDependency(a), Content(pages[a].backing))
<1> DEFINE b == pages[a].backing
           d == NewDependency(a)
<1>1. b \in DOMAIN backings
  BY CommittedTyped
<1>2. /\ d.backing = b /\ d.contentGeneration = backings[b].generation
      /\ d.hash = HashOf(b) /\ d.external = External(b)
  BY DEF NewDependency
<1>3. \A u \in Threads : \A q \in DOMAIN txn[u].copies :
         txn[u].stage = "copying" => txn[u].copies[q].backing # b
  BY <1>1, ReadableUncopied
<1> HIDE DEF b, d
<1>4. Fresh(txn, backings, d)
  BY <1>1, <1>2, <1>3 DEF Fresh, External
<1>5. Seen(backings, d, Content(b))
  BY <1>2 DEF Seen, HashOf, Content
<1> QED
  BY <1>4, <1>5 DEF b, d

\* gem_memory_transaction_validate: recording a page
LEMMA RecordReads ==
    ASSUME TInv, TInv', AInv, VInv, NEW t \in Threads, NEW a \in TxnPages, Record(t, a)
    PROVE  VInv'
<1> DEFINE d == Merge(txn[t].deps, [x \in {a} |-> NewDependency(a)])
<1>1. TxnTyped /\ TypeOK /\ txn[t].stage = "open" /\ CommittedPage(a) /\ a \notin DOMAIN txn[t].deps
  BY DEF TInv, TxnTyped, Record
<1>2. /\ DOMAIN d = DOMAIN txn[t].deps \cup {a} /\ d[a] = NewDependency(a)
      /\ \A x \in DOMAIN d : x # a => d[x] = txn[t].deps[x]
  BY DEF Merge
<1>3. txn' = [txn EXCEPT ![t].deps = d]
  BY DEF Record
<1> HIDE DEF d
<1>4. /\ \A u \in Threads \ {t} : txn'[u] = txn[u]
      /\ txn'[t].stage = "open" /\ txn'[t].deps = d /\ txn'[t].shadow = txn[t].shadow
  BY <1>1, <1>3 DEF TxnTyped, Txn
<1>5. Fresh(txn, backings, NewDependency(a)) /\ nextGen' = nextGen
  BY <1>1, NewDependencyFresh DEF Record
<1>6. a \notin DOMAIN txn[t].shadow
  BY <1>1, TxnFields
<1>7. Noted(txn, t, a, backings, txn')
  BY <1>1, <1>2, <1>4, <1>5, <1>6 DEF Noted
<1>8. Thinned
  BY <1>1, PinThins DEF Record
<1> QED
  BY <1>5, <1>7, <1>8, NoteStep

\* gem_memory_transaction_snapshot_page
LEMMA SnapshotReads ==
    ASSUME TInv, TInv', AInv, VInv, NEW t \in Threads, NEW a \in TxnPages, Snapshot(t, a)
    PROVE  VInv'
<1> DEFINE b == pages[a].backing
           d == Merge(txn[t].deps, [x \in {a} |-> NewDependency(a)])
           sh == Merge(txn[t].shadow, [x \in {a} |-> Content(b)])
<1>1. TxnTyped /\ TypeOK /\ txn[t].stage = "open" /\ CommittedPage(a) /\ Readable(PageStripes(a, b))
  BY DEF TInv, TxnTyped, Snapshot
<1>2. /\ DOMAIN d = DOMAIN txn[t].deps \cup {a} /\ d[a] = NewDependency(a)
      /\ \A x \in DOMAIN d : x # a => d[x] = txn[t].deps[x]
  BY DEF Merge
<1>3. /\ DOMAIN sh = DOMAIN txn[t].shadow \cup {a} /\ sh[a] = Content(b)
      /\ \A x \in DOMAIN sh : x # a => sh[x] = txn[t].shadow[x]
  BY DEF Merge
<1>4. \/ backings' = Pin(b) /\ txn' = [txn EXCEPT ![t].deps = d, ![t].shadow = sh]
      \/ /\ a \in DOMAIN txn[t].deps /\ Current(a, txn[t].deps[a])
         /\ txn' = [txn EXCEPT ![t].shadow = sh] /\ UNCHANGED backings
      \/ Stop(t) /\ UNCHANGED backings
  BY DEF Snapshot
<1>5. nextGen' = nextGen /\ nextGen \in Nat
  BY <1>1 DEF Snapshot, TypeOK
<1>6. Fresh(txn, backings, NewDependency(a)) /\ Seen(backings, NewDependency(a), Content(b))
  BY <1>1, NewDependencyFresh
<1>7. b \in DOMAIN backings
  BY <1>1, CommittedTyped
<1> HIDE DEF d, sh, b
<1>8. CASE backings' = Pin(b) /\ txn' = [txn EXCEPT ![t].deps = d, ![t].shadow = sh]
  <2>1. /\ \A u \in Threads \ {t} : txn'[u] = txn[u]
        /\ txn'[t].stage = "open" /\ txn'[t].deps = d /\ txn'[t].shadow = sh
    BY <1>1, <1>8 DEF TxnTyped, Txn
  <2>2. Noted(txn, t, a, backings, txn')
    BY <1>1, <1>2, <1>3, <1>6, <2>1 DEF Noted
  <2>3. Thinned
    BY <1>1, <1>8, PinThins
  <2> QED
    BY <1>5, <2>2, <2>3, NoteStep
<1>9. CASE /\ a \in DOMAIN txn[t].deps /\ Current(a, txn[t].deps[a])
           /\ txn' = [txn EXCEPT ![t].shadow = sh] /\ UNCHANGED backings
  <2> DEFINE e == txn[t].deps[a]
  <2>1. /\ \A u \in Threads \ {t} : txn'[u] = txn[u]
        /\ txn'[t].stage = "open" /\ txn'[t].deps = txn[t].deps /\ txn'[t].shadow = sh
    BY <1>1, <1>9 DEF TxnTyped, Txn
  <2>2. e.backing = b /\ backings[b].generation = e.contentGeneration
        /\ (e.external => Hash(Content(b)) = e.hash)
    BY <1>9 DEF Current, SameMapping, b
  <2>3. e.external <=> backings[b].host # NoHost
    BY <1>9, <2>2 DEF VInv, Reads, ExternalKnown
  <2>4. \A u \in Threads : \A q \in DOMAIN txn[u].copies :
           txn[u].stage = "copying" => txn[u].copies[q].backing # b
    BY <1>1, <1>7, ReadableUncopied
  <2> HIDE DEF e
  <2>5. Fresh(txn, backings, e) /\ Seen(backings, e, Content(b))
    BY <1>7, <2>2, <2>3, <2>4 DEF Fresh, Seen, Content, External
  <2>6. Noted(txn, t, a, backings, txn')
    BY <1>1, <1>3, <1>9, <2>1, <2>5 DEF Noted, e
  <2>7. Thinned
    BY <1>9 DEF Thinned, BackingKept
  <2> QED
    BY <1>5, <2>6, <2>7, NoteStep
<1>10. CASE Stop(t) /\ UNCHANGED backings
  <2>1. Trimmed(txn, t, txn')
    BY <1>1, <1>10, StageTrims DEF Stop, Stages
  <2>2. Thinned
    BY <1>10 DEF Thinned, BackingKept
  <2> QED
    BY <1>5, <2>1, <2>2, TrimStep
<1> QED
  BY <1>4, <1>8, <1>9, <1>10

\* Whatever the transactions T name is in B.
Named(T, B) ==
    \A u \in Threads :
        /\ \A x \in DOMAIN T[u].deps : T[u].deps[x].backing \in DOMAIN B
        /\ \A x \in DOMAIN T[u].copies : T[u].copies[x].backing \in DOMAIN B

\* Of T's pages t has copied line l of page a, the first that has lines left.
LineTicked(T, t, a, l, T2) ==
    /\ \A u \in Threads \ {t} : T2[u] = T[u]
    /\ T[t].stage = "copying" /\ T2[t].stage = "copying"
    /\ T2[t].deps = T[t].deps /\ T2[t].shadow = T[t].shadow
    /\ DOMAIN T2[t].copies = DOMAIN T[t].copies /\ DOMAIN T[t].copies \subseteq Int
    /\ a \in DOMAIN T[t].copies /\ l \in T[t].copies[a].left /\ l \in Lines
    /\ \A q \in DOMAIN T[t].copies : T[t].copies[q].left # {} => a <= q
    /\ \A x \in DOMAIN T[t].copies :
          /\ T2[t].copies[x].backing = T[t].copies[x].backing
          /\ x # a => T2[t].copies[x].left = T[t].copies[x].left
    /\ T2[t].copies[a].left = T[t].copies[a].left \ {l}

\* Line l of backing b becomes y.
LineStored(B, b, l, y, B2) ==
    /\ b \in DOMAIN B /\ DOMAIN B2 = DOMAIN B
    /\ \A x \in DOMAIN B : /\ B2[x].generation = B[x].generation /\ B2[x].host = B[x].host
                           /\ x # b => B2[x].data = B[x].data
    /\ B2[b].data[l] = y /\ \A m \in Lines \ {l} : B2[b].data[m] = B[b].data[m]

\* No other thread is copying to b.
CopiesAlone(T, t, b) ==
    \A u \in Threads \ {t} : \A q \in DOMAIN T[u].copies :
        T[u].stage = "copying" => T[u].copies[q].backing # b

\* A copied line lands, and only the last page of a backing is still current.
LEMMA LineReads ==
    ASSUME NEW T, NEW B, NEW n, NEW t \in Threads, NEW a, NEW l, NEW T2, NEW B2,
           Shaped(T), Named(T, B), Reads(T, B, n), LineTicked(T, t, a, l, T2),
           LineStored(B, T[t].copies[a].backing, l, T[t].shadow[a][l], B2),
           CopiesAlone(T, t, T[t].copies[a].backing)
    PROVE  Reads(T2, B2, n)
<1>1. /\ StampsPast(T, B, n) /\ ExternalKnown(T, B) /\ Hashed(T) /\ OneWriter(T, B)
      /\ Tracked(T, B) /\ LinesLanded(T, B) /\ PagesInOrder(T) /\ CopiesFollow(T)
  BY DEF Reads
<1> DEFINE b == T[t].copies[a].backing
<1>2. \A u \in Threads : /\ T2[u].deps = T[u].deps /\ T2[u].shadow = T[u].shadow
                         /\ T2[u].stage = T[u].stage /\ DOMAIN T2[u].copies = DOMAIN T[u].copies
                         /\ \A x \in DOMAIN T[u].copies :
                               T2[u].copies[x].backing = T[u].copies[x].backing
  BY DEF LineTicked
<1>3. /\ DOMAIN B2 = DOMAIN B
      /\ \A x \in DOMAIN B : B2[x].generation = B[x].generation /\ B2[x].host = B[x].host
      /\ \A x \in DOMAIN B : x # b => B2[x].data = B[x].data
  BY DEF LineStored
<1>4. ASSUME NEW u \in Threads, NEW x \in DOMAIN T[u].deps
      PROVE  Matching(B2, T[u].deps[x]) <=> Matching(B, T[u].deps[x])
  BY <1>3 DEF Matching, Named
<1>5. a \in DOMAIN T[t].copies /\ T[t].stage = "copying"
  BY DEF LineTicked
<1> HIDE DEF b
<1>6. StampsPast(T2, B2, n)
  BY <1>1, <1>2, <1>3 DEF StampsPast
<1>7. ExternalKnown(T2, B2)
  BY <1>1, <1>2, <1>3 DEF ExternalKnown, Named
<1>8. Hashed(T2)
  BY <1>1, <1>2 DEF Hashed
<1>9. OneWriter(T2, B2)
  <2> SUFFICES ASSUME NEW s \in Threads, NEW u \in Threads, NEW q \in DOMAIN T2[s].copies,
                      NEW x \in DOMAIN T2[u].deps, T2[s].stage = "copying",
                      Matching(B2, T2[u].deps[x]), T2[u].deps[x].backing = T2[s].copies[q].backing
               PROVE  u = s /\ x \in DOMAIN T2[s].copies /\ q <= x
    BY DEF OneWriter
  <2>1. /\ q \in DOMAIN T[s].copies /\ x \in DOMAIN T[u].deps /\ T[s].stage = "copying"
        /\ T[u].deps[x].backing = T[s].copies[q].backing /\ Matching(B2, T[u].deps[x])
    BY <1>2
  <2>2. Matching(B, T[u].deps[x])
    BY <1>4, <2>1
  <2> QED
    BY <1>1, <1>2, <2>1, <2>2 DEF OneWriter
<1>10. Tracked(T2, B2)
  <2> SUFFICES ASSUME NEW u \in Threads, NEW x \in DOMAIN T[u].shadow, Matching(B2, T[u].deps[x])
               PROVE  \/ T[u].stage = "copying" /\ x \in DOMAIN T[u].copies
                      \/ T[u].shadow[x] = B2[T[u].deps[x].backing].data
    BY <1>2 DEF Tracked
  <2>1. x \in DOMAIN T[u].deps
    BY DEF Shaped, WellShaped
  <2>2. Matching(B, T[u].deps[x]) /\ T[u].deps[x].backing \in DOMAIN B
    BY <1>4, <2>1 DEF Named
  <2>3. CASE T[u].deps[x].backing = b
    BY <1>1, <1>5, <2>1, <2>2, <2>3 DEF OneWriter, b
  <2>4. CASE T[u].deps[x].backing # b
    BY <1>1, <1>3, <2>2, <2>4 DEF Tracked
  <2> QED
    BY <2>3, <2>4
<1>11. LinesLanded(T2, B2)
  <2> SUFFICES ASSUME NEW s \in Threads, NEW x \in DOMAIN T2[s].copies, T2[s].stage = "copying",
                      ~T2[s].deps[x].external,
                      \A q \in DOMAIN T2[s].copies :
                         T2[s].copies[q].backing = T2[s].copies[x].backing => q <= x,
                      NEW m \in Lines \ T2[s].copies[x].left
               PROVE  B2[T2[s].copies[x].backing].data[m] = T2[s].shadow[x][m]
    BY DEF LinesLanded
  <2> DEFINE c == T[s].copies[x].backing
  <2>1. /\ x \in DOMAIN T[s].copies /\ T[s].stage = "copying" /\ ~T[s].deps[x].external
        /\ T2[s].copies[x].backing = c /\ T2[s].shadow = T[s].shadow
        /\ \A q \in DOMAIN T[s].copies : T[s].copies[q].backing = c => q <= x
    BY <1>2
  <2>2. \A k \in Lines \ T[s].copies[x].left : B[c].data[k] = T[s].shadow[x][k]
    BY <1>1, <2>1 DEF LinesLanded
  <2>3. c \in DOMAIN B
    BY <2>1 DEF Named
  <2>4. CASE c # b
    <3>1. ~(s = t /\ x = a)
      BY <2>4 DEF b
    <3>2. T2[s].copies[x].left = T[s].copies[x].left
      BY <2>1, <3>1 DEF LineTicked
    <3> QED
      BY <1>3, <2>1, <2>2, <2>3, <2>4, <3>2
  <2>5. CASE c = b
    <3>1. s = t
      BY <2>1, <2>5 DEF CopiesAlone, b
    <3>2. /\ a <= x /\ a \in Int /\ x \in Int
      BY <1>5, <2>1, <2>5, <3>1 DEF LineTicked, b
    <3>3. CASE x = a
      <4>1. T2[t].copies[a].left = T[t].copies[a].left \ {l}
        BY DEF LineTicked
      <4>2. /\ B2[b].data[l] = T[t].shadow[a][l]
            /\ \A k \in Lines \ {l} : B2[b].data[k] = B[b].data[k]
        BY DEF LineStored, b
      <4>3. CASE m = l
        BY <2>1, <2>5, <3>1, <3>3, <4>2, <4>3
      <4>4. CASE m # l
        <5>1. m \in Lines \ T[s].copies[x].left
          BY <3>1, <3>3, <4>1, <4>4
        <5> QED
          BY <2>1, <2>2, <2>5, <3>1, <3>3, <4>2, <4>4, <5>1
      <4> QED
        BY <4>3, <4>4
    <3>4. CASE x # a
      <4>1. a < x /\ T[t].copies[a].left # {}
        BY <3>2, <3>4 DEF LineTicked
      <4>2. T[t].copies[x].left = Lines
        BY <1>1, <1>5, <2>1, <3>1, <4>1 DEF PagesInOrder
      <4>3. T2[t].copies[x].left = T[t].copies[x].left
        BY <2>1, <3>1, <3>4 DEF LineTicked
      <4> QED
        BY <3>1, <4>2, <4>3
    <3> QED
      BY <3>3, <3>4
  <2> QED
    BY <2>4, <2>5
<1>12. PagesInOrder(T2)
  <2> SUFFICES ASSUME NEW s \in Threads, NEW x \in DOMAIN T2[s].copies, NEW q \in DOMAIN T2[s].copies,
                      T2[s].stage = "copying", x < q, T2[s].copies[x].left # {},
                      ~T2[s].deps[q].external
               PROVE  T2[s].copies[q].left = Lines
    BY DEF PagesInOrder
  <2>1. CASE s = t
    <3>1. /\ x \in DOMAIN T[t].copies /\ q \in DOMAIN T[t].copies /\ ~T[t].deps[q].external
          /\ x \in Int /\ q \in Int /\ a \in Int
      BY <1>2, <1>5, <2>1 DEF LineTicked
    <3>2. T[t].copies[x].left # {}
      BY <2>1, <3>1 DEF LineTicked
    <3>3. a <= x
      BY <3>1, <3>2 DEF LineTicked
    <3>4. q # a
      BY <3>1, <3>3
    <3>5. T[t].copies[q].left = Lines
      BY <1>1, <1>5, <3>1, <3>2 DEF PagesInOrder
    <3> QED
      BY <2>1, <3>1, <3>4, <3>5 DEF LineTicked
  <2>2. CASE s # t
    BY <1>1, <2>2 DEF PagesInOrder, LineTicked
  <2> QED
    BY <2>1, <2>2
<1>13. CopiesFollow(T2)
  BY <1>1, <1>2 DEF CopiesFollow
<1> QED
  BY <1>6, <1>7, <1>8, <1>9, <1>10, <1>11, <1>12, <1>13 DEF Reads

\* Copying one line, by what it does to transactions and backings.
LEMMA CopyTicks ==
    ASSUME TInv, AInv, NEW t \in Threads, CopyLine(t)
    PROVE  \E a \in DOMAIN txn[t].copies : \E l \in Lines :
              /\ LineTicked(txn, t, a, l, txn')
              /\ LineStored(backings, txn[t].copies[a].backing, l, txn[t].shadow[a][l], backings')
              /\ CopiesAlone(txn, t, txn[t].copies[a].backing)
<1> DEFINE c == txn[t].copies
<1>1. PICK a \in DOMAIN c, l \in Lines :
        /\ l \in c[a].left /\ \A q \in DOMAIN c : c[q].left # {} => a <= q
        /\ backings' = [backings EXCEPT ![c[a].backing].data[l] = txn[t].shadow[a][l]]
        /\ txn' = [txn EXCEPT ![t].copies[a] = [@ EXCEPT !.left = txn[t].copies[a].left \ {l}]]
  BY DEF CopyLine
<1> DEFINE pb == c[a].backing
           y == txn[t].shadow[a][l]
           q0 == [c[a] EXCEPT !.left = c[a].left \ {l}]
           c2 == [c EXCEPT ![a] = q0]
           data == [backings[pb].data EXCEPT ![l] = y]
<1>2. /\ TypeOK /\ TxnTyped /\ txn[t].stage = "copying"
  BY DEF TInv, CopyLine
<1>3. c[a] \in Copy /\ DOMAIN c \subseteq TxnPages
  BY <1>2, TxnFields
<1>4. q0.left = c[a].left \ {l} /\ q0.backing = c[a].backing
  BY <1>3 DEF Copy
<1>5. txn' = [txn EXCEPT ![t].copies = c2]
  BY <1>1
<1>6. DOMAIN c2 = DOMAIN c /\ c2[a] = q0 /\ \A x \in DOMAIN c : x # a => c2[x] = c[x]
  OBVIOUS
<1> HIDE DEF c2, q0
<1>7. /\ \A u \in Threads \ {t} : txn'[u] = txn[u]
      /\ txn'[t].copies = c2 /\ txn'[t].stage = "copying"
      /\ txn'[t].deps = txn[t].deps /\ txn'[t].shadow = txn[t].shadow
  BY <1>2, <1>5 DEF TxnTyped, Txn
<1>8. DOMAIN c \subseteq Int
  BY <1>3, TransactionAssumption, AddressAssumption DEF Address
<1>9. LineTicked(txn, t, a, l, txn')
  BY <1>1, <1>2, <1>4, <1>6, <1>7, <1>8 DEF LineTicked
<1>10. AllPinned
  BY PinnedAliveNext
<1>12. pb \in DOMAIN backings /\ backings[pb] \in Backing
  BY <1>2, <1>10 DEF TypeOK, AllPinned
<1>13. data[l] = y /\ \A m \in Lines \ {l} : data[m] = backings[pb].data[m]
  <2>1. backings[pb].data \in Contents
    BY <1>12 DEF Backing
  <2>2. backings[pb].data = [k \in Lines |-> backings[pb].data[k]]
    BY <2>1, TransactionAssumption
  <2>3. DOMAIN backings[pb].data = Lines
    BY <2>2
  <2> HIDE DEF pb, y
  <2> QED
    BY <2>3
<1>14. backings' = [backings EXCEPT ![pb] = [backings[pb] EXCEPT !.data = data]]
  BY <1>1
<1> HIDE DEF data, y
<1>15. LineStored(backings, pb, l, y, backings')
  <2>1. \A x \in DOMAIN backings : backings[x] \in Backing
    BY <1>2 DEF TypeOK
  <2> HIDE DEF pb
  <2>2. /\ DOMAIN backings' = DOMAIN backings /\ backings'[pb].data = data
        /\ \A x \in DOMAIN backings :
             /\ backings'[x].generation = backings[x].generation
             /\ backings'[x].host = backings[x].host
             /\ x # pb => backings'[x].data = backings[x].data
    BY <1>12, <1>14, <2>1 DEF Backing
  <2> QED
    BY <1>12, <1>13, <2>2 DEF LineStored
<1>16. CopiesAlone(txn, t, pb)
  <2> SUFFICES ASSUME NEW u \in Threads \ {t}, NEW q \in DOMAIN txn[u].copies,
                      txn[u].stage = "copying", txn[u].copies[q].backing = pb
               PROVE  FALSE
    BY DEF CopiesAlone
  <2>1. Stripe[pb] \in txn[u].writing /\ Stripe[pb] \in txn[t].writing
    BY <1>2 DEF AInv, Covered
  <2> QED
    BY <2>1 DEF AInv, Apart
<1> QED
  BY <1>9, <1>15, <1>16 DEF pb, y

\* One line is copied, under the exclusive stripe of the backing.
LEMMA CopyReads ==
    ASSUME TInv, AInv, VInv, NEW t \in Threads, CopyLine(t)
    PROVE  VInv'
<1>1. PICK a \in DOMAIN txn[t].copies, l \in Lines :
        /\ LineTicked(txn, t, a, l, txn')
        /\ LineStored(backings, txn[t].copies[a].backing, l, txn[t].shadow[a][l], backings')
        /\ CopiesAlone(txn, t, txn[t].copies[a].backing)
  BY CopyTicks
<1>2. TxnTyped /\ nextGen' = nextGen
  BY DEF TInv, CopyLine
<1>3. Named(txn, backings) /\ Shaped(txn)
  BY <1>2, PinnedAliveNext DEF Named, AllPinned, Shaped, TxnTyped
<1>4. Reads(txn', backings', nextGen)
  BY <1>1, <1>3, LineReads DEF VInv
<1> QED
  BY <1>2, <1>4 DEF VInv

\* Once no line is left, the last page of each backing is what the backing holds.
LEMMA Landed ==
    ASSUME TInv, VInv, NEW t \in Threads, txn[t].stage = "copying",
           NEW a \in DOMAIN txn[t].copies, txn[t].copies[a].left = {}, ~txn[t].deps[a].external,
           \A q \in DOMAIN txn[t].copies :
              txn[t].copies[q].backing = txn[t].copies[a].backing => q <= a
    PROVE  backings[txn[t].copies[a].backing].data = txn[t].shadow[a]
<1> DEFINE x == backings[txn[t].copies[a].backing].data
           y == txn[t].shadow[a]
<1>1. \A l \in Lines : x[l] = y[l]
  BY DEF VInv, Reads, LinesLanded
<1>2. x \in Contents
  <2>1. txn[t].copies[a].backing \in DOMAIN backings /\ TypeOK
    BY PinnedAliveNext DEF AllPinned, TInv
  <2> QED
    BY <2>1 DEF TypeOK, Backing
<1>3. y \in Contents
  BY TxnFields DEF TInv
<1>4. x = [l \in Lines |-> x[l]] /\ y = [l \in Lines |-> y[l]]
  BY <1>2, <1>3, TransactionAssumption
<1> HIDE DEF x, y
<1>5. x = y
  BY <1>1, <1>4
<1> QED
  BY <1>5 DEF x, y

\* When the stripes are released the committed bytes are what memory holds.
LEMMA ReleaseReads ==
    ASSUME TInv, VInv, NEW t \in Threads, ReleaseStripes(t)
    PROVE  VInv'
<1>1. /\ TxnTyped /\ txn[t].stage = "copying" /\ UNCHANGED <<backings, nextGen>>
      /\ \A a \in DOMAIN txn[t].copies : txn[t].copies[a].left = {}
      /\ txn' = [txn EXCEPT ![t].stage = "unpinning", ![t].reading = {}, ![t].writing = {}]
  BY DEF TInv, ReleaseStripes, memoryVars
<1>2. /\ \A u \in Threads \ {t} : txn'[u] = txn[u]
      /\ txn'[t].stage = "unpinning" /\ txn'[t].deps = txn[t].deps
      /\ txn'[t].shadow = txn[t].shadow /\ txn'[t].copies = txn[t].copies
  BY <1>1 DEF TxnTyped, Txn
<1>3. /\ StampsPast(txn, backings, nextGen) /\ ExternalKnown(txn, backings) /\ Hashed(txn)
      /\ OneWriter(txn, backings) /\ Tracked(txn, backings) /\ LinesLanded(txn, backings)
      /\ PagesInOrder(txn) /\ CopiesFollow(txn)
  BY DEF VInv, Reads
<1>4. \A u \in Threads : txn'[u].deps = txn[u].deps /\ txn'[u].shadow = txn[u].shadow
                         /\ (txn'[u].stage = "copying" => txn'[u] = txn[u])
  BY <1>2
<1>5. StampsPast(txn', backings, nextGen) /\ ExternalKnown(txn', backings) /\ Hashed(txn')
  BY <1>3, <1>4 DEF StampsPast, ExternalKnown, Hashed
<1>6. OneWriter(txn', backings)
  BY <1>3, <1>4 DEF OneWriter
<1>7. LinesLanded(txn', backings)
  BY <1>3, <1>4 DEF LinesLanded
<1>8. PagesInOrder(txn') /\ CopiesFollow(txn')
  BY <1>3, <1>4 DEF PagesInOrder, CopiesFollow
<1>9. Tracked(txn', backings)
  <2> SUFFICES ASSUME NEW u \in Threads, NEW x \in DOMAIN txn'[u].shadow,
                      Matching(backings, txn'[u].deps[x])
               PROVE  \/ txn'[u].stage = "copying" /\ x \in DOMAIN txn'[u].copies
                      \/ txn'[u].shadow[x] = backings[txn'[u].deps[x].backing].data
    BY DEF Tracked
  <2>1. x \in DOMAIN txn[u].shadow /\ Matching(backings, txn[u].deps[x])
    BY <1>4
  <2>2. \/ txn[u].stage = "copying" /\ x \in DOMAIN txn[u].copies
        \/ txn[u].shadow[x] = backings[txn[u].deps[x].backing].data
    BY <1>3, <2>1 DEF Tracked
  <2>3. CASE u # t
    BY <1>2, <2>2, <2>3
  <2>4. CASE u = t /\ x \in DOMAIN txn[t].copies
    <3>1. ~txn[t].deps[x].external /\ x \in DOMAIN txn[t].deps
      BY <1>1, <2>1, <2>4, TxnFields DEF Matching
    <3>2. txn[t].copies[x].backing = txn[t].deps[x].backing
      BY <1>1, <1>3, <2>4 DEF CopiesFollow
    <3>3. \A q \in DOMAIN txn[t].copies :
             txn[t].copies[q].backing = txn[t].copies[x].backing => q <= x
      BY <1>1, <1>3, <2>1, <2>4, <3>1, <3>2 DEF OneWriter
    <3>4. backings[txn[t].copies[x].backing].data = txn[t].shadow[x]
      BY <1>1, <2>4, <3>1, <3>3, Landed
    <3> QED
      BY <1>4, <2>4, <3>2, <3>4
  <2>5. CASE u = t /\ x \notin DOMAIN txn[t].copies
    BY <1>4, <2>2, <2>5
  <2> QED
    BY <2>3, <2>4, <2>5
<1>10. Reads(txn', backings, nextGen)
  BY <1>5, <1>6, <1>7, <1>8, <1>9 DEF Reads
<1> QED
  BY <1>1, <1>10 DEF VInv

\* Pages of a finite set are ranked in their order.
Ranked(W) ==
    /\ \A a \in W : Rank(W, a) \in Nat /\ Rank(W, a) + 1 <= Cardinality(W)
    /\ \A a, q \in W : a < q => Rank(W, a) < Rank(W, q)

\* Leaving an element out makes a set smaller.
LEMMA SmallerWithout ==
    ASSUME NEW S, IsFiniteSet(S), NEW T, T \subseteq S, NEW a \in S, a \notin T
    PROVE  Cardinality(T) < Cardinality(S) /\ Cardinality(T) \in Nat /\ Cardinality(S) \in Nat
<1>1. T \subseteq S \ {a}
  OBVIOUS
<1>2. IsFiniteSet(S \ {a}) /\ Cardinality(S \ {a}) = Cardinality(S) - 1
  BY FS_RemoveElement
<1>3. IsFiniteSet(T) /\ Cardinality(T) <= Cardinality(S \ {a})
  BY <1>1, <1>2, FS_Subset
<1>4. Cardinality(T) \in Nat /\ Cardinality(S) \in Nat
  BY <1>3, FS_CardinalityType
<1> QED
  BY <1>2, <1>3, <1>4

\* Ranks count the pages below.
LEMMA RanksOrdered ==
    ASSUME NEW W, IsFiniteSet(W), W \subseteq Int
    PROVE  Ranked(W)
<1> DEFINE Below(a) == {q \in W : q < a}
<1>1. ASSUME NEW a \in W PROVE Rank(W, a) \in Nat /\ Rank(W, a) + 1 <= Cardinality(W)
  <2>1. Below(a) \subseteq W /\ a \notin Below(a)
    OBVIOUS
  <2>2. Cardinality(Below(a)) < Cardinality(W) /\ Cardinality(Below(a)) \in Nat /\ Cardinality(W) \in Nat
    BY <2>1, SmallerWithout
  <2> QED
    BY <2>2 DEF Rank
<1>2. ASSUME NEW a \in W, NEW q \in W, a < q PROVE Rank(W, a) < Rank(W, q)
  <2>1. Below(a) \subseteq Below(q) /\ a \in Below(q) /\ a \notin Below(a)
    <3>1. a \in Int /\ q \in Int /\ \A x \in W : x \in Int
      OBVIOUS
    <3>2. \A x \in W : x < a => x < q
      BY <1>2, <3>1
    <3>3. ~(a < a)
      BY <3>1
    <3> QED
      BY <1>2, <3>2, <3>3
  <2>2. IsFiniteSet(Below(q))
    BY FS_Subset
  <2>3. Cardinality(Below(a)) < Cardinality(Below(q))
    BY <2>1, <2>2, SmallerWithout
  <2> QED
    BY <2>3 DEF Rank
<1> QED
  BY <1>1, <1>2 DEF Ranked

\* The backings the commit of W writes to, by t's own records.
Written(T, t, W) == {T[t].deps[a].backing : a \in W}

\* t's transaction as its commit of W begins to copy, with ranks R.
CommitTaken(T, n, t, W, R, T2) ==
    /\ \A u \in Threads \ {t} : T2[u] = T[u]
    /\ T[t].stage = "open" /\ T2[t].stage = "copying" /\ W \subseteq DOMAIN T[t].deps
    /\ DOMAIN T2[t].deps = DOMAIN T[t].deps /\ DOMAIN T2[t].shadow = DOMAIN T[t].shadow
    /\ DOMAIN T2[t].copies = W
    /\ \A a \in DOMAIN T[t].deps : a \notin W => T2[t].deps[a] = T[t].deps[a]
    /\ \A a \in DOMAIN T[t].shadow : a \notin W => T2[t].shadow[a] = T[t].shadow[a]
    /\ \A a \in W : /\ T2[t].deps[a].backing = T[t].deps[a].backing
                    /\ T2[t].deps[a].external = T[t].deps[a].external
                    /\ T2[t].deps[a].contentGeneration = n + 2 * R[a] + 1
                    /\ T[t].deps[a].external => T2[t].deps[a].hash = Hash(T2[t].shadow[a])
                    /\ T2[t].copies[a].backing = T[t].deps[a].backing
                    /\ ~T[t].deps[a].external => T2[t].copies[a].left = Lines

\* The backings of the last pages, by L, are stamped, and nothing else changes.
CommitStamped(T, B, n, t, W, R, L, B2, n2) ==
    /\ n2 \in Nat /\ \A a \in W : R[a] \in Nat /\ n + 2 * R[a] + 2 <= n2
    /\ n <= n2 /\ DOMAIN B2 \subseteq DOMAIN B
    /\ \A b \in DOMAIN B2 : B2[b].host = B[b].host /\ B2[b].data = B[b].data
    /\ \A b \in DOMAIN B2 : b \notin Written(T, t, W) => B2[b].generation = B[b].generation
    /\ \A b \in DOMAIN B2 : b \in Written(T, t, W) =>
          L[b] \in W /\ B2[b].generation = n + 2 * R[L[b]] + 1
    /\ \A a \in W : a <= L[T[t].deps[a].backing]

\* Ranks tell the pages of W apart.
RanksApart(W, R) == W \subseteq Int /\ \A a, q \in W : a < q => R[a] < R[q]

\* Nobody else is copying to what the commit writes.
CommitAlone(T, t, W) ==
    \A u \in Threads \ {t} : \A q \in DOMAIN T[u].copies :
        T[u].stage = "copying" => T[u].copies[q].backing \notin Written(T, t, W)

\* A commit makes every other record of what it writes stale.
LEMMA CommitTakenReads ==
    ASSUME NEW T, NEW B, NEW n, NEW t \in Threads, NEW W, NEW R, NEW L, NEW T2, NEW B2, NEW n2,
           Shaped(T), Shaped(T2), Named(T2, B2), Reads(T, B, n), CommitTaken(T, n, t, W, R, T2),
           CommitStamped(T, B, n, t, W, R, L, B2, n2), RanksApart(W, R), CommitAlone(T, t, W)
    PROVE  Reads(T2, B2, n2)
<1>1. /\ StampsPast(T, B, n) /\ ExternalKnown(T, B) /\ Hashed(T) /\ OneWriter(T, B)
      /\ Tracked(T, B) /\ LinesLanded(T, B) /\ PagesInOrder(T) /\ CopiesFollow(T)
  BY DEF Reads
<1>2. n \in Nat /\ n2 \in Nat
  BY <1>1 DEF StampsPast, CommitStamped
<1>3. ASSUME NEW u \in Threads
      PROVE  /\ DOMAIN T2[u].deps = DOMAIN T[u].deps
             /\ DOMAIN T2[u].shadow = DOMAIN T[u].shadow
             /\ \A x \in DOMAIN T[u].deps : /\ T2[u].deps[x].backing = T[u].deps[x].backing
                                            /\ T2[u].deps[x].external = T[u].deps[x].external
                                            /\ T[u].deps[x].backing \in DOMAIN B2
  BY DEF CommitTaken, Named
<1>4. ASSUME NEW u \in Threads, NEW x \in DOMAIN T[u].deps, ~(u = t /\ x \in W)
      PROVE  T2[u].deps[x] = T[u].deps[x]
  BY <1>4 DEF CommitTaken
<1>5. ASSUME NEW u \in Threads, NEW x \in DOMAIN T[u].deps, Matching(B2, T2[u].deps[x]),
             T[u].deps[x].backing \in Written(T, t, W)
      PROVE  u = t /\ x \in W /\ x = L[T[u].deps[x].backing]
  <2> DEFINE b == T[u].deps[x].backing
             g == B2[b].generation
             k == T2[u].deps[x].contentGeneration
  <2>1. b \in DOMAIN B2 /\ L[b] \in W /\ g = n + 2 * R[L[b]] + 1 /\ R[L[b]] \in Nat
    BY <1>3, <1>5 DEF CommitStamped
  <2>2. g = k
    BY <1>3, <1>5 DEF Matching
  <2>3. u = t /\ x \in W
    <3> SUFFICES ASSUME ~(u = t /\ x \in W) PROVE FALSE
      OBVIOUS
    <3>1. k \in 0 .. n
      BY <1>1, <1>4 DEF StampsPast
    <3> HIDE DEF g, k, b
    <3> QED
      BY <1>2, <2>1, <2>2, <3>1
  <2>4. k = n + 2 * R[x] + 1 /\ R[x] \in Nat /\ x \in Int /\ L[b] \in Int
    BY <2>1, <2>3 DEF CommitTaken, CommitStamped, RanksApart
  <2>5. x < L[b] => R[x] < R[L[b]]
    BY <2>1, <2>3 DEF RanksApart
  <2>6. L[b] < x => R[L[b]] < R[x]
    BY <2>1, <2>3 DEF RanksApart
  <2> HIDE DEF g, k, b
  <2>7. R[x] = R[L[b]]
    BY <1>2, <2>1, <2>2, <2>4
  <2>8. x = L[b]
    BY <2>1, <2>4, <2>5, <2>6, <2>7
  <2> QED
    BY <2>3, <2>8 DEF b
<1>6. ASSUME NEW u \in Threads, NEW x \in DOMAIN T[u].deps, Matching(B2, T2[u].deps[x]),
             T[u].deps[x].backing \notin Written(T, t, W)
      PROVE  /\ Matching(B, T[u].deps[x]) /\ ~(u = t /\ x \in W)
             /\ B2[T[u].deps[x].backing].data = B[T[u].deps[x].backing].data
  <2>1. ~(u = t /\ x \in W)
    BY <1>6 DEF Written
  <2>2. T2[u].deps[x] = T[u].deps[x] /\ T[u].deps[x].backing \in DOMAIN B2
    BY <1>3, <1>4, <2>1
  <2> QED
    BY <1>6, <2>1, <2>2 DEF Matching, CommitStamped
<1>7. StampsPast(T2, B2, n2)
  <2>1. ASSUME NEW b \in DOMAIN B2 PROVE B2[b].generation \in 0 .. n2
    <3>1. CASE b \in Written(T, t, W)
      <4>1. L[b] \in W /\ B2[b].generation = n + 2 * R[L[b]] + 1
        BY <3>1 DEF CommitStamped
      <4>2. R[L[b]] \in Nat /\ n + 2 * R[L[b]] + 2 <= n2
        BY <4>1 DEF CommitStamped
      <4> QED
        BY <1>2, <4>1, <4>2
    <3>2. CASE b \notin Written(T, t, W)
      <4>1. B2[b].generation = B[b].generation /\ b \in DOMAIN B /\ n <= n2
        BY <3>2 DEF CommitStamped
      <4>2. B[b].generation \in 0 .. n
        BY <1>1, <4>1 DEF StampsPast
      <4> QED
        BY <1>2, <4>1, <4>2
    <3> QED
      BY <3>1, <3>2
  <2>2. ASSUME NEW u \in Threads, NEW x \in DOMAIN T2[u].deps
        PROVE  T2[u].deps[x].contentGeneration \in 0 .. n2
    <3>1. CASE u = t /\ x \in W
      <4>1. T2[u].deps[x].contentGeneration = n + 2 * R[x] + 1
        BY <3>1 DEF CommitTaken
      <4>2. R[x] \in Nat /\ n + 2 * R[x] + 2 <= n2
        BY <3>1 DEF CommitStamped
      <4> QED
        BY <1>2, <4>1, <4>2
    <3>2. CASE ~(u = t /\ x \in W)
      <4>1. T2[u].deps[x].contentGeneration \in 0 .. n /\ n <= n2
        BY <1>1, <1>3, <1>4, <3>2 DEF StampsPast, CommitStamped
      <4> QED
        BY <1>2, <4>1
    <3> QED
      BY <3>1, <3>2
  <2>3. n2 >= 3
    BY <1>1, <1>2 DEF StampsPast, CommitStamped
  <2> QED
    BY <1>2, <2>1, <2>2, <2>3 DEF StampsPast
<1>8. ExternalKnown(T2, B2)
  BY <1>1, <1>3 DEF ExternalKnown, CommitStamped
<1>9. Hashed(T2)
  <2> SUFFICES ASSUME NEW u \in Threads, NEW x \in DOMAIN T2[u].shadow, T2[u].deps[x].external
               PROVE  T2[u].deps[x].hash = Hash(T2[u].shadow[x])
    BY DEF Hashed
  <2>1. x \in DOMAIN T[u].shadow /\ x \in DOMAIN T[u].deps
    BY <1>3 DEF Shaped, WellShaped
  <2>2. CASE u = t /\ x \in W
    BY <1>3, <2>1, <2>2 DEF CommitTaken
  <2>3. CASE ~(u = t /\ x \in W)
    <3>1. T2[u].deps[x] = T[u].deps[x] /\ T2[u].shadow[x] = T[u].shadow[x]
      BY <1>4, <2>1, <2>3 DEF CommitTaken
    <3> QED
      BY <1>1, <2>1, <3>1 DEF Hashed
  <2> QED
    BY <2>2, <2>3
<1>10. OneWriter(T2, B2)
  <2> SUFFICES ASSUME NEW s \in Threads, NEW u \in Threads, NEW q \in DOMAIN T2[s].copies,
                      NEW x \in DOMAIN T2[u].deps, T2[s].stage = "copying",
                      Matching(B2, T2[u].deps[x]), T2[u].deps[x].backing = T2[s].copies[q].backing
               PROVE  u = s /\ x \in DOMAIN T2[s].copies /\ q <= x
    BY DEF OneWriter
  <2>1. x \in DOMAIN T[u].deps /\ T[u].deps[x].backing = T2[s].copies[q].backing
    BY <1>3
  <2>2. CASE s = t
    <3>1. q \in W /\ T[u].deps[x].backing = T[t].deps[q].backing
      BY <2>1, <2>2 DEF CommitTaken
    <3>2. T[u].deps[x].backing \in Written(T, t, W)
      BY <3>1 DEF Written
    <3>3. u = t /\ x \in W /\ x = L[T[u].deps[x].backing]
      BY <1>5, <2>1, <3>2
    <3>4. q <= L[T[t].deps[q].backing]
      BY <3>1 DEF CommitStamped
    <3> QED
      BY <2>2, <3>1, <3>3, <3>4 DEF CommitTaken
  <2>3. CASE s # t
    <3>1. T2[s] = T[s]
      BY <2>3 DEF CommitTaken
    <3>2. T[u].deps[x].backing \notin Written(T, t, W)
      BY <2>1, <2>3, <3>1 DEF CommitAlone
    <3>3. Matching(B, T[u].deps[x])
      BY <1>6, <2>1, <3>2
    <3> QED
      BY <1>1, <2>1, <3>1, <3>3 DEF OneWriter
  <2> QED
    BY <2>2, <2>3
<1>11. Tracked(T2, B2)
  <2> SUFFICES ASSUME NEW u \in Threads, NEW x \in DOMAIN T2[u].shadow, Matching(B2, T2[u].deps[x])
               PROVE  \/ T2[u].stage = "copying" /\ x \in DOMAIN T2[u].copies
                      \/ T2[u].shadow[x] = B2[T2[u].deps[x].backing].data
    BY DEF Tracked
  <2>1. x \in DOMAIN T[u].shadow /\ x \in DOMAIN T[u].deps
    BY <1>3 DEF Shaped, WellShaped
  <2>2. CASE T[u].deps[x].backing \in Written(T, t, W)
    BY <1>5, <2>1, <2>2 DEF CommitTaken
  <2>3. CASE T[u].deps[x].backing \notin Written(T, t, W)
    <3>1. /\ Matching(B, T[u].deps[x]) /\ ~(u = t /\ x \in W)
          /\ B2[T[u].deps[x].backing].data = B[T[u].deps[x].backing].data
      BY <1>6, <2>1, <2>3
    <3>2. T2[u].shadow[x] = T[u].shadow[x]
      BY <2>1, <3>1 DEF CommitTaken
    <3>3. \/ T[u].stage = "copying" /\ x \in DOMAIN T[u].copies
          \/ T[u].shadow[x] = B[T[u].deps[x].backing].data
      BY <1>1, <2>1, <3>1 DEF Tracked
    <3>4. T[u].stage = "copying" => T2[u] = T[u]
      BY DEF CommitTaken
    <3> QED
      BY <1>3, <2>1, <3>1, <3>2, <3>3, <3>4
  <2> QED
    BY <2>2, <2>3
<1>12. LinesLanded(T2, B2)
  <2> SUFFICES ASSUME NEW s \in Threads, NEW x \in DOMAIN T2[s].copies, T2[s].stage = "copying",
                      ~T2[s].deps[x].external,
                      \A q \in DOMAIN T2[s].copies :
                         T2[s].copies[q].backing = T2[s].copies[x].backing => q <= x,
                      NEW m \in Lines \ T2[s].copies[x].left
               PROVE  B2[T2[s].copies[x].backing].data[m] = T2[s].shadow[x][m]
    BY DEF LinesLanded
  <2>1. CASE s = t
    BY <2>1 DEF CommitTaken
  <2>2. CASE s # t
    <3>1. T2[s] = T[s] /\ T2[s].copies[x].backing \in DOMAIN B2
      BY <2>2 DEF CommitTaken, Named
    <3>2. B[T[s].copies[x].backing].data[m] = T[s].shadow[x][m]
      BY <1>1, <3>1 DEF LinesLanded
    <3> QED
      BY <3>1, <3>2 DEF CommitStamped
  <2> QED
    BY <2>1, <2>2
<1>13. PagesInOrder(T2)
  <2> SUFFICES ASSUME NEW s \in Threads, NEW x \in DOMAIN T2[s].copies, NEW q \in DOMAIN T2[s].copies,
                      T2[s].stage = "copying", x < q, T2[s].copies[x].left # {},
                      ~T2[s].deps[q].external
               PROVE  T2[s].copies[q].left = Lines
    BY DEF PagesInOrder
  <2>1. CASE s = t
    BY <2>1 DEF CommitTaken
  <2>2. CASE s # t
    BY <1>1, <2>2 DEF PagesInOrder, CommitTaken
  <2> QED
    BY <2>1, <2>2
<1>14. CopiesFollow(T2)
  <2> SUFFICES ASSUME NEW s \in Threads, NEW x \in DOMAIN T2[s].copies, T2[s].stage = "copying"
               PROVE  T2[s].copies[x].backing = T2[s].deps[x].backing
    BY DEF CopiesFollow
  <2>1. CASE s = t
    BY <2>1 DEF CommitTaken
  <2>2. CASE s # t
    BY <1>1, <2>2 DEF CopiesFollow, CommitTaken
  <2> QED
    BY <2>1, <2>2
<1> QED
  BY <1>7, <1>8, <1>9, <1>10, <1>11, <1>12, <1>13, <1>14 DEF Reads

\* t's transaction after a successful commit.
LEMMA CommitsTaken ==
    ASSUME TInv, AInv, NEW t \in Threads, NEW W, NEW v \in [W -> Stores], txn[t].stage = "open",
           CommitKnows(t, W), NEW f \in Allocations(Copied(W)), CommitsAs(t, W, v, f),
           NEW R, R = [a \in W |-> Rank(W, a)]
    PROVE  CommitTaken(txn, nextGen, t, W, R, txn')
<1> DEFINE D == CommitDeps(t, W, f, v)
           d == txn[t].deps
           sh == Merge(txn[t].shadow, v)
           c == CommitCopies(t, W, f)
<1>1. TypeOK /\ InPlace
  BY DEF TInv, AInv
<1>2. Targets(W, f, Target(W, f))
  BY <1>1, TargetTyped
<1>3. Becomes(t, "copying", D, sh, c, DependencyStripes(t) \ WriteStripes(W), WriteStripes(W))
  BY <1>2, CommitTxn DEF CommitsAs
<1>4. Copied(W) = {}
  BY <1>1, NothingCopied
<1>5. W \subseteq DOMAIN d /\ W \subseteq DOMAIN txn[t].shadow
  BY DEF CommitKnows
<1>6. ASSUME NEW a \in W PROVE Target(W, f)[a] = d[a].backing
  BY <1>2, <1>4 DEF Targets, CommitKnows
<1>7. DOMAIN D = DOMAIN d /\ \A a \in DOMAIN d : a \notin W => D[a] = d[a]
  BY DEF CommitDeps
<1>8. ASSUME NEW a \in W
      PROVE  /\ D[a].backing = d[a].backing /\ D[a].external = d[a].external
             /\ D[a].contentGeneration = nextGen + 2 * R[a] + 1
             /\ d[a].external => D[a].hash = Hash(v[a])
  <2> DEFINE prot == [d[a].protection EXCEPT !.access = Detached(@)]
             g == nextGen + 2 * Rank(W, a) + 2
             k == nextGen + 2 * Rank(W, a) + 1
             h == IF d[a].external THEN Hash(v[a]) ELSE NoHash
             F == Target(W, f)
  <2>1. D[a] = [generation |-> g, contentGeneration |-> k, hash |-> h, backing |-> F[a],
                protection |-> prot, external |-> d[a].external]
    BY <1>5 DEF CommitDeps
  <2>2. k = nextGen + 2 * R[a] + 1 /\ (d[a].external => h = Hash(v[a]))
    OBVIOUS
  <2> HIDE DEF D, prot, g, k, h, F
  <2> QED
    BY <1>6, <2>1, <2>2 DEF F
<1>9. /\ DOMAIN sh = DOMAIN txn[t].shadow
      /\ \A a \in DOMAIN sh : IF a \in W THEN sh[a] = v[a] ELSE sh[a] = txn[t].shadow[a]
  <2>1. DOMAIN v = W
    OBVIOUS
  <2> QED
    BY <1>5, <2>1 DEF Merge
<1>10. /\ DOMAIN c = W
       /\ \A a \in W : c[a].backing = d[a].backing /\ (~d[a].external => c[a].left = Lines)
  <2>1. \A a \in W : c[a] = [backing |-> Target(W, f)[a],
                             left |-> IF txn[t].deps[a].external THEN {} ELSE Lines]
    BY DEF CommitCopies
  <2>2. DOMAIN c = W
    BY DEF CommitCopies
  <2> HIDE DEF c
  <2> QED
    BY <1>6, <2>1, <2>2
<1> HIDE DEF D, sh, c
<1>11. /\ \A u \in Threads \ {t} : txn'[u] = txn[u]
       /\ txn'[t].stage = "copying" /\ txn'[t].deps = D /\ txn'[t].shadow = sh
       /\ txn'[t].copies = c
  BY <1>3 DEF Becomes
<1> QED
  BY <1>5, <1>7, <1>8, <1>9, <1>10, <1>11 DEF CommitTaken

\* The backings after a successful commit.
LEMMA CommitsStamped ==
    ASSUME TInv, AInv, NEW t \in Threads, NEW W, CommitKnows(t, W),
           NEW f \in Allocations(Copied(W)), NEW last \in LastPages(Target(W, f), W),
           backings' = Stamped(W, CommitTable(t, W, f), last),
           nextGen' = nextGen + 2 * Cardinality(W), Ranked(W), NEW R, R = [a \in W |-> Rank(W, a)]
    PROVE  CommitStamped(txn, backings, nextGen, t, W, R, last, backings', nextGen')
<1> DEFINE F == Target(W, f)
           T == CommitTable(t, W, f)
           M == Merge(backings, FreshCopies(W, f))
           delta == CommitDelta(t, W, f)
<1>1. TypeOK /\ InPlace /\ nextGen \in Nat
  BY DEF TInv, AInv, TypeOK
<1>2. Targets(W, f, F)
  BY <1>1, TargetTyped
<1>3. Copied(W) = {}
  BY <1>1, NothingCopied
<1>4. \A a \in W : F[a] = txn[t].deps[a].backing
  BY <1>2, <1>3 DEF Targets, CommitKnows
<1>5. DOMAIN M = DOMAIN backings /\ \A b \in DOMAIN M : M[b] = backings[b]
  <2>1. DOMAIN FreshCopies(W, f) = {}
    BY <1>3 DEF FreshCopies
  <2>2. PICK N : N = FreshCopies(W, f)
    OBVIOUS
  <2>3. DOMAIN N = {} /\ M = Merge(backings, N)
    BY <2>1, <2>2
  <2> HIDE DEF M
  <2> QED
    BY <2>3 DEF Merge
<1>6. Rebalanced(M, delta, T)
  <2>1. \A b \in DOMAIN M : delta[b] \in Int
    BY CommitDeltaValue
  <2>2. Rebalancing(M, delta)
    BY <1>1, <1>5, <2>1 DEF Rebalancing, TypeOK
  <2>3. Rebalanced(M, delta, Rebalance(M, delta))
    BY <2>2, RebalanceTyped
  <2> QED
    BY <2>3 DEF CommitTable
<1> HIDE DEF T, M, delta
<1>7. /\ DOMAIN T \subseteq DOMAIN backings
      /\ \A b \in DOMAIN T : /\ T[b] \in Backing /\ T[b].generation = backings[b].generation
                             /\ T[b].host = backings[b].host /\ T[b].data = backings[b].data
  BY <1>5, <1>6 DEF Rebalanced
<1>8. /\ last \in [{F[p] : p \in W} -> W]
      /\ \A p \in W : F[last[F[p]]] = F[p] /\ p <= last[F[p]]
  BY DEF LastPages
<1> HIDE DEF F
<1>9. DOMAIN last = Written(txn, t, W) /\ \A b \in DOMAIN last : last[b] \in W
  BY <1>4, <1>8 DEF Written
<1>10. \A a \in W : a <= last[txn[t].deps[a].backing]
  BY <1>4, <1>8
<1>11. /\ DOMAIN backings' = DOMAIN T
       /\ \A b \in DOMAIN T : backings'[b] = IF b \in DOMAIN last
                THEN [T[b] EXCEPT !.generation = nextGen + 2 * Rank(W, last[b]) + 1] ELSE T[b]
  BY DEF Stamped, T
<1>12. ASSUME NEW b \in DOMAIN backings'
       PROVE  /\ b \in DOMAIN backings
              /\ backings'[b].host = backings[b].host /\ backings'[b].data = backings[b].data
              /\ b \notin Written(txn, t, W) => backings'[b].generation = backings[b].generation
              /\ b \in Written(txn, t, W) =>
                    last[b] \in W /\ backings'[b].generation = nextGen + 2 * R[last[b]] + 1
  <2>1. b \in DOMAIN T /\ T[b] \in Backing
    BY <1>7, <1>11
  <2>2. CASE b \in Written(txn, t, W)
    <3> DEFINE g == nextGen + 2 * Rank(W, last[b]) + 1
    <3>1. last[b] \in W /\ backings'[b] = [T[b] EXCEPT !.generation = g]
      BY <1>9, <1>11, <2>1, <2>2
    <3>2. g = nextGen + 2 * R[last[b]] + 1
      BY <3>1
    <3> HIDE DEF g
    <3>3. /\ backings'[b].host = T[b].host /\ backings'[b].data = T[b].data
          /\ backings'[b].generation = g
      BY <2>1, <3>1 DEF Backing
    <3> QED
      BY <1>7, <2>1, <2>2, <3>1, <3>2, <3>3
  <2>3. CASE b \notin Written(txn, t, W)
    BY <1>7, <1>9, <1>11, <2>1, <2>3
  <2> QED
    BY <2>2, <2>3
<1>13. Cardinality(W) \in Nat
  BY FS_CardinalityType DEF CommitKnows
<1>14. \A a \in W : R[a] \in Nat /\ R[a] + 1 <= Cardinality(W)
  BY DEF Ranked
<1>15. nextGen' \in Nat /\ nextGen <= nextGen'
       /\ \A a \in W : R[a] \in Nat /\ nextGen + 2 * R[a] + 2 <= nextGen'
  BY <1>1, <1>13, <1>14
<1> QED
  BY <1>10, <1>12, <1>15 DEF CommitStamped

\* A successful commit, under the exclusive stripes of what it writes.
LEMMA CommitReads ==
    ASSUME TInv, TInv', AInv, VInv, NEW t \in Threads, NEW W, NEW v \in [W -> Stores],
           CommitPages(t, W, v)
    PROVE  VInv'
<1> DEFINE R == [a \in W |-> Rank(W, a)]
<1>1. CommitKnows(t, W)
  BY CommitKnown
<1>2. /\ TypeOK /\ Writable(WriteStripes(W)) /\ txn[t].stage = "open"
      /\ nextGen' = nextGen + 2 * Cardinality(W)
  BY DEF TInv, CommitPages, CommitReady
<1>3. PICK f \in Allocations(Copied(W)) : CommitsAs(t, W, v, f)
  BY CommitParts
<1>4. PICK last \in LastPages(Target(W, f), W) : backings' = Stamped(W, CommitTable(t, W, f), last)
  BY <1>3 DEF CommitsAs
<1>5. W \subseteq Int /\ IsFiniteSet(W)
  BY <1>1, TransactionAssumption, AddressAssumption DEF CommitKnows, Address
<1>6. Ranked(W)
  BY <1>5, RanksOrdered
<1>7. RanksApart(W, R)
  BY <1>5, <1>6 DEF RanksApart, Ranked
<1> HIDE DEF R
<1>8. R = [a \in W |-> Rank(W, a)]
  BY DEF R
<1>9. CommitTaken(txn, nextGen, t, W, R, txn')
  BY <1>1, <1>2, <1>3, <1>8, CommitsTaken
<1>10. CommitStamped(txn, backings, nextGen, t, W, R, last, backings', nextGen')
  BY <1>1, <1>2, <1>4, <1>6, <1>8, CommitsStamped
<1>11. CommitAlone(txn, t, W)
  <2> SUFFICES ASSUME NEW u \in Threads \ {t}, NEW q \in DOMAIN txn[u].copies,
                      txn[u].stage = "copying", NEW a \in W,
                      txn[u].copies[q].backing = txn[t].deps[a].backing
               PROVE  FALSE
    BY DEF CommitAlone, Written
  <2>1. Stripe[txn[u].copies[q].backing] \in txn[u].writing
    BY DEF AInv, Covered
  <2>2. pages[a].backing = txn[t].deps[a].backing
    BY <1>1 DEF CommitKnows
  <2>3. Stripe[pages[a].backing] \in WriteStripes(W)
    BY <1>1, <1>2, WrittenStriped
  <2> QED
    BY <1>2, <2>1, <2>2, <2>3 DEF Writable
<1>12. Shaped(txn) /\ Shaped(txn')
  BY DEF TInv, TxnTyped, Shaped
<1>13. Named(txn', backings')
  BY PinnedAliveNext DEF AllPinned, Named
<1>14. Reads(txn', backings', nextGen')
  BY <1>7, <1>9, <1>10, <1>11, <1>12, <1>13, CommitTakenReads DEF VInv
<1> QED
  BY <1>14 DEF VInv

\* Nothing has been recorded or copied at first.
LEMMA TInitReads ==
    ASSUME TInit, GarbagePast
    PROVE  VInv
<1>1. Init /\ txn = [t \in Threads |-> Idle]
  BY DEF TInit
<1>2. \A t \in Threads : /\ DOMAIN txn[t].deps = {} /\ DOMAIN txn[t].shadow = {}
                         /\ DOMAIN txn[t].copies = {}
  BY <1>1 DEF Idle
<1>3. nextGen = 3 /\ \A b \in DOMAIN backings : backings[b].generation \in 0 .. nextGen
  <2>1. PICK b \in Backings, junk \in Garbage :
          backings = [c \in {b} |-> [refs |-> 2, generation |-> junk, host |-> NoHost, data |-> Zero]]
    BY <1>1 DEF Init
  <2>2. junk \in 0 .. 3 /\ nextGen = 3
    BY <1>1, BackingAssumption DEF GarbagePast, Init
  <2> QED
    BY <2>1, <2>2
<1>4. StampsPast(txn, backings, nextGen)
  BY <1>2, <1>3 DEF StampsPast
<1>5. ExternalKnown(txn, backings) /\ Hashed(txn) /\ OneWriter(txn, backings)
  BY <1>2 DEF ExternalKnown, Hashed, OneWriter
<1>6. Tracked(txn, backings) /\ LinesLanded(txn, backings) /\ PagesInOrder(txn) /\ CopiesFollow(txn)
  BY <1>2 DEF Tracked, LinesLanded, PagesInOrder, CopiesFollow
<1> QED
  BY <1>4, <1>5, <1>6 DEF VInv, Reads

\* Every step keeps records and bytes in agreement.
LEMMA TNextReads ==
    ASSUME TInv, TInv', AInv, VInv, GarbagePast, [TNext]_vars
    PROVE  VInv'
<1>1. CASE UNCHANGED vars
  BY <1>1 DEF vars, memoryVars, VInv
<1>2. CASE alive /\ Ordinary
  BY <1>2, OrdinaryReads
<1>3. ASSUME NEW t \in Threads, Transaction(t) PROVE VInv'
  <2>1. ASSUME NEW a \in TxnPages, Snapshot(t, a) PROVE VInv'
    BY <2>1, SnapshotReads
  <2>2. ASSUME NEW a \in TxnPages, Record(t, a) PROVE VInv'
    BY <2>2, RecordReads
  <2>3. ASSUME NEW a \in TxnPages, NEW mode \in {"read", "write", "fetch"}, Validate(t, a, mode)
        PROVE  VInv'
    BY <2>3, GuardReads
  <2>4. ASSUME NEW W \in SUBSET TxnPages, CommitGuard(t, W) PROVE VInv'
    BY <2>4, GuardReads
  <2>5. ASSUME NEW W \in SUBSET TxnPages, CommitFails(t, W) PROVE VInv'
    BY <2>5, StagesReads
  <2>6. ASSUME NEW W \in SUBSET TxnPages, NEW v \in [W -> Stores], CommitPages(t, W, v)
        PROVE  VInv'
    BY <2>6, CommitReads
  <2>7. CASE CopyLine(t) \/ ReleaseStripes(t)
    BY <2>7, CopyReads, ReleaseReads
  <2>8. CASE Begin(t) \/ DropPins(t) \/ Finish(t) \/ End(t)
    BY <2>8, StagesReads
  <2> QED
    BY <1>3, <2>1, <2>2, <2>3, <2>4, <2>5, <2>6, <2>7, <2>8, Zenon DEF Transaction
<1> QED
  BY <1>1, <1>2, <1>3 DEF TNext

\* The whole invariant holds in every reachable state.
LEMMA ReadsInvariant ==
    ASSUME NoCopyAsked, GarbagePast
    PROVE  TSpec => [](TInv /\ AInv /\ VInv)
<1> DEFINE Inv == TInv /\ AInv /\ VInv
<1>1. TInit => Inv
  BY TInitKeeps, TInitCovered, TInitReads
<1>2. Inv /\ [TNext]_vars => Inv'
  BY TNextKeeps, TNextCovered, TNextReads
<1> QED
  BY <1>1, <1>2, PTL DEF TSpec

\* The invariant makes a dependency that still matches one of the bytes memory holds.
LEMMA ReadsValid ==
    ASSUME \A c, d \in Contents : Hash(c) = Hash(d) => c = d
    PROVE  TInv /\ AInv /\ VInv => ValidatedReadsAreCurrent
<1> SUFFICES ASSUME TInv, VInv, NEW t \in Threads, txn[t].stage \in {"open", "stopping"},
                    NEW a \in DOMAIN txn[t].shadow, Current(a, txn[t].deps[a])
             PROVE  txn[t].shadow[a] = Content(txn[t].deps[a].backing)
  BY DEF ValidatedReadsAreCurrent
<1> DEFINE d == txn[t].deps[a]
<1>1. /\ a \in DOMAIN txn[t].deps /\ txn[t].shadow[a] \in Contents
      /\ txn[t].stage # "copying"
  BY TxnFields DEF TInv
<1>2. d.external <=> External(d.backing)
  BY <1>1 DEF VInv, Reads, ExternalKnown, External
<1>3. CASE d.external
  <2>1. d.hash = Hash(txn[t].shadow[a]) /\ Hash(Content(d.backing)) = d.hash
    BY <1>3 DEF VInv, Reads, Hashed, Current
  <2>2. d.backing \in DOMAIN backings
    BY <1>1, PinnedAliveNext DEF AllPinned
  <2>3. Content(d.backing) \in Contents
    BY <2>2, ContentTyped
  <2> QED
    BY <1>1, <2>1, <2>3
<1>4. CASE ~d.external
  <2>1. Matching(backings, d)
    BY <1>4 DEF Matching, Current
  <2>2. txn[t].shadow[a] = backings[d.backing].data
    BY <1>1, <2>1 DEF VInv, Reads, Tracked
  <2> QED
    BY <1>2, <1>4, <2>2 DEF Content
<1> QED
  BY <1>3, <1>4

\* Where no caller asks for a write-copy view, fresh storage carries no stamp from
\* the future and content_hash tells the contents of caller-owned pages apart: a
\* dependency that commit or finish accepts is of the bytes memory holds now, so no
\* store by another thread, through any alias, slipped in between snapshot and
\* validation (gem_memory_transaction_finish, gem_memory_transaction_commit_pages).
THEOREM ReadsStayValid ==
    ASSUME \A prot \in Protections : prot.access \notin WriteCopyAccess,
           \A g \in Garbage : g <= 3,
           \A c, d \in Contents : Hash(c) = Hash(d) => c = d
    PROVE  TSpec => []ValidatedReadsAreCurrent
<1>1. NoCopyAsked /\ GarbagePast
  BY DEF NoCopyAsked, GarbagePast
<1>2. TInv /\ AInv /\ VInv => ValidatedReadsAreCurrent
  BY ReadsValid
<1> QED
  BY <1>1, <1>2, ReadsInvariant, PTL

\* A commit stops copying only by releasing its stripes.
LEMMA OnlyRelease ==
    ASSUME TInv, NEW t \in Threads, [TNext]_vars,
           txn[t].stage = "copying", txn'[t].stage = "unpinning"
    PROVE  ReleaseStripes(t)
<1>1. TxnTyped /\ TypeOK
  BY DEF TInv
<1>2. ~(txn' = txn)
  OBVIOUS
<1>3. PICK u \in Threads : Transaction(u)
  BY <1>2 DEF TNext, Ordinary, vars
<1>4. ASSUME NEW x \in Threads, Aside(x), txn[x].stage # "copying" PROVE FALSE
  BY <1>4 DEF Aside
<1>5. CASE \/ Begin(u) \/ Finish(u) \/ End(u) \/ DropPins(u)
           \/ \E a \in TxnPages : \/ Snapshot(u, a) \/ Record(u, a)
                                  \/ \E mode \in {"read", "write", "fetch"} : Validate(u, a, mode)
           \/ \E W \in SUBSET TxnPages : CommitFails(u, W) \/ CommitGuard(u, W)
  <2>1. Aside(u)
    BY <1>1, <1>5, TransactionAside
  <2>2. txn[u].stage # "copying"
    BY <1>5 DEF Begin, Finish, End, DropPins, Snapshot, Record, Validate, CommitFails, CommitGuard,
       CommitReady
  <2> QED
    BY <1>4, <2>1, <2>2
<1>6. ASSUME NEW W \in SUBSET TxnPages, NEW v \in [W -> Stores], CommitPages(u, W, v)
      PROVE  FALSE
  <2>0. txn[u].stage = "open"
    BY <1>6 DEF CommitPages, CommitReady
  <2>1. CommitKnows(u, W)
    BY <1>6, CommitKnown
  <2>2. PICK f \in Allocations(Copied(W)) : CommitsAs(u, W, v, f)
    BY <1>6, CommitParts
  <2>3. Targets(W, f, Target(W, f))
    BY <1>1, <2>1, TargetTyped
  <2>4. Becomes(u, "copying", CommitDeps(u, W, f, v), Merge(txn[u].shadow, v),
                CommitCopies(u, W, f), DependencyStripes(u) \ WriteStripes(W), WriteStripes(W))
    BY <2>1, <2>2, <2>3, CommitTxn DEF CommitsAs
  <2> QED
    BY <2>0, <2>4 DEF Becomes
<1>7. CASE CopyLine(u)
  <2>1. PICK a \in DOMAIN txn[u].copies, l \in Lines :
          txn' = [txn EXCEPT ![u].copies[a] = [@ EXCEPT !.left = txn[u].copies[a].left \ {l}]]
    BY <1>7 DEF CopyLine
  <2> DEFINE c2 == [txn[u].copies EXCEPT ![a] = [@ EXCEPT !.left = txn[u].copies[a].left \ {l}]]
  <2>2. txn' = [txn EXCEPT ![u].copies = c2]
    BY <2>1
  <2> HIDE DEF c2
  <2> QED
    BY <1>1, <2>2 DEF TxnTyped, Txn
<1>8. CASE ReleaseStripes(u)
  <2>1. u = t
    BY <1>1, <1>8 DEF ReleaseStripes, TxnTyped, Txn
  <2> QED
    BY <1>8, <2>1
<1> QED
  BY <1>3, <1>5, <1>6, <1>7, <1>8, Zenon DEF Transaction

\* Where no caller asks for a write-copy view and fresh storage carries no stamp
\* from the future: when a commit lets go of its stripes, every backing it wrote
\* holds exactly the bytes of the last page committed to it, so no other commit and
\* no ordinary store was interleaved with its copying outside the metadata lock
\* (gem_memory_transaction_commit_pages).
THEOREM CommitsStayWhole ==
    ASSUME \A prot \in Protections : prot.access \notin WriteCopyAccess,
           \A g \in Garbage : g <= 3
    PROVE  TSpec => CommitLands
<1>1. NoCopyAsked /\ GarbagePast
  BY DEF NoCopyAsked, GarbagePast
<1> DEFINE Lands ==
      \A t \in Threads :
          txn[t].stage = "copying" /\ txn'[t].stage = "unpinning" =>
             LET c == txn[t].copies IN
             \A a \in DOMAIN c :
                /\ ~External(c[a].backing)
                /\ \A q \in DOMAIN c : c[q].backing = c[a].backing => q <= a
                => Content(c[a].backing) = txn[t].shadow[a]
<1>2. (TInv /\ AInv /\ VInv) /\ [TNext]_vars => [Lands]_vars
  <2> SUFFICES ASSUME TInv, VInv, [TNext]_vars, NEW t \in Threads,
                      txn[t].stage = "copying", txn'[t].stage = "unpinning",
                      NEW a \in DOMAIN txn[t].copies, ~External(txn[t].copies[a].backing),
                      \A q \in DOMAIN txn[t].copies :
                         txn[t].copies[q].backing = txn[t].copies[a].backing => q <= a
               PROVE  Content(txn[t].copies[a].backing) = txn[t].shadow[a]
    OBVIOUS
  <2>1. ReleaseStripes(t)
    BY OnlyRelease
  <2>2. txn[t].copies[a].left = {}
    BY <2>1 DEF ReleaseStripes
  <2>3. a \in DOMAIN txn[t].deps /\ txn[t].copies[a].backing = txn[t].deps[a].backing
    BY TxnFields DEF TInv, VInv, Reads, CopiesFollow
  <2>4. ~txn[t].deps[a].external
    BY <2>3 DEF VInv, Reads, ExternalKnown, External
  <2>5. backings[txn[t].copies[a].backing].data = txn[t].shadow[a]
    BY <2>2, <2>4, Landed
  <2> QED
    BY <2>5 DEF Content
<1> QED
  BY <1>1, <1>2, ReadsInvariant, PTL DEF TSpec, CommitLands

-----------------------------------------------------------------------------
(* Transactions are atomic.                                                 *)

\* Pages of the same storage hold the same bytes, whatever the state.
LEMMA StorageCoherent == Atomic!Coherent
<1> SUFFICES ASSUME NEW p \in Viewed, NEW q \in Viewed,
                    StorageOf(pages[p].backing) = StorageOf(pages[q].backing)
             PROVE  Settled(pages[p].backing) = Settled(pages[q].backing)
  BY DEF Atomic!Coherent, AtomicStorage, AtomicView
<1> DEFINE b == pages[p].backing
           c == pages[q].backing
<1>1. StorageOf(b) = StorageOf(c)
  OBVIOUS
<1> HIDE DEF b, c
<1>2. CASE External(b)
  <2>1. StorageOf(b).owner = "caller" /\ StorageOf(b).id = backings[b].host
    BY <1>2 DEF StorageOf
  <2>2. External(c)
    BY <1>1, <2>1 DEF StorageOf
  <2>3. StorageOf(c).id = backings[c].host
    BY <2>2 DEF StorageOf
  <2> QED
    BY <1>1, <1>2, <2>1, <2>2, <2>3 DEF Settled, Content, b, c
<1>3. CASE ~External(b)
  <2>1. StorageOf(b).owner = "gem" /\ StorageOf(b).id = b
    BY <1>3 DEF StorageOf
  <2>2. ~External(c)
    BY <1>1, <2>1 DEF StorageOf
  <2>3. StorageOf(c).id = c
    BY <2>2 DEF StorageOf
  <2>4. b = c
    BY <1>1, <2>1, <2>3
  <2> QED
    BY <2>4 DEF b, c
<1> QED
  BY <1>2, <1>3

\* Every backing that a commit copies to has a last page among the commit's.
LastKnown(c) ==
    \A a \in DOMAIN c : \E q \in DOMAIN c :
        /\ c[q].backing = c[a].backing
        /\ \A r \in DOMAIN c : c[r].backing = c[a].backing => r <= q

LInv == \A t \in Threads : txn[t].stage = "copying" => LastKnown(txn[t].copies)

\* A commit copies to pages that have backings, in both senses of a step.
LEMMA CopiesPaged ==
    ASSUME TInv, NEW t \in Threads
    PROVE  DOMAIN txn[t].copies \subseteq TxnPages /\ TxnPages \subseteq Nat
<1>1. TxnPages \subseteq Nat
  BY TransactionAssumption, AddressAssumption DEF Address
<1> QED
  BY <1>1, TxnFields DEF TInv

\* While a commit copies to b, what b is about to hold are the bytes of the last
\* page.
LEMMA LandingDecides ==
    ASSUME TInv, AInv, NEW t \in Threads, txn[t].stage = "copying",
           NEW a \in DOMAIN txn[t].copies, NEW b, txn[t].copies[a].backing = b, ~External(b),
           \A q \in DOMAIN txn[t].copies : txn[t].copies[q].backing = b => q <= a
    PROVE  Settled(b) = txn[t].shadow[a]
<1>1. a \in TxnPages
  BY CopiesPaged
<1>2. <<t, a>> \in Landing(b)
  BY <1>1 DEF Landing
<1>3. ASSUME NEW x \in Landing(b) PROVE x = <<t, a>>
  <2>1. /\ x[1] \in Threads /\ x[2] \in TxnPages /\ x = <<x[1], x[2]>>
        /\ txn[x[1]].stage = "copying" /\ x[2] \in DOMAIN txn[x[1]].copies
        /\ txn[x[1]].copies[x[2]].backing = b
        /\ \A q \in DOMAIN txn[x[1]].copies : txn[x[1]].copies[q].backing = b => q <= x[2]
    BY DEF Landing
  <2>2. x[1] = t
    BY <2>1 DEF AInv, Covered, Apart
  <2>3. x[2] \in Nat /\ a \in Nat /\ x[2] <= a /\ a <= x[2]
    BY <1>1, <2>1, <2>2, CopiesPaged
  <2>4. x[2] = a
    BY <2>3
  <2> QED
    BY <2>1, <2>2, <2>4
<1> DEFINE y == CHOOSE z \in Landing(b) : TRUE
<1>4. y = <<t, a>>
  <2>1. y \in Landing(b)
    BY <1>2
  <2> HIDE DEF y
  <2> QED
    BY <1>3, <2>1
<1>5. Settled(b) = txn[y[1]].shadow[y[2]]
  BY <1>2 DEF Settled
<1> HIDE DEF y
<1> QED
  BY <1>4, <1>5

\* Nobody is copying to b.
Uncopied(b) ==
    \A u \in Threads : \A q \in DOMAIN txn[u].copies :
        txn[u].stage = "copying" => txn[u].copies[q].backing # b

\* Then b holds what it shows.
LEMMA UncopiedSettled ==
    ASSUME NEW b, External(b) \/ Uncopied(b)
    PROVE  Settled(b) = Content(b)
<1>1. CASE External(b)
  BY <1>1 DEF Settled
<1>2. CASE Uncopied(b)
  <2>1. Landing(b) = {}
    BY <1>2 DEF Landing, Uncopied
  <2> QED
    BY <2>1 DEF Settled
<1> QED
  BY <1>1, <1>2

\* What each page shows, by the state of its backing.
ShowsHost(a) ==
    backings[pages[a].backing].host # NoHost =>
        /\ AtomicStorage[a] = [owner |-> "caller", id |-> backings[pages[a].backing].host]
        /\ AtomicView[a] = host[backings[pages[a].backing].host]
ShowsData(a) ==
    backings[pages[a].backing].host = NoHost =>
        /\ AtomicStorage[a] = [owner |-> "gem", id |-> pages[a].backing]
        /\ \/ AtomicView[a] = backings[pages[a].backing].data
           \/ \E u \in Threads : \E q \in DOMAIN txn[u].copies :
                 txn[u].stage = "copying" /\ txn[u].copies[q].backing = pages[a].backing
        /\ \A u \in Threads : \A q \in DOMAIN txn[u].copies :
              /\ txn[u].stage = "copying" /\ txn[u].copies[q].backing = pages[a].backing
              /\ \A r \in DOMAIN txn[u].copies :
                    txn[u].copies[r].backing = pages[a].backing => r <= q
              => AtomicView[a] = txn[u].shadow[q]
Shows ==
    /\ Viewed = {a \in DOMAIN pages : pages[a].backing # NoBacking}
    /\ AtomicView = [a \in Viewed |-> AtomicView[a]]
    /\ AtomicStorage = [a \in Viewed |-> AtomicStorage[a]]
    /\ \A a \in Viewed :
          pages[a].backing \in DOMAIN backings /\ ShowsHost(a) /\ ShowsData(a)

\* It is so before a step and after it.
LEMMA ShowsNext == (TInv /\ AInv => Shows) /\ ((TInv /\ AInv)' => Shows') /\ Atomic!Coherent'
<1>1. TInv /\ AInv => Shows
  <2> SUFFICES ASSUME TInv, AInv PROVE Shows
    OBVIOUS
  <2>1. ASSUME NEW a \in Viewed
        PROVE  pages[a].backing \in DOMAIN backings /\ ShowsHost(a) /\ ShowsData(a)
    <3> DEFINE b == pages[a].backing
    <3>1. b \in DOMAIN backings
      BY CommittedTyped DEF Viewed, CommittedPage, MappedBacking
    <3>2. AtomicView[a] = Settled(b) /\ AtomicStorage[a] = StorageOf(b)
      BY DEF AtomicView, AtomicStorage
    <3>3. ShowsHost(a)
      BY <3>2, UncopiedSettled DEF ShowsHost, StorageOf, External, Content
    <3>4. ASSUME ~External(b) PROVE AtomicStorage[a] = [owner |-> "gem", id |-> b]
      BY <3>2, <3>4 DEF StorageOf
    <3>5. ASSUME ~External(b), Uncopied(b) PROVE AtomicView[a] = backings[b].data
      BY <3>2, <3>5, UncopiedSettled DEF Content
    <3>6. ASSUME ~External(b), NEW u \in Threads, NEW q \in DOMAIN txn[u].copies,
                 txn[u].stage = "copying", txn[u].copies[q].backing = b,
                 \A r \in DOMAIN txn[u].copies : txn[u].copies[r].backing = b => r <= q
          PROVE  AtomicView[a] = txn[u].shadow[q]
      BY <3>2, <3>6, LandingDecides
    <3>7. ShowsData(a)
      BY <3>4, <3>5, <3>6 DEF ShowsData, External, Uncopied
    <3> QED
      BY <3>1, <3>3, <3>7
  <2>2. /\ AtomicView = [a \in Viewed |-> AtomicView[a]]
        /\ AtomicStorage = [a \in Viewed |-> AtomicStorage[a]]
    BY DEF AtomicView, AtomicStorage
  <2> QED
    BY <2>1, <2>2 DEF Shows, Viewed
<1>2. (TInv /\ AInv)' => Shows'
  BY <1>1, PTL
<1>3. Atomic!Coherent'
  BY StorageCoherent, PTL
<1> QED
  BY <1>1, <1>2, <1>3

\* u is copying to b, after the step as before it, and will leave the same there.
GoesOn(u, b) ==
    /\ txn[u].stage = "copying" /\ txn'[u].stage = "copying"
    /\ DOMAIN txn'[u].copies = DOMAIN txn[u].copies
    /\ \A q \in DOMAIN txn[u].copies : txn'[u].copies[q].backing = txn[u].copies[q].backing
    /\ txn'[u].shadow = txn[u].shadow

\* u is not copying to b, neither before the step nor after it.
Elsewhere(u, b) ==
    /\ \A q \in DOMAIN txn[u].copies :
          txn[u].stage = "copying" => txn[u].copies[q].backing # b
    /\ \A q \in DOMAIN txn'[u].copies :
          txn'[u].stage = "copying" => txn'[u].copies[q].backing # b

SameLanding(b) == \A u \in Threads : GoesOn(u, b) \/ Elsewhere(u, b)

\* The mapping of page a, and the bytes of its backing unless a commit is copying
\* to it, are the same after the step.
SameBytes(a) ==
    /\ pages'[a].backing = pages[a].backing
    /\ backings'[pages[a].backing].host = backings[pages[a].backing].host
    /\ \/ backings'[pages[a].backing].data = backings[pages[a].backing].data
       \/ ~Uncopied(pages[a].backing)

\* Then its storage stays and, but for bytes in the caller's hands, its view.
LEMMA SameView ==
    ASSUME Shows, Shows', LInv, NEW a \in Viewed, a \in Viewed', SameLanding(pages[a].backing),
           SameBytes(a)
    PROVE  /\ AtomicStorage'[a] = AtomicStorage[a]
           /\ backings[pages[a].backing].host = NoHost => AtomicView'[a] = AtomicView[a]
           /\ backings[pages[a].backing].host # NoHost =>
                 /\ AtomicStorage[a] = [owner |-> "caller", id |-> backings[pages[a].backing].host]
                 /\ AtomicView[a] = host[backings[pages[a].backing].host]
                 /\ AtomicView'[a] = host'[backings[pages[a].backing].host]
<1>0. PICK b : b = pages[a].backing
  OBVIOUS
<1>1. /\ ShowsHost(a) /\ ShowsData(a) /\ ShowsHost(a)' /\ ShowsData(a)'
      /\ pages'[a].backing = b /\ backings'[b].host = backings[b].host
      /\ backings'[b].data = backings[b].data \/ ~Uncopied(b)
  BY <1>0 DEF Shows, SameBytes
<1>2. CASE backings[b].host # NoHost
  BY <1>0, <1>1, <1>2 DEF ShowsHost
<1>3. CASE backings[b].host = NoHost
  <2>1. AtomicStorage'[a] = AtomicStorage[a]
    BY <1>0, <1>1, <1>3 DEF ShowsData
  <2>2. \A u \in Threads : GoesOn(u, b) \/ Elsewhere(u, b)
    BY <1>0 DEF SameLanding
  <2>3. CASE Uncopied(b)
    <3>1. \A u \in Threads : \A q \in DOMAIN txn'[u].copies :
             txn'[u].stage = "copying" => txn'[u].copies[q].backing # b
      BY <2>2, <2>3 DEF GoesOn, Elsewhere, Uncopied
    <3>2. AtomicView[a] = backings[b].data
      BY <1>0, <1>1, <1>3, <2>3 DEF ShowsData, Uncopied
    <3>3. AtomicView'[a] = backings'[b].data
      BY <1>1, <1>3, <3>1 DEF ShowsData
    <3> QED
      BY <1>0, <1>1, <1>3, <2>1, <2>3, <3>2, <3>3
  <2>4. CASE ~Uncopied(b)
    <3>0. PICK u \in Threads : \E q \in DOMAIN txn[u].copies :
             txn[u].stage = "copying" /\ txn[u].copies[q].backing = b
      BY <2>4 DEF Uncopied
    <3>1. PICK q0 \in DOMAIN txn[u].copies :
             txn[u].stage = "copying" /\ txn[u].copies[q0].backing = b
      BY <3>0
    <3>2. PICK q \in DOMAIN txn[u].copies :
             /\ txn[u].copies[q].backing = b
             /\ \A r \in DOMAIN txn[u].copies : txn[u].copies[r].backing = b => r <= q
      BY <3>1 DEF LInv, LastKnown
    <3>3. AtomicView[a] = txn[u].shadow[q]
      BY <1>0, <1>1, <1>3, <3>1, <3>2 DEF ShowsData
    <3>4. /\ txn'[u].stage = "copying" /\ q \in DOMAIN txn'[u].copies
          /\ txn'[u].copies[q].backing = b /\ txn'[u].shadow = txn[u].shadow
          /\ \A r \in DOMAIN txn'[u].copies : txn'[u].copies[r].backing = b => r <= q
      BY <2>2, <3>1, <3>2 DEF GoesOn, Elsewhere
    <3>5. AtomicView'[a] = txn'[u].shadow[q]
      BY <1>1, <1>3, <3>4 DEF ShowsData
    <3> QED
      BY <1>0, <1>3, <2>1, <3>3, <3>4, <3>5
  <2> QED
    BY <2>3, <2>4
<1> QED
  BY <1>2, <1>3

\* Views and storage that are the same on every page are the same.
LEMMA ViewsByPage ==
    ASSUME Shows, Shows', Viewed' = Viewed
    PROVE  /\ (\A a \in Viewed : AtomicStorage'[a] = AtomicStorage[a]) => AtomicStorage' = AtomicStorage
           /\ (\A a \in Viewed : AtomicView'[a] = AtomicView[a]) => AtomicView' = AtomicView
<1>1. /\ AtomicView = [a \in Viewed |-> AtomicView[a]]
      /\ AtomicStorage = [a \in Viewed |-> AtomicStorage[a]]
      /\ AtomicView' = [a \in Viewed' |-> AtomicView'[a]]
      /\ AtomicStorage' = [a \in Viewed' |-> AtomicStorage'[a]]
  BY DEF Shows
<1> QED
  BY <1>1

\* A step that changes no mapping and no settled byte is not seen in memory.
LEMMA SameViews ==
    ASSUME Shows, Shows', LInv, \A b : SameLanding(b), DOMAIN pages' = DOMAIN pages, host' = host,
           \A p \in DOMAIN pages : pages'[p].backing = pages[p].backing,
           \A a \in Viewed : SameBytes(a)
    PROVE  AtomicStorage' = AtomicStorage /\ AtomicView' = AtomicView
<1>1. Viewed' = Viewed
  BY DEF Shows
<1>2. ASSUME NEW a \in Viewed
      PROVE  AtomicStorage'[a] = AtomicStorage[a] /\ AtomicView'[a] = AtomicView[a]
  BY <1>1, SameView
<1> QED
  BY <1>1, <1>2, ViewsByPage

\* What the threads have seen and where they are, after a step of t.
LEMMA SeenOf ==
    ASSUME NEW t \in Threads, \A u \in Threads \ {t} : txn'[u] = txn[u]
    PROVE  /\ Atomic!Of(t)
           /\ AtomicSeen[t] = txn[t].shadow /\ AtomicSeen'[t] = txn'[t].shadow
           /\ AtomicState[t] = TxnState(txn[t].stage)
           /\ AtomicState'[t] = TxnState(txn'[t].stage)
           /\ txn'[t].shadow = txn[t].shadow => AtomicSeen' = AtomicSeen
           /\ TxnState(txn'[t].stage) = TxnState(txn[t].stage) => AtomicState' = AtomicState
BY DEF Atomic!Of, AtomicSeen, AtomicState, TxnState

\* A commit knows the last page of each backing it writes.
CommitLast(t, W) ==
    /\ txn[t].stage = "open" /\ txn'[t].stage = "copying" /\ DOMAIN txn'[t].copies = W
    /\ \A u \in Threads \ {t} : txn'[u] = txn[u]
    /\ \A a \in W : txn'[t].copies[a].backing = pages[a].backing
    /\ \E last : \A a \in W :
          /\ last[pages[a].backing] \in W /\ a <= last[pages[a].backing]
          /\ pages[last[pages[a].backing]].backing = pages[a].backing

\* It does when it succeeds.
LEMMA CommitLasts ==
    ASSUME TInv, AInv, NEW t \in Threads, NEW W, NEW v \in [W -> Stores], CommitPages(t, W, v)
    PROVE  CommitLast(t, W)
<1> DEFINE R == [a \in W |-> Rank(W, a)]
<1>1. CommitKnows(t, W)
  BY CommitKnown
<1>2. TypeOK /\ InPlace /\ txn[t].stage = "open"
  BY DEF TInv, AInv, CommitPages, CommitReady
<1>3. PICK f \in Allocations(Copied(W)) : CommitsAs(t, W, v, f)
  BY CommitParts
<1>4. PICK last \in LastPages(Target(W, f), W) : TRUE
  BY <1>3 DEF CommitsAs
<1>5. \A a \in W : Target(W, f)[a] = pages[a].backing
  BY <1>1, <1>2, NothingCopied, TargetTyped DEF Targets
<1>6. \A a \in W : /\ last[Target(W, f)[a]] \in W /\ a <= last[Target(W, f)[a]]
                   /\ Target(W, f)[last[Target(W, f)[a]]] = Target(W, f)[a]
  <2> DEFINE F == Target(W, f)
  <2>1. last \in LastPages(F, W)
    OBVIOUS
  <2> HIDE DEF F
  <2> QED
    BY <2>1 DEF LastPages, F
<1>7. \A a \in W : /\ last[pages[a].backing] \in W /\ a <= last[pages[a].backing]
                   /\ pages[last[pages[a].backing]].backing = pages[a].backing
  BY <1>5, <1>6
<1>8. R = [a \in W |-> Rank(W, a)]
  OBVIOUS
<1> HIDE DEF R
<1>9. CommitTaken(txn, nextGen, t, W, R, txn')
  BY <1>1, <1>2, <1>3, <1>8, CommitsTaken
<1> QED
  BY <1>1, <1>7, <1>9 DEF CommitTaken, CommitLast, CommitKnows

\* Nothing is being copied at first.
LEMMA TInitLast == TInit => LInv
BY DEF TInit, LInv, Idle

\* Every step keeps the last pages known.
LEMMA TNextLast ==
    ASSUME TInv, AInv, LInv, [TNext]_vars
    PROVE  LInv'
<1>1. TxnTyped
  BY DEF TInv
<1>2. ASSUME txn' = txn PROVE LInv'
  BY <1>2 DEF LInv
<1>3. ASSUME NEW t \in Threads, Transaction(t) PROVE LInv'
  <2>1. ASSUME Aside(t) PROVE LInv'
    BY <2>1 DEF LInv, Aside
  <2>2. CASE \/ Begin(t) \/ Finish(t) \/ End(t) \/ DropPins(t)
             \/ \E a \in TxnPages : \/ Snapshot(t, a) \/ Record(t, a)
                                  \/ \E mode \in {"read", "write", "fetch"} : Validate(t, a, mode)
             \/ \E W \in SUBSET TxnPages : CommitFails(t, W) \/ CommitGuard(t, W)
    BY <1>1, <2>1, <2>2, TransactionAside
  <2>3. ASSUME NEW W \in SUBSET TxnPages, NEW v \in [W -> Stores], CommitPages(t, W, v)
        PROVE  LInv'
    <3>1. CommitLast(t, W)
      BY <2>3, CommitLasts
    <3> DEFINE c == txn'[t].copies
    <3>2. LastKnown(c)
      <4>1. DOMAIN c = W /\ \A a \in W : c[a].backing = pages[a].backing
        BY <3>1 DEF CommitLast
      <4>2. PICK last : \A a \in W :
                           /\ last[pages[a].backing] \in W /\ a <= last[pages[a].backing]
                           /\ pages[last[pages[a].backing]].backing = pages[a].backing
        BY <3>1 DEF CommitLast
      <4> HIDE DEF c
      <4>3. ASSUME NEW a \in W
            PROVE  \E q \in W : /\ c[q].backing = c[a].backing
                                /\ \A r \in W : c[r].backing = c[a].backing => r <= q
        <5> DEFINE q == last[pages[a].backing]
        <5>1. /\ q \in W /\ c[q].backing = c[a].backing
              /\ \A r \in W : c[r].backing = c[a].backing => r <= q
          BY <4>1, <4>2
        <5> QED
          BY <5>1
      <4> QED
        BY <4>1, <4>3 DEF LastKnown
    <3> QED
      BY <3>1, <3>2 DEF LInv, CommitLast
  <2>4. CASE CopyLine(t)
    <3>1. PICK a \in DOMAIN txn[t].copies : \E l \in Lines : LineTicked(txn, t, a, l, txn')
      BY <2>4, CopyTicks
    <3>2. /\ DOMAIN txn'[t].copies = DOMAIN txn[t].copies /\ txn[t].stage = "copying"
          /\ \A u \in Threads \ {t} : txn'[u] = txn[u]
          /\ \A q \in DOMAIN txn[t].copies :
                txn'[t].copies[q].backing = txn[t].copies[q].backing
      BY <3>1 DEF LineTicked
    <3>3. LastKnown(txn[t].copies)
      BY <3>2 DEF LInv
    <3>4. LastKnown(txn'[t].copies)
      BY <3>2, <3>3 DEF LastKnown
    <3> QED
      BY <3>2, <3>4 DEF LInv
  <2>5. CASE ReleaseStripes(t)
    <3>1. /\ \A u \in Threads \ {t} : txn'[u] = txn[u]
          /\ txn'[t].stage = "unpinning"
      BY <1>1, <2>5 DEF ReleaseStripes, TxnTyped, Txn
    <3> QED
      BY <3>1 DEF LInv
  <2> QED
    BY <1>3, <2>2, <2>3, <2>4, <2>5, Zenon DEF Transaction
<1> QED
  BY <1>2, <1>3 DEF TNext, Ordinary, vars

\* A step of a thread that is not copying is not seen in memory if it changes no
\* mapping and no bytes.
LEMMA AsideViews ==
    ASSUME TInv, TInv', AInv, AInv', LInv, NEW t \in Threads, Aside(t), txn[t].stage # "copying",
           Thinned, host' = host, DOMAIN pages' = DOMAIN pages,
           \A p \in DOMAIN pages : pages'[p].backing = pages[p].backing
    PROVE  AtomicStorage' = AtomicStorage /\ AtomicView' = AtomicView
<1>1. Shows /\ Shows'
  BY ShowsNext
<1>2. \A b : SameLanding(b)
  BY DEF SameLanding, GoesOn, Elsewhere, Aside
<1>3. ASSUME NEW a \in Viewed PROVE SameBytes(a)
  <2>1. a \in DOMAIN pages /\ a \in Viewed' /\ pages'[a].backing \in DOMAIN backings'
    BY <1>1 DEF Shows
  <2> QED
    BY <2>1 DEF SameBytes, Thinned, BackingKept
<1> QED
  BY <1>1, <1>2, <1>3, SameViews

\* The backing of no page changes when a guard is taken off.
LEMMA GuardMaps ==
    ASSUME TypeOK, NEW a, NEW g,
           pages' = [pages EXCEPT ![a].protection.guard = FALSE, ![a].generation = g]
    PROVE  DOMAIN pages' = DOMAIN pages
           /\ \A p \in DOMAIN pages : pages'[p].backing = pages[p].backing
<1>1. \A p \in DOMAIN pages : pages[p] \in Page
  BY DEF TypeOK
<1> QED
  BY <1>1 DEF Page, Protection

\* What the steps of a thread that is not copying leave as it is.
Calm(t) ==
    /\ Aside(t) /\ txn[t].stage # "copying" /\ Thinned /\ host' = host
    /\ DOMAIN pages' = DOMAIN pages
    /\ \A p \in DOMAIN pages : pages'[p].backing = pages[p].backing

\* What a transaction has seen is so when its records are current and nobody
\* copies under the stripes of its records.
LEMMA CurrentUpToDate ==
    ASSUME TInv, AInv, ValidatedReadsAreCurrent, NEW t \in Threads,
           txn[t].stage \in {"open", "stopping"}, AllCurrent(t), Readable(DependencyStripes(t))
    PROVE  Atomic!UpToDate(t)
<1>1. Shows
  BY ShowsNext
<1>2. AtomicSeen[t] = txn[t].shadow
  BY DEF AtomicSeen
<1>3. ASSUME NEW a \in DOMAIN txn[t].shadow
      PROVE  a \in Viewed /\ AtomicView[a] = txn[t].shadow[a]
  <2> DEFINE b == txn[t].deps[a].backing
  <2>1. a \in DOMAIN txn[t].deps /\ b \in Backings
    BY TxnFields DEF TInv, Dependency
  <2>2. Current(a, txn[t].deps[a]) /\ a \in DOMAIN pages /\ pages[a].backing = b
    BY <2>1 DEF AllCurrent, Current, SameMapping
  <2>3. a \in Viewed
    BY <2>1, <2>2, BackingAssumption DEF Viewed
  <2>4. b \in DOMAIN backings
    BY <1>1, <2>2, <2>3 DEF Shows
  <2>5. Readable(PageStripes(a, b))
    BY <2>1 DEF Readable, DependencyStripes
  <2>6. Uncopied(b)
    BY <2>4, <2>5, ReadableUncopied DEF Uncopied
  <2>7. txn[t].shadow[a] = Content(b)
    BY <2>2, <2>5 DEF ValidatedReadsAreCurrent
  <2>8. AtomicView[a] = Content(b)
    BY <2>2, <2>3, <2>6, UncopiedSettled DEF AtomicView
  <2> QED
    BY <2>3, <2>7, <2>8
<1>4. DOMAIN AtomicStorage = Viewed
  BY DEF AtomicStorage
<1> QED
  BY <1>2, <1>3, <1>4 DEF Atomic!UpToDate

\* A step that changes neither memory nor what t has seen.
LEMMA CalmStutters ==
    ASSUME TInv, TInv', AInv, AInv', LInv, NEW t \in Threads, Calm(t), nextGen' = nextGen,
           txn'[t].shadow = txn[t].shadow, TxnState(txn'[t].stage) = TxnState(txn[t].stage)
    PROVE  UNCHANGED Atomic!vars
<1>1. AtomicStorage' = AtomicStorage /\ AtomicView' = AtomicView
  BY AsideViews DEF Calm
<1>2. AtomicSeen' = AtomicSeen /\ AtomicState' = AtomicState
  BY SeenOf DEF Calm, Aside
<1> QED
  BY <1>1, <1>2 DEF Atomic!vars

\* gem_memory_transaction_begin
LEMMA BeginAtomic ==
    ASSUME TInv, TInv', AInv, AInv', LInv, NEW t \in Threads, Begin(t)
    PROVE  Atomic!Begin(t)
<1>1. TxnTyped /\ txn[t].stage = "idle" /\ UNCHANGED memoryVars /\ txn' = [txn EXCEPT ![t].stage = "open"]
  BY DEF Begin, TInv
<1>2. Calm(t)
  BY <1>1, TransactionAside DEF Calm, memoryVars, Thinned, BackingKept
<1>3. AtomicStorage' = AtomicStorage /\ AtomicView' = AtomicView
  BY <1>2, AsideViews DEF Calm
<1>4. txn'[t].shadow = txn[t].shadow /\ txn'[t].stage = "open"
  BY <1>1 DEF TxnTyped, Txn
<1>5. TxnState("idle") = "idle" /\ TxnState("open") = "open"
  BY DEF TxnState
<1> QED
  BY <1>1, <1>2, <1>3, <1>4, <1>5, SeenOf
     DEF Atomic!Begin, Atomic!memory, memoryVars, Calm, Aside

\* gem_memory_transaction_finish
LEMMA FinishAtomic ==
    ASSUME TInv, TInv', AInv, AInv', LInv, ValidatedReadsAreCurrent, NEW t \in Threads, Finish(t)
    PROVE  Atomic!Resolve(t)
<1> DEFINE x == IF AllCurrent(t) THEN "committed" ELSE "conflicted"
<1>1. /\ TxnTyped /\ txn[t].stage \in {"open", "stopping"} /\ UNCHANGED memoryVars
      /\ txn' = [txn EXCEPT ![t].stage = x] /\ Readable(DependencyStripes(t))
  BY DEF Finish, TInv
<1>2. Calm(t)
  BY <1>1, TransactionAside DEF Calm, memoryVars, Thinned, BackingKept
<1>3. AtomicStorage' = AtomicStorage /\ AtomicView' = AtomicView
  BY <1>2, AsideViews DEF Calm
<1>4. x = "conflicted" \/ (x = "committed" /\ Atomic!UpToDate(t))
  BY <1>1, CurrentUpToDate
<1> HIDE DEF x
<1>5. txn'[t].shadow = txn[t].shadow /\ txn'[t].stage = x
  BY <1>1 DEF TxnTyped, Txn
<1>6. /\ TxnState("committed") = "committed" /\ TxnState("conflicted") = "conflicted"
      /\ TxnState(txn[t].stage) = "open"
  BY <1>1 DEF TxnState
<1> QED
  BY <1>1, <1>2, <1>3, <1>4, <1>5, <1>6, SeenOf
     DEF Atomic!Resolve, Atomic!memory, memoryVars, Calm, Aside

\* gem_memory_transaction_end
LEMMA EndAtomic ==
    ASSUME TInv, TInv', AInv, AInv', LInv, NEW t \in Threads, End(t)
    PROVE  Atomic!End(t)
<1>1. /\ TxnTyped /\ TypeOK /\ UNCHANGED <<pages, host, nextGen>>
      /\ txn[t].stage \in {"open", "stopping", "committed", "conflicted"}
      /\ txn' = [txn EXCEPT ![t] = Idle]
  BY DEF End, TInv
<1>2. Thinned
  BY <1>1, GivingThins DEF End
<1>3. Calm(t)
  BY <1>1, <1>2, TransactionAside DEF Calm
<1>4. AtomicStorage' = AtomicStorage /\ AtomicView' = AtomicView
  BY <1>3, AsideViews DEF Calm
<1>5. Becomes(t, "idle", <<>>, <<>>, <<>>, {}, {})
  BY <1>1, EndBecomes
<1>6. DOMAIN txn'[t].shadow = {} /\ txn'[t].stage = "idle"
  BY <1>5 DEF Becomes
<1>7. TxnState("idle") = "idle" /\ TxnState(txn[t].stage) # "idle"
  BY <1>1 DEF TxnState
<1> QED
  BY <1>1, <1>3, <1>4, <1>6, <1>7, SeenOf DEF Atomic!End, Atomic!memory, Calm, Aside

\* Dropping the pins of a commit, a refused commit and recording a page.
LEMMA QuietAtomic ==
    ASSUME TInv, TInv', AInv, AInv', LInv, NEW t \in Threads,
           \/ DropPins(t)
           \/ \E W \in SUBSET TxnPages : CommitFails(t, W)
           \/ \E a \in TxnPages : Record(t, a)
    PROVE  UNCHANGED Atomic!vars
<1>0. TxnTyped /\ TypeOK
  BY DEF TInv
<1>1. CASE DropPins(t)
  <2>1. /\ UNCHANGED <<pages, host, nextGen>> /\ txn[t].stage = "unpinning"
        /\ txn' = [txn EXCEPT ![t].stage = "open", ![t].copies = <<>>]
    BY <1>1 DEF DropPins
  <2>2. Thinned
    BY <1>0, <1>1, GivingThins DEF DropPins
  <2>3. Calm(t)
    BY <1>0, <1>1, <2>1, <2>2, TransactionAside DEF Calm
  <2>4. txn'[t].shadow = txn[t].shadow /\ txn'[t].stage = "open"
    BY <1>0, <2>1 DEF TxnTyped, Txn
  <2>5. TxnState("open") = TxnState("unpinning")
    BY DEF TxnState
  <2> QED
    BY <2>1, <2>3, <2>4, <2>5, CalmStutters
<1>2. ASSUME NEW W \in SUBSET TxnPages, CommitFails(t, W) PROVE UNCHANGED Atomic!vars
  <2>1. /\ UNCHANGED memoryVars /\ txn[t].stage = "open"
        /\ txn' = [txn EXCEPT ![t].stage = "stopping"]
    BY <1>2 DEF CommitFails, CommitReady, Stop
  <2>2. Calm(t)
    BY <1>0, <1>2, <2>1, TransactionAside DEF Calm, memoryVars, Thinned, BackingKept
  <2>3. txn'[t].shadow = txn[t].shadow /\ txn'[t].stage = "stopping"
    BY <1>0, <2>1 DEF TxnTyped, Txn
  <2>4. TxnState("open") = TxnState("stopping")
    BY DEF TxnState
  <2> QED
    BY <2>1, <2>2, <2>3, <2>4, CalmStutters DEF memoryVars
<1>3. ASSUME NEW a \in TxnPages, Record(t, a) PROVE UNCHANGED Atomic!vars
  <2> DEFINE d == Merge(txn[t].deps, [x \in {a} |-> NewDependency(a)])
  <2>1. /\ UNCHANGED <<pages, host, nextGen>> /\ txn[t].stage = "open"
        /\ txn' = [txn EXCEPT ![t].deps = d] /\ backings' = Pin(pages[a].backing)
    BY <1>3 DEF Record
  <2>2. Calm(t)
    BY <1>0, <1>3, <2>1, PinThins, TransactionAside DEF Calm
  <2> HIDE DEF d
  <2>3. txn'[t].shadow = txn[t].shadow /\ txn'[t].stage = txn[t].stage
    BY <1>0, <2>1 DEF TxnTyped, Txn
  <2> QED
    BY <2>1, <2>2, <2>3, CalmStutters
<1> QED
  BY <1>1, <1>2, <1>3

\* gem_memory_transaction_snapshot_page
LEMMA SnapshotAtomic ==
    ASSUME TInv, TInv', AInv, AInv', LInv, NEW t \in Threads, NEW a \in TxnPages, Snapshot(t, a)
    PROVE  (Atomic!See(t, a) /\ a \in DOMAIN AtomicStorage) \/ UNCHANGED Atomic!vars
<1> DEFINE b == pages[a].backing
           d == Merge(txn[t].deps, [x \in {a} |-> NewDependency(a)])
           sh == Merge(txn[t].shadow, [x \in {a} |-> Content(b)])
<1>1. /\ TxnTyped /\ TypeOK /\ txn[t].stage = "open" /\ CommittedPage(a)
      /\ Readable(PageStripes(a, b)) /\ UNCHANGED <<pages, host, nextGen>>
  BY DEF TInv, Snapshot
<1>2. \/ backings' = Pin(b) /\ txn' = [txn EXCEPT ![t].deps = d, ![t].shadow = sh]
      \/ txn' = [txn EXCEPT ![t].shadow = sh] /\ UNCHANGED backings
      \/ Stop(t) /\ UNCHANGED backings
  BY DEF Snapshot
<1>3. Thinned
  BY <1>1, <1>2, PinThins DEF Thinned, BackingKept
<1>4. Calm(t)
  BY <1>1, <1>3, TransactionAside DEF Calm
<1>5. CASE Stop(t)
  <2>1. txn'[t].shadow = txn[t].shadow /\ txn'[t].stage = "stopping"
    BY <1>1, <1>5 DEF Stop, TxnTyped, Txn
  <2>2. TxnState("open") = TxnState("stopping")
    BY DEF TxnState
  <2> QED
    BY <1>1, <1>4, <2>1, <2>2, CalmStutters
<1>6. CASE ~Stop(t)
  <2>1. /\ DOMAIN sh = DOMAIN txn[t].shadow \cup {a} /\ sh[a] = Content(b)
        /\ \A x \in DOMAIN sh : x # a => sh[x] = txn[t].shadow[x]
    BY DEF Merge
  <2>2. txn' = [txn EXCEPT ![t].deps = d, ![t].shadow = sh] \/ txn' = [txn EXCEPT ![t].shadow = sh]
    BY <1>2, <1>6
  <2> HIDE DEF d, sh
  <2>3. txn'[t].shadow = sh /\ txn'[t].stage = "open"
    BY <1>1, <2>2 DEF TxnTyped, Txn
  <2>4. a \in Viewed /\ b \in DOMAIN backings
    BY <1>1, CommittedTyped DEF CommittedPage, MappedBacking, Viewed
  <2>5. Uncopied(b)
    BY <1>1, <2>4, ReadableUncopied DEF Uncopied
  <2>6. AtomicView[a] = Content(b)
    BY <2>4, <2>5, UncopiedSettled DEF AtomicView
  <2>7. AtomicStorage' = AtomicStorage /\ AtomicView' = AtomicView
    BY <1>4, AsideViews DEF Calm
  <2>8. DOMAIN AtomicStorage = Viewed
    BY DEF AtomicStorage
  <2>9. TxnState("open") = "open"
    BY DEF TxnState
  <2> HIDE DEF b
  <2>10. /\ Atomic!Of(t) /\ AtomicSeen[t] = txn[t].shadow /\ AtomicSeen'[t] = sh
         /\ AtomicState[t] = "open" /\ AtomicState'[t] = "open"
    BY <1>1, <1>4, <2>3, <2>9, SeenOf DEF Calm, Aside
  <2> QED
    BY <1>1, <2>1, <2>4, <2>6, <2>7, <2>8, <2>10 DEF Atomic!See, Atomic!memory
<1> QED
  BY <1>5, <1>6

\* Taking a guard off, by an access check or a commit.
LEMMA GuardAtomic ==
    ASSUME TInv, TInv', AInv, AInv', LInv, NEW t \in Threads,
           \/ \E a \in TxnPages, mode \in {"read", "write", "fetch"} : Validate(t, a, mode)
           \/ \E W \in SUBSET TxnPages : CommitGuard(t, W)
    PROVE  Atomic!Forget(t) \/ UNCHANGED Atomic!vars
<1>0. TxnTyped /\ TypeOK /\ nextGen \in Nat
  BY DEF TInv, TypeOK
<1>1. ASSUME NEW a, NEW e, txn[t].stage = "open", Aside(t), nextGen' = nextGen + 1,
             backings' = backings, host' = host,
             pages' = [pages EXCEPT ![a].protection.guard = FALSE, ![a].generation = nextGen + 1],
             txn' = [txn EXCEPT ![t].stage = "stopping", ![t].deps = e,
                                ![t].shadow = Without(txn[t].shadow, a)]
      PROVE  Atomic!Forget(t)
  <2> DEFINE sh == Without(txn[t].shadow, a)
  <2>1. Calm(t)
    BY <1>0, <1>1, GuardMaps DEF Calm, Thinned, BackingKept
  <2>2. AtomicStorage' = AtomicStorage /\ AtomicView' = AtomicView
    BY <2>1, AsideViews DEF Calm
  <2>3. /\ DOMAIN sh \subseteq DOMAIN txn[t].shadow
        /\ \A x \in DOMAIN sh : sh[x] = txn[t].shadow[x]
    BY DEF Without
  <2>4. txn' = [txn EXCEPT ![t].stage = "stopping", ![t].deps = e, ![t].shadow = sh]
    BY <1>1
  <2> HIDE DEF sh
  <2>5. txn'[t].shadow = sh /\ txn'[t].stage = "stopping"
    BY <1>0, <2>4 DEF TxnTyped, Txn
  <2>6. TxnState("open") = "open" /\ TxnState("stopping") = "open"
    BY DEF TxnState
  <2>7. /\ Atomic!Of(t) /\ AtomicSeen[t] = txn[t].shadow /\ AtomicSeen'[t] = sh
        /\ AtomicState[t] = "open" /\ AtomicState'[t] = "open"
    BY <1>1, <2>1, <2>5, <2>6, SeenOf DEF Calm, Aside
  <2>8. nextGen' >= nextGen
    BY <1>0, <1>1
  <2> QED
    BY <2>2, <2>3, <2>7, <2>8 DEF Atomic!Forget
<1>2. ASSUME NEW a \in TxnPages, NEW mode \in {"read", "write", "fetch"}, Validate(t, a, mode)
      PROVE  Atomic!Forget(t) \/ UNCHANGED Atomic!vars
  <2> DEFINE d == txn[t].deps[a]
             e == [d EXCEPT !.protection.guard = FALSE, !.generation = nextGen + 1,
                            !.hash = HashOf(d.backing)]
             f == [txn[t].deps EXCEPT ![a] = e]
  <2>1. Aside(t) /\ txn[t].stage = "open"
    BY <1>0, <1>2, TransactionAside DEF Validate
  <2>2. CASE Stop(t) /\ UNCHANGED memoryVars
    <3>1. txn'[t].shadow = txn[t].shadow /\ txn'[t].stage = "stopping"
      BY <1>0, <2>2 DEF Stop, TxnTyped, Txn
    <3>2. TxnState("open") = TxnState("stopping")
      BY DEF TxnState
    <3>3. Calm(t) /\ nextGen' = nextGen
      BY <2>1, <2>2 DEF Calm, memoryVars, Thinned, BackingKept
    <3> QED
      BY <2>1, <3>1, <3>2, <3>3, CalmStutters
  <2>3. CASE ~(Stop(t) /\ UNCHANGED memoryVars)
    <3>1. /\ txn' = [txn EXCEPT ![t].stage = "stopping",
                              ![t].deps[a] = [@ EXCEPT !.protection.guard = FALSE,
                                                       !.generation = nextGen + 1,
                                                       !.hash = HashOf(d.backing)],
                              ![t].shadow = Without(@, a)]
          /\ backings' = backings /\ nextGen' = nextGen + 1 /\ host' = host
          /\ pages' = [pages EXCEPT ![a].protection.guard = FALSE, ![a].generation = nextGen + 1]
      BY <1>2, <2>3 DEF Validate
    <3>2. txn' = [txn EXCEPT ![t].stage = "stopping", ![t].deps = f,
                             ![t].shadow = Without(txn[t].shadow, a)]
      BY <3>1
    <3> HIDE DEF f
    <3> QED
      BY <1>1, <2>1, <3>1, <3>2
  <2> QED
    BY <2>2, <2>3
<1>3. ASSUME NEW W \in SUBSET TxnPages, CommitGuard(t, W) PROVE Atomic!Forget(t)
  <2>1. PICK g \in W :
          /\ pages' = [pages EXCEPT ![g].protection.guard = FALSE, ![g].generation = nextGen + 1]
          /\ txn' = [txn EXCEPT ![t].stage = "stopping",
                                ![t].deps[g] = [@ EXCEPT !.protection.guard = FALSE,
                                                         !.generation = nextGen + 1],
                                ![t].shadow = Without(@, g)]
    BY <1>3 DEF CommitGuard
  <2> DEFINE e == [txn[t].deps[g] EXCEPT !.protection.guard = FALSE, !.generation = nextGen + 1]
             f == [txn[t].deps EXCEPT ![g] = e]
  <2>2. txn' = [txn EXCEPT ![t].stage = "stopping", ![t].deps = f,
                           ![t].shadow = Without(txn[t].shadow, g)]
    BY <2>1
  <2>3. /\ Aside(t) /\ txn[t].stage = "open" /\ nextGen' = nextGen + 1
        /\ backings' = backings /\ host' = host
    BY <1>0, <1>3, TransactionAside DEF CommitGuard, CommitReady
  <2> HIDE DEF f
  <2> QED
    BY <1>1, <2>1, <2>2, <2>3
<1> QED
  BY <1>2, <1>3

\* Copying a line is not seen: readers who wait for the stripe get all of the page.
LEMMA CopyAtomic ==
    ASSUME TInv, TInv', AInv, AInv', LInv, NEW t \in Threads, CopyLine(t)
    PROVE  UNCHANGED Atomic!vars
<1>1. Shows /\ Shows' /\ UNCHANGED <<pages, host, nextGen>>
  BY ShowsNext DEF CopyLine
<1>2. PICK a \in DOMAIN txn[t].copies : \E l \in Lines :
              /\ LineTicked(txn, t, a, l, txn')
              /\ LineStored(backings, txn[t].copies[a].backing, l, txn[t].shadow[a][l], backings')
  BY CopyTicks
<1> DEFINE b == txn[t].copies[a].backing
<1>3. /\ \A u \in Threads \ {t} : txn'[u] = txn[u]
      /\ txn[t].stage = "copying" /\ txn'[t].stage = "copying"
      /\ txn'[t].shadow = txn[t].shadow /\ DOMAIN txn'[t].copies = DOMAIN txn[t].copies
      /\ \A x \in DOMAIN txn[t].copies : txn'[t].copies[x].backing = txn[t].copies[x].backing
  BY <1>2 DEF LineTicked
<1>4. \A x \in DOMAIN backings : /\ backings'[x].host = backings[x].host
                                 /\ x # b => backings'[x].data = backings[x].data
  BY <1>2 DEF LineStored
<1>5. \A x : SameLanding(x)
  BY <1>3 DEF SameLanding, GoesOn, Elsewhere
<1>6. ~Uncopied(b)
  BY <1>3 DEF Uncopied
<1> HIDE DEF b
<1>7. ASSUME NEW p \in Viewed PROVE SameBytes(p)
  <2>1. pages[p].backing \in DOMAIN backings
    BY <1>1 DEF Shows
  <2> QED
    BY <1>1, <1>4, <1>6, <2>1 DEF SameBytes
<1>8. AtomicStorage' = AtomicStorage /\ AtomicView' = AtomicView
  BY <1>1, <1>5, <1>7, SameViews
<1>9. AtomicSeen' = AtomicSeen /\ AtomicState' = AtomicState
  BY <1>3, SeenOf
<1> QED
  BY <1>1, <1>8, <1>9 DEF Atomic!vars

\* Neither is the release of the stripes: everything has landed.
LEMMA ReleaseAtomic ==
    ASSUME TInv, TInv', AInv, AInv', VInv, LInv, NEW t \in Threads, ReleaseStripes(t)
    PROVE  UNCHANGED Atomic!vars
<1>1. /\ Shows /\ Shows' /\ UNCHANGED <<pages, backings, host, nextGen>> /\ TxnTyped
      /\ txn[t].stage = "copying" /\ \A a \in DOMAIN txn[t].copies : txn[t].copies[a].left = {}
      /\ txn' = [txn EXCEPT ![t].stage = "unpinning", ![t].reading = {}, ![t].writing = {}]
  BY ShowsNext DEF ReleaseStripes, memoryVars, TInv
<1>2. /\ \A u \in Threads \ {t} : txn'[u] = txn[u]
      /\ txn'[t].stage = "unpinning" /\ txn'[t].shadow = txn[t].shadow
      /\ txn'[t].copies = txn[t].copies
  BY <1>1 DEF TxnTyped, Txn
<1>3. ASSUME NEW p \in Viewed
      PROVE  AtomicStorage'[p] = AtomicStorage[p] /\ AtomicView'[p] = AtomicView[p]
  <2>0. PICK b : b = pages[p].backing
    OBVIOUS
  <2>1. /\ ShowsHost(p) /\ ShowsData(p) /\ ShowsHost(p)' /\ ShowsData(p)'
        /\ b \in DOMAIN backings
    BY <1>1, <2>0 DEF Shows
  <2>2. CASE backings[b].host # NoHost
    BY <1>1, <2>0, <2>1, <2>2 DEF ShowsHost
  <2>3. CASE backings[b].host = NoHost
    <3>1. AtomicStorage'[p] = AtomicStorage[p]
      BY <1>1, <2>0, <2>1, <2>3 DEF ShowsData
    <3>a. ShowsData(p)' /\ pages'[p].backing = b /\ backings'[b].host = NoHost
          /\ backings'[b].data = backings[b].data
      BY <1>1, <2>0, <2>1, <2>3
    <3>2. CASE \E q \in DOMAIN txn[t].copies : txn[t].copies[q].backing = b
      <4>1. PICK q \in DOMAIN txn[t].copies :
               /\ txn[t].copies[q].backing = b
               /\ \A r \in DOMAIN txn[t].copies : txn[t].copies[r].backing = b => r <= q
        BY <1>1, <3>2 DEF LInv, LastKnown
      <4>2. AtomicView[p] = txn[t].shadow[q]
        BY <1>1, <2>0, <2>1, <2>3, <4>1 DEF ShowsData
      <4>3. q \in DOMAIN txn[t].deps /\ txn[t].deps[q].backing = b
        BY <1>1, <4>1, TxnFields DEF VInv, Reads, CopiesFollow
      <4>4. ~txn[t].deps[q].external
        BY <2>3, <4>3 DEF VInv, Reads, ExternalKnown
      <4>5. backings[b].data = txn[t].shadow[q]
        BY <1>1, <4>1, <4>4, Landed
      <4>6. \A u \in Threads \ {t} : \A r \in DOMAIN txn[u].copies :
               txn[u].stage = "copying" => txn[u].copies[r].backing # b
        BY <1>1, <4>1 DEF AInv, Covered, Apart
      <4>7. \A u \in Threads : \A r \in DOMAIN txn'[u].copies :
               txn'[u].stage = "copying" => txn'[u].copies[r].backing # b
        BY <1>2, <4>6
      <4>8. AtomicView'[p] = backings[b].data
        BY <3>a, <4>7 DEF ShowsData
      <4> QED
        BY <3>1, <4>2, <4>5, <4>8
    <3>3. CASE ~\E q \in DOMAIN txn[t].copies : txn[t].copies[q].backing = b
      <4>1. SameLanding(b)
        BY <1>2, <3>3 DEF SameLanding, GoesOn, Elsewhere
      <4>2. SameBytes(p) /\ p \in Viewed'
        BY <1>1 DEF SameBytes, Shows
      <4> QED
        BY <1>1, <2>0, <2>3, <4>1, <4>2, SameView
    <3> QED
      BY <3>2, <3>3
  <2> QED
    BY <2>2, <2>3
<1>4. AtomicStorage' = AtomicStorage /\ AtomicView' = AtomicView
  <2>1. Viewed' = Viewed
    BY <1>1 DEF Shows
  <2> QED
    BY <1>1, <1>3, <2>1, ViewsByPage
<1>5. TxnState("copying") = TxnState("unpinning")
  BY DEF TxnState
<1>6. AtomicSeen' = AtomicSeen /\ AtomicState' = AtomicState
  BY <1>1, <1>2, <1>5, SeenOf
<1> QED
  BY <1>1, <1>4, <1>6 DEF Atomic!vars

\* What a commit of W with the bytes v does to memory, where it makes no copies.
CommitDone(t, W, v) ==
    /\ \A u \in Threads \ {t} : txn'[u] = txn[u]
    /\ txn[t].stage = "open" /\ txn'[t].stage = "copying" /\ DOMAIN txn'[t].copies = W
    /\ \A a \in W : txn'[t].copies[a].backing = pages[a].backing
    /\ DOMAIN txn'[t].shadow = DOMAIN txn[t].shadow
    /\ \A a \in DOMAIN txn[t].shadow :
          txn'[t].shadow[a] = IF a \in W THEN v[a] ELSE txn[t].shadow[a]
    /\ DOMAIN pages' = DOMAIN pages /\ W \subseteq DOMAIN pages
    /\ W \subseteq DOMAIN txn[t].shadow
    /\ \A p \in DOMAIN pages : pages'[p].backing = pages[p].backing
    /\ \A b \in DOMAIN backings' :
          /\ b \in DOMAIN backings
          /\ backings'[b].host = backings[b].host /\ backings'[b].data = backings[b].data
    /\ nextGen' > nextGen

\* It does that.
LEMMA CommitDoes ==
    ASSUME TInv, AInv, NEW t \in Threads, NEW W, NEW v \in [W -> Stores], CommitPages(t, W, v)
    PROVE  CommitDone(t, W, v)
<1> DEFINE R == [a \in W |-> Rank(W, a)]
<1>1. CommitKnows(t, W) /\ CommitLast(t, W)
  BY CommitKnown, CommitLasts
<1>2. /\ TypeOK /\ InPlace /\ txn[t].stage = "open" /\ W # {}
      /\ nextGen' = nextGen + 2 * Cardinality(W)
  BY DEF TInv, AInv, CommitPages, CommitReady
<1>3. PICK f \in Allocations(Copied(W)) : CommitsAs(t, W, v, f)
  BY CommitParts
<1>4. PICK last \in LastPages(Target(W, f), W) : backings' = Stamped(W, CommitTable(t, W, f), last)
  BY <1>3 DEF CommitsAs
<1>5. W \subseteq Int /\ IsFiniteSet(W)
  BY <1>1, TransactionAssumption, AddressAssumption DEF CommitKnows, Address
<1>6. Ranked(W)
  BY <1>5, RanksOrdered
<1> HIDE DEF R
<1>7. R = [a \in W |-> Rank(W, a)]
  BY DEF R
<1>8. CommitStamped(txn, backings, nextGen, t, W, R, last, backings', nextGen')
  BY <1>1, <1>2, <1>4, <1>6, <1>7, CommitsStamped
<1>9. Copied(W) = {} /\ Targets(W, f, Target(W, f))
  BY <1>1, <1>2, NothingCopied, TargetTyped
<1>10. /\ DOMAIN pages' = DOMAIN pages
       /\ \A p \in DOMAIN pages : pages'[p].backing = pages[p].backing
  <2>1. pages' = CommitTo(W, f)
    BY <1>3 DEF CommitsAs
  <2>2. \A a \in W : Target(W, f)[a] = pages[a].backing
    BY <1>9 DEF Targets
  <2> QED
    BY <1>1, <1>9, <2>1, <2>2, CommitToTyped
<1>11. /\ DOMAIN txn'[t].shadow = DOMAIN txn[t].shadow
       /\ \A a \in DOMAIN txn[t].shadow :
             txn'[t].shadow[a] = IF a \in W THEN v[a] ELSE txn[t].shadow[a]
  <2>0. Becomes(t, "copying", CommitDeps(t, W, f, v), Merge(txn[t].shadow, v),
                CommitCopies(t, W, f), DependencyStripes(t) \ WriteStripes(W), WriteStripes(W))
    BY <1>1, <1>3, <1>9, CommitTxn DEF CommitsAs
  <2>1. txn'[t].shadow = Merge(txn[t].shadow, v)
    BY <2>0 DEF Becomes
  <2>2. DOMAIN v = W /\ W \subseteq DOMAIN txn[t].shadow
    BY <1>1 DEF CommitKnows
  <2> QED
    BY <2>1, <2>2 DEF Merge
<1>12. nextGen' > nextGen
  <2>1. PICK a \in W : TRUE
    BY <1>2
  <2>2. R[a] \in Nat /\ nextGen + 2 * R[a] + 2 <= nextGen' /\ nextGen' \in Nat
    BY <1>8 DEF CommitStamped
  <2>3. nextGen \in Nat
    BY <1>2 DEF TypeOK
  <2> QED
    BY <2>2, <2>3
<1>13. \A b \in DOMAIN backings' :
          /\ b \in DOMAIN backings
          /\ backings'[b].host = backings[b].host /\ backings'[b].data = backings[b].data
  BY <1>8 DEF CommitStamped
<1> QED
  BY <1>1, <1>10, <1>11, <1>12, <1>13 DEF CommitDone, CommitLast, CommitKnows

\* The storage of no page changes.
LEMMA CommitStorage ==
    ASSUME TInv, TInv', AInv, AInv', NEW t \in Threads, NEW W, NEW v, CommitDone(t, W, v)
    PROVE  Shows /\ Shows' /\ Viewed' = Viewed /\ AtomicStorage' = AtomicStorage
<1>1. Shows /\ Shows'
  BY ShowsNext
<1>2. Viewed' = Viewed
  BY <1>1 DEF Shows, CommitDone
<1>3. ASSUME NEW p \in Viewed PROVE AtomicStorage'[p] = AtomicStorage[p]
  <2>0. PICK b : b = pages[p].backing
    OBVIOUS
  <2>1. /\ pages'[p].backing = b /\ backings'[b].host = backings[b].host
        /\ ShowsHost(p) /\ ShowsData(p) /\ ShowsHost(p)' /\ ShowsData(p)'
    BY <1>1, <1>2, <2>0 DEF Shows, CommitDone
  <2>2. CASE backings[b].host = NoHost
    BY <2>0, <2>1, <2>2 DEF ShowsData
  <2>3. CASE backings[b].host # NoHost
    BY <2>0, <2>1, <2>3 DEF ShowsHost
  <2> QED
    BY <2>2, <2>3
<1> QED
  BY <1>1, <1>2, <1>3, ViewsByPage

\* What a commit leaves in page p: its last page of the same storage, if any.
Leaves(t, W, p) ==
    \/ /\ \A a \in W : AtomicStorage[a] # AtomicStorage[p]
       /\ AtomicView'[p] = AtomicView[p]
    \/ \E a \in W : /\ AtomicStorage[a] = AtomicStorage[p] /\ AtomicView'[p] = txn'[t].shadow[a]
                    /\ \A q \in W : AtomicStorage[q] = AtomicStorage[p] => q <= a

\* Storage of GEM's own: the lines are still to be copied.
LEMMA CommitLeavesData ==
    ASSUME TInv, TInv', AInv, AInv', LInv, NEW t \in Threads, NEW W, NEW v \in [W -> Stores],
           CommitPages(t, W, v), NEW p \in Viewed, backings[pages[p].backing].host = NoHost
    PROVE  Leaves(t, W, p)
<1>0. PICK b : b = pages[p].backing
  OBVIOUS
<1>1. CommitDone(t, W, v) /\ CommitLast(t, W)
  BY CommitDoes, CommitLasts
<1>2. Shows /\ Shows' /\ Viewed' = Viewed /\ AtomicStorage' = AtomicStorage
  BY <1>1, CommitStorage
<1>3. /\ pages'[p].backing = b /\ backings'[b].host = NoHost /\ ShowsData(p)'
      /\ b \in DOMAIN backings'
  BY <1>0, <1>1, <1>2 DEF Shows, CommitDone
<1>4. ASSUME NEW a \in W PROVE AtomicStorage[a] = AtomicStorage[p] <=> pages[a].backing = b
  <2>1. a \in Viewed
    <3>1. CommitKnows(t, W) /\ TypeOK
      BY CommitKnown DEF TInv
    <3> QED
      BY <3>1, BackingAssumption DEF CommitKnows, TypeOK, Viewed
  <2>2. ShowsHost(a) /\ ShowsData(a) /\ ShowsData(p)
    BY <1>2, <2>1 DEF Shows
  <2>3. AtomicStorage[p] = [owner |-> "gem", id |-> b]
    BY <1>0, <2>2 DEF ShowsData
  <2>4. CASE backings[pages[a].backing].host = NoHost
    <3>1. AtomicStorage[a] = [owner |-> "gem", id |-> pages[a].backing]
      BY <2>2, <2>4 DEF ShowsData
    <3> QED
      BY <2>3, <3>1
  <2>5. CASE backings[pages[a].backing].host # NoHost
    <3>1. AtomicStorage[a] = [owner |-> "caller", id |-> backings[pages[a].backing].host]
      BY <2>2, <2>5 DEF ShowsHost
    <3>2. AtomicStorage[a].owner # AtomicStorage[p].owner
      BY <2>3, <3>1
    <3> QED
      BY <1>0, <2>5, <3>2
  <2> QED
    BY <2>4, <2>5
<1>5. CASE \E a \in W : pages[a].backing = b
  <2>1. PICK last : \A a \in W :
          /\ last[pages[a].backing] \in W /\ a <= last[pages[a].backing]
          /\ pages[last[pages[a].backing]].backing = pages[a].backing
    BY <1>1 DEF CommitLast
  <2> DEFINE q == last[b]
  <2>2. q \in W /\ pages[q].backing = b /\ \A r \in W : pages[r].backing = b => r <= q
    BY <1>5, <2>1
  <2> HIDE DEF q
  <2>3. /\ txn'[t].stage = "copying" /\ q \in DOMAIN txn'[t].copies
        /\ txn'[t].copies[q].backing = b
        /\ \A r \in DOMAIN txn'[t].copies : txn'[t].copies[r].backing = b => r <= q
    BY <1>1, <2>2 DEF CommitDone
  <2>4. AtomicView'[p] = txn'[t].shadow[q]
    BY <1>3, <2>3 DEF ShowsData
  <2> QED
    BY <1>4, <2>2, <2>4 DEF Leaves
<1>6. CASE ~\E a \in W : pages[a].backing = b
  <2>1. SameLanding(b)
    BY <1>1, <1>6 DEF SameLanding, GoesOn, Elsewhere, CommitDone
  <2>2. SameBytes(p) /\ p \in Viewed'
    BY <1>0, <1>1, <1>2, <1>3 DEF SameBytes, CommitDone, Shows
  <2>3. AtomicView'[p] = AtomicView[p]
    BY <1>0, <1>2, <2>1, <2>2, SameView
  <2> QED
    BY <1>4, <1>6, <2>3 DEF Leaves
<1> QED
  BY <1>5, <1>6

\* Caller-owned storage is written at once.
LEMMA CommitLeavesHost ==
    ASSUME TInv, TInv', AInv, AInv', NEW t \in Threads, NEW W, NEW v \in [W -> Stores],
           CommitPages(t, W, v), NEW p \in Viewed, backings[pages[p].backing].host # NoHost
    PROVE  Leaves(t, W, p)
<1>0. PICK b : b = pages[p].backing
  OBVIOUS
<1>1. CommitDone(t, W, v) /\ CommitKnows(t, W) /\ TypeOK
  BY CommitDoes, CommitKnown DEF TInv
<1>2. Shows /\ Shows' /\ Viewed' = Viewed /\ AtomicStorage' = AtomicStorage
  BY <1>1, CommitStorage
<1> DEFINE h == backings[b].host
           E == CallerOwned(W)
           owner == [a \in E |-> backings[pages[a].backing].host]
<1>3. h \in HostPages
  <2>1. b \in DOMAIN backings
    BY <1>0, <1>2 DEF Shows
  <2> QED
    BY <1>0, <1>1, <2>1 DEF TypeOK, Backing
<1>4. PICK last \in LastPages(owner, E) : host' = CommitHost(v, last)
  <2>1. PICK f : CommitsAs(t, W, v, f)
    BY CommitParts
  <2> QED
    BY <2>1 DEF CommitsAs
<1>5. AtomicView[p] = host[h] /\ AtomicView'[p] = host'[h]
      /\ AtomicStorage[p] = [owner |-> "caller", id |-> h]
  <2>1. /\ pages'[p].backing = b /\ backings'[b].host = h /\ ShowsHost(p)' /\ ShowsHost(p)
    BY <1>0, <1>1, <1>2 DEF Shows, CommitDone
  <2> QED
    BY <1>0, <2>1 DEF ShowsHost
<1>6. ASSUME NEW a \in W
      PROVE  AtomicStorage[a] = AtomicStorage[p] <=> a \in E /\ owner[a] = h
  <2>1. a \in Viewed
    BY <1>1, BackingAssumption DEF CommitKnows, TypeOK, Viewed
  <2>2. ShowsHost(a) /\ ShowsData(a)
    BY <1>2, <2>1 DEF Shows
  <2>4. CASE backings[pages[a].backing].host # NoHost
    <3>1. AtomicStorage[a] = [owner |-> "caller", id |-> backings[pages[a].backing].host]
      BY <2>2, <2>4 DEF ShowsHost
    <3>2. a \in E
      BY <2>4 DEF CallerOwned, External
    <3> QED
      BY <1>5, <3>1, <3>2
  <2>5. CASE backings[pages[a].backing].host = NoHost
    <3>1. AtomicStorage[a] = [owner |-> "gem", id |-> pages[a].backing]
      BY <2>2, <2>5 DEF ShowsData
    <3>2. AtomicStorage[a].owner # AtomicStorage[p].owner
      BY <1>5, <3>1
    <3>3. a \notin E
      BY <2>5 DEF CallerOwned, External
    <3> QED
      BY <3>2, <3>3
  <2> QED
    BY <2>4, <2>5
<1>7. E \subseteq W
  BY DEF CallerOwned
<1> HIDE DEF E, owner, h
<1>8. /\ last \in [{owner[a] : a \in E} -> E]
      /\ \A a \in E : owner[last[owner[a]]] = owner[a] /\ a <= last[owner[a]]
  BY <1>4 DEF LastPages
<1>9. host'[h] = IF h \in DOMAIN last THEN v[last[h]] ELSE host[h]
  BY <1>3, <1>4 DEF CommitHost
<1>10. CASE \E a \in E : owner[a] = h
  <2> DEFINE q == last[h]
  <2>1. /\ q \in E /\ owner[q] = h /\ h \in DOMAIN last
        /\ \A a \in E : owner[a] = h => a <= q
    BY <1>8, <1>10
  <2>2. AtomicView'[p] = v[q]
    BY <1>5, <1>9, <2>1
  <2> HIDE DEF q
  <2>3. q \in W /\ txn'[t].shadow[q] = v[q]
    BY <1>1, <1>7, <2>1 DEF CommitDone
  <2> QED
    BY <1>6, <2>1, <2>2, <2>3 DEF Leaves
<1>11. CASE ~\E a \in E : owner[a] = h
  <2>1. h \notin DOMAIN last
    BY <1>8, <1>11
  <2> QED
    BY <1>5, <1>6, <1>9, <1>11, <2>1 DEF Leaves
<1> QED
  BY <1>10, <1>11

\* gem_memory_transaction_commit_pages is one step of the abstract memory.
LEMMA CommitAtomic ==
    ASSUME TInv, TInv', AInv, AInv', LInv, ValidatedReadsAreCurrent, NEW t \in Threads,
           NEW W, NEW v \in [W -> Stores], CommitPages(t, W, v)
    PROVE  Atomic!Commit(t, W) /\ W \in SUBSET DOMAIN AtomicSeen[t]
<1>1. CommitDone(t, W, v)
  BY CommitDoes
<1>2. Shows /\ Shows' /\ Viewed' = Viewed /\ AtomicStorage' = AtomicStorage
  BY <1>1, CommitStorage
<1>3. Atomic!UpToDate(t)
  BY CurrentUpToDate DEF CommitPages, CommitReady
<1>4. \A p \in Viewed : Leaves(t, W, p)
  BY CommitLeavesData, CommitLeavesHost
<1>5. DOMAIN AtomicStorage = Viewed
  BY DEF AtomicStorage
<1>6. TxnState("open") = "open" /\ TxnState("copying") = "open"
  BY DEF TxnState
<1>7. /\ Atomic!Of(t) /\ AtomicSeen[t] = txn[t].shadow /\ AtomicSeen'[t] = txn'[t].shadow
      /\ AtomicState[t] = "open" /\ AtomicState'[t] = "open"
  BY <1>1, <1>6, SeenOf DEF CommitDone
<1>8. Atomic!Separated(W)
  BY <1>2 DEF Atomic!Separated
<1>9. ASSUME NEW p \in Viewed
      PROVE  LET stored == {a \in W : AtomicStorage'[a] = AtomicStorage'[p]}
             IN  \/ stored = {} /\ AtomicView'[p] = AtomicView[p]
                 \/ \E a \in stored : (\A b \in stored : b <= a) /\ AtomicView'[p] = AtomicSeen'[t][a]
  BY <1>2, <1>4, <1>7 DEF Leaves
<1>10. /\ W \subseteq DOMAIN txn[t].shadow /\ DOMAIN txn'[t].shadow = DOMAIN txn[t].shadow
       /\ \A a \in DOMAIN txn[t].shadow \ W : txn'[t].shadow[a] = txn[t].shadow[a]
       /\ nextGen' > nextGen
  BY <1>1 DEF CommitDone
<1> QED
  BY <1>3, <1>5, <1>7, <1>8, <1>9, <1>10 DEF Atomic!Commit

\* Only a write and the owners of volatile pages change caller-owned bytes.
LEMMA NonWriteHost ==
    ASSUME NonWrite
    PROVE  host' = host \/ \E h \in VolatileHosts : \A x \in DOMAIN host \ {h} : host'[x] = host[x]
<1>1. ASSUME NEW h, NEW v, HostWrite(h, v)
      PROVE  \E k \in VolatileHosts : \A x \in DOMAIN host \ {k} : host'[x] = host[x]
  BY <1>1 DEF HostWrite
<1>2. ASSUME NEW a, NEW n, Reserve(a, n) PROVE host' = host
  BY <1>2 DEF Reserve, OutOfMemory
<1>3. ASSUME NEW a, NEW n, Release(a, n) \/ Decommit(a, n) PROVE host' = host
  BY <1>3 DEF Release, Decommit
<1>4. ASSUME NEW a, NEW n, Unmap(a, n) PROVE host' = host
  BY <1>4, Zenon DEF Unmap
<1>5. ASSUME NEW a, NEW n, NEW prot, Commit(a, n, prot) \/ Protect(a, n, prot) PROVE host' = host
  BY <1>5 DEF Commit, Protect
<1>6. ASSUME NEW a, NEW s, NEW n, NEW prot, Alias(a, s, n, prot) PROVE host' = host
  BY <1>6 DEF Alias, OutOfMemory
<1>7. ASSUME NEW a, NEW n, NEW prot, MapIdentity(a, n, prot) PROVE host' = host
  BY <1>7 DEF MapIdentity, OutOfMemory
<1>8. ASSUME NEW a, NEW h, NEW n, NEW prot, CommitExternal(a, h, n, prot) PROVE host' = host
  BY <1>8 DEF CommitExternal
<1>9. ASSUME NEW a, NEW n, NEW mode, ConsumeGuard(a, n, mode) \/ ReadOrFetch(a, n, mode)
      PROVE  host' = host
  BY <1>9 DEF ConsumeGuard, ReadOrFetch
<1>10. ASSUME NEW h, BindKuser(h) PROVE host' = host
  BY <1>10 DEF BindKuser
<1>11. CASE Destroy
  BY <1>11 DEF Destroy
<1> QED
  BY <1>1, <1>2, <1>3, <1>4, <1>5, <1>6, <1>7, <1>8, <1>9, <1>10, <1>11, Zenon DEF NonWrite

\* A write of a range always takes new generations.
LEMMA WriteTicks ==
    ASSUME TypeOK, NEW a \in Nat, NEW n \in Nat, NEW v, Write(a, n, v)
    PROVE  nextGen' # nextGen
<1> DEFINE C == CopyOnWrite(a, n)
<1>1. nextGen' = nextGen + Cardinality(C) + 2 * n
  BY DEF Write
<1>2. n > 0
  BY DEF Write, Accessible, Committed, Reserved, RangeOk
<1>3. Cardinality(C) \in Nat
  <2>1. C \subseteq Span(a, n)
    BY DEF CopyOnWrite
  <2>2. IsFiniteSet(Span(a, n))
    BY FS_Interval DEF Span
  <2>3. IsFiniteSet(C)
    BY <2>1, <2>2, FS_Subset
  <2> QED
    BY <2>3, FS_CardinalityType
<1> HIDE DEF C
<1>4. nextGen \in Nat
  BY DEF TypeOK
<1> QED
  BY <1>1, <1>2, <1>3, <1>4

\* The ordinary operations: if the clock stands still pages only disappear, and only
\* the owner of volatile bytes may have changed what is seen.
LEMMA OrdinaryAtomic ==
    ASSUME TInv, TInv', AInv, AInv', LInv, alive, Ordinary
    PROVE  Atomic!Foreign
<1>1. txn' = txn /\ Next /\ TypeOK
  BY OrdinaryNext DEF Ordinary, TInv
<1>2. Shows /\ Shows' /\ Atomic!Coherent'
  BY ShowsNext
<1>3. nextGen \in Nat /\ PagesTouched /\ nextGen' \in Nat /\ nextGen' >= nextGen
  BY <1>1, NextTouched DEF PagesTouched, TypeOK
<1>4. \A t \in Threads : AtomicSeen'[t] = AtomicSeen[t] /\ AtomicState'[t] = AtomicState[t]
  BY <1>1 DEF AtomicSeen, AtomicState, TxnState
<1>5. ASSUME nextGen' = nextGen, NEW a \in Viewed'
      PROVE  /\ a \in Viewed /\ AtomicStorage'[a] = AtomicStorage[a]
             /\ \/ AtomicView'[a] = AtomicView[a]
                \/ AtomicStorage[a] \in {[owner |-> "caller", id |-> h] : h \in VolatileHosts}
  <2>1. NonWrite
    <3>1. ASSUME NEW r \in Ranges, NEW v, Write(r[1], r[2], v) PROVE FALSE
      <4>1. r[1] \in Nat /\ r[2] \in Nat
        BY AddressAssumption
      <4> QED
        BY <1>1, <1>5, <3>1, <4>1, WriteTicks
    <3> QED
      BY <3>1, OrdinarySplit
  <2>2. PageKept(a)
    <3>1. a \in DOMAIN pages'
      BY <1>2 DEF Shows
    <3>2. nextGen + 1 .. nextGen' = {}
      BY <1>3, <1>5
    <3> QED
      BY <1>3, <3>1, <3>2 DEF PagesTouched
  <2>3. /\ a \in Viewed /\ pages'[a].backing = pages[a].backing
        /\ pages[a].backing \in DOMAIN backings \cap DOMAIN backings'
    BY <1>2, <2>2 DEF Shows, PageKept
  <2>4. BackingKept(pages[a].backing)
    BY <1>1, <2>1, <2>3, NonWriteKept DEF BackingsKept
  <2>5. SameBytes(a)
    BY <2>3, <2>4 DEF SameBytes, BackingKept
  <2>6. \A b : SameLanding(b)
    BY <1>1 DEF SameLanding, GoesOn, Elsewhere
  <2> DEFINE h == backings[pages[a].backing].host
  <2>7. /\ AtomicStorage'[a] = AtomicStorage[a]
        /\ h = NoHost => AtomicView'[a] = AtomicView[a]
        /\ h # NoHost => /\ AtomicStorage[a] = [owner |-> "caller", id |-> h]
                         /\ AtomicView[a] = host[h] /\ AtomicView'[a] = host'[h]
    BY <1>2, <2>3, <2>5, <2>6, SameView
  <2>8. h # NoHost => h \in DOMAIN host
    BY <1>1, <2>3 DEF TypeOK, Backing
  <2> HIDE DEF h
  <2>9. h # NoHost => host'[h] = host[h] \/ h \in VolatileHosts
    BY <2>1, <2>8, NonWriteHost
  <2> QED
    BY <2>3, <2>7, <2>9
<1>6. DOMAIN AtomicStorage = Viewed /\ DOMAIN AtomicStorage' = Viewed'
  BY DEF AtomicStorage
<1> QED
  BY <1>2, <1>3, <1>4, <1>5, <1>6 DEF Atomic!Foreign

\* Every step of the transactions is one of the abstract memory, or none.
LEMMA NextAtomic ==
    ASSUME TInv, TInv', AInv, AInv', VInv, LInv, ValidatedReadsAreCurrent, [TNext]_vars
    PROVE  Atomic!Next \/ UNCHANGED Atomic!vars
<1>1. CASE UNCHANGED vars
  <2>1. AtomicStorage' = AtomicStorage /\ AtomicView' = AtomicView
    BY <1>1 DEF vars, memoryVars, AtomicStorage, AtomicView, Viewed, StorageOf, Settled, Landing,
       External, Content
  <2>2. AtomicSeen' = AtomicSeen /\ AtomicState' = AtomicState /\ nextGen' = nextGen
    BY <1>1 DEF vars, memoryVars, AtomicSeen, AtomicState, TxnState
  <2> QED
    BY <2>1, <2>2 DEF Atomic!vars
<1>2. CASE alive /\ Ordinary
  BY <1>2, OrdinaryAtomic DEF Atomic!Next
<1>3. ASSUME NEW t \in Threads, Transaction(t) PROVE Atomic!Next \/ UNCHANGED Atomic!vars
  <2>1. ASSUME NEW a \in TxnPages, Snapshot(t, a) PROVE Atomic!Next \/ UNCHANGED Atomic!vars
    BY <2>1, SnapshotAtomic DEF Atomic!Next
  <2>2. ASSUME NEW a \in TxnPages, Record(t, a) PROVE Atomic!Next \/ UNCHANGED Atomic!vars
    BY <2>2, QuietAtomic
  <2>3. ASSUME NEW a \in TxnPages, NEW mode \in {"read", "write", "fetch"}, Validate(t, a, mode)
        PROVE  Atomic!Next \/ UNCHANGED Atomic!vars
    BY <2>3, GuardAtomic DEF Atomic!Next
  <2>4. ASSUME NEW W \in SUBSET TxnPages, CommitGuard(t, W)
        PROVE  Atomic!Next \/ UNCHANGED Atomic!vars
    BY <2>4, GuardAtomic DEF Atomic!Next
  <2>5. ASSUME NEW W \in SUBSET TxnPages, CommitFails(t, W)
        PROVE  Atomic!Next \/ UNCHANGED Atomic!vars
    BY <2>5, QuietAtomic
  <2>6. ASSUME NEW W \in SUBSET TxnPages, NEW v \in [W -> Stores], CommitPages(t, W, v)
        PROVE  Atomic!Next \/ UNCHANGED Atomic!vars
    BY <2>6, CommitAtomic DEF Atomic!Next
  <2>7. CASE CopyLine(t) \/ ReleaseStripes(t)
    BY <2>7, CopyAtomic, ReleaseAtomic
  <2>8. CASE Begin(t) \/ Finish(t) \/ End(t)
    BY <2>8, BeginAtomic, FinishAtomic, EndAtomic DEF Atomic!Next
  <2>9. CASE DropPins(t)
    BY <2>9, QuietAtomic
  <2> QED
    BY <1>3, <2>1, <2>2, <2>3, <2>4, <2>5, <2>6, <2>7, <2>8, <2>9, Zenon DEF Transaction
<1> QED
  BY <1>1, <1>2, <1>3 DEF TNext

\* Where no caller asks for a write-copy view, fresh storage carries no stamp from
\* the future and content_hash tells the contents of caller-owned pages apart:
\* optimistic transactions are atomic.
THEOREM TransactionsAreAtomic ==
    ASSUME \A prot \in Protections : prot.access \notin WriteCopyAccess,
           \A g \in Garbage : g <= 3,
           \A c, d \in Contents : Hash(c) = Hash(d) => c = d
    PROVE  TSpec => ImplementsAtomicMemory
<1>0. NoCopyAsked /\ GarbagePast
  BY DEF NoCopyAsked, GarbagePast
<1>1. TInit => Atomic!Init
  <2> SUFFICES ASSUME TInit PROVE Atomic!Init
    OBVIOUS
  <2>1. ASSUME NEW t \in Threads PROVE AtomicState[t] = "idle" /\ DOMAIN AtomicSeen[t] = {}
    BY DEF TInit, Idle, AtomicState, AtomicSeen, TxnState
  <2> QED
    BY <2>1, StorageCoherent DEF Atomic!Init
<1>2. TInit => LInv
  BY TInitLast
<1>3. (TInv /\ AInv /\ VInv) /\ LInv /\ [TNext]_vars => LInv'
  BY TNextLast
<1>4. (TInv /\ AInv /\ VInv) /\ (TInv /\ AInv /\ VInv)' /\ LInv /\ [TNext]_vars
        => [Atomic!Next]_Atomic!vars
  BY NextAtomic, ReadsValid
<1> QED
  BY <1>0, <1>1, <1>2, <1>3, <1>4, ReadsInvariant, PTL DEF TSpec, ImplementsAtomicMemory, Atomic!Spec
=============================================================================
