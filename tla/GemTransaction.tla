--------------------------- MODULE GemTransaction ---------------------------
(***************************************************************************)
(* The optimistic page transactions of src/gem/memory.c, interleaved with  *)
(* the ordinary operations of GemMemory.  An engine thread snapshots pages *)
(* privately, validates accesses, commits whole pages and finishes.        *)
(*                                                                         *)
(* Every step below is one critical section of the metadata lock, except   *)
(* that a successful commit gives that lock up and then copies the changed *)
(* cache lines holding only stripe locks (CopyLine, ReleaseStripes).  An   *)
(* operation that has to wait for a stripe does so before it reads or      *)
(* writes anything but the table, with the metadata lock held, so waiting  *)
(* is modelled by the action not being enabled.                            *)
(***************************************************************************)
EXTENDS GemMemory

CONSTANTS
    Threads,      \* engine threads, each with at most one transaction
    TxnPages,     \* the pages their instructions touch
    Stores,       \* what instructions and callers store into a page
    Lines,        \* cache lines of a page; a content is a function on Lines
    MaxDeps,      \* GEM_MEMORY_TRANSACTION_PAGES
    Stripe,       \* stripe index of each address and each backing
    Hash(_)       \* content_hash

ASSUME TransactionAssumption ==
    /\ IsFiniteSet(Threads)
    /\ TxnPages \subseteq Address /\ Stores \subseteq Contents
    /\ Lines \subseteq Nat /\ Lines # {} /\ MaxDeps \in Nat
    /\ \A c \in Contents : c = [l \in Lines |-> c[l]]
    /\ \A c, d \in Contents, l \in Lines : [c EXCEPT ![l] = d[l]] \in Contents
    /\ Address \cup Backings \subseteq DOMAIN Stripe

VARIABLE txn  \* the transaction of each thread

vars == <<memoryVars, txn>>

NoHash == "unhashed"
Stages == {"idle", "open", "copying", "unpinning", "stopping", "committed", "conflicted"}

Idle == [stage |-> "idle", deps |-> <<>>, shadow |-> <<>>, copies |-> <<>>,
         reading |-> {}, writing |-> {}]

-----------------------------------------------------------------------------
(* Stripes.                                                                 *)

\* Faulty variant: the backing's identity has no stripe.
AddressStripes(a, b) == {Stripe[a]}

PageStripes(a, b) == {Stripe[a]} \cup (IF b = NoBacking THEN {} ELSE {Stripe[b]})

MappedBacking(a) == IF a \in DOMAIN pages THEN pages[a].backing ELSE NoBacking

RangeStripes(a, n) == UNION {PageStripes(p, MappedBacking(p)) : p \in Span(a, n)}

DependencyStripes(t) ==
    UNION {PageStripes(a, txn[t].deps[a].backing) : a \in DOMAIN txn[t].deps}

\* No thread that is copying stands in the way of a shared, of an exclusive
\* acquisition of the stripes S.
Readable(S) == \A t \in Threads : S \cap txn[t].writing = {}
Writable(S) == \A t \in Threads : S \cap (txn[t].writing \cup txn[t].reading) = {}

-----------------------------------------------------------------------------
(* Dependencies.                                                            *)

HashOf(b) == IF External(b) THEN Hash(Content(b)) ELSE NoHash

NewDependency(a) ==
    LET b == pages[a].backing IN
    [generation |-> pages[a].generation, contentGeneration |-> backings[b].generation,
     hash |-> HashOf(b), backing |-> b, protection |-> pages[a].protection,
     external |-> External(b)]

\* The recorded mapping of a is still the mapping of a.
SameMapping(a, d) ==
    /\ a \in DOMAIN pages
    /\ pages[a].backing = d.backing
    /\ pages[a].generation = d.generation
    /\ pages[a].protection = d.protection

\* Faulty variant: the content generation is not compared.
CurrentUnstamped(a, d) ==
    /\ SameMapping(a, d)
    /\ d.external => Hash(Content(d.backing)) = d.hash

\* Faulty variant: caller-owned bytes are not hashed again.
CurrentUnhashed(a, d) ==
    /\ SameMapping(a, d)
    /\ backings[d.backing].generation = d.contentGeneration

\* ... and its bytes have not been stamped or, if caller-owned, changed since.
Current(a, d) ==
    /\ SameMapping(a, d)
    /\ backings[d.backing].generation = d.contentGeneration
    /\ d.external => Hash(Content(d.backing)) = d.hash

AllCurrent(t) == \A a \in DOMAIN txn[t].deps : Current(a, txn[t].deps[a])

\* Adding delta[b] references to every backing b, freeing what reaches zero.
Rebalance(table, delta) ==
    [b \in {c \in DOMAIN table : table[c].refs + delta[c] > 0} |->
        [table[b] EXCEPT !.refs = @ + delta[b]]]

\* Faulty variant: a dependency holds no reference.
PinNothing(b) == backings

Pin(b) == [backings EXCEPT ![b].refs = @ + 1]

CommittedPage(a) == MappedBacking(a) # NoBacking

\* Without the bytes of a page whose guard has just been taken off: the engine
\* reports the fault and does not use them.
Without(f, a) == [x \in DOMAIN f \ {a} |-> f[x]]

-----------------------------------------------------------------------------
(* Transaction operations.                                                  *)

\* gem_memory_transaction_begin
Begin(t) ==
    /\ txn[t].stage = "idle"
    /\ txn' = [txn EXCEPT ![t].stage = "open"]
    /\ UNCHANGED memoryVars

Stop(t) == txn' = [txn EXCEPT ![t].stage = "stopping"]

\* gem_memory_transaction_snapshot_page: the engine gets the bytes; the first
\* time, what they were like is recorded and the backing pinned.
Snapshot(t, a) ==
    /\ txn[t].stage = "open" /\ CommittedPage(a)
    /\ Readable(PageStripes(a, pages[a].backing))
    /\ \/ /\ a \notin DOMAIN txn[t].deps
          /\ Cardinality(DOMAIN txn[t].deps) < MaxDeps
          /\ backings' = Pin(pages[a].backing)
          /\ txn' = [txn EXCEPT
                 ![t].deps = Merge(@, [x \in {a} |-> NewDependency(a)]),
                 ![t].shadow = Merge(@, [x \in {a} |-> Content(pages[a].backing)])]
       \/ /\ a \in DOMAIN txn[t].deps
          /\ Current(a, txn[t].deps[a])
          /\ txn' = [txn EXCEPT
                 ![t].shadow = Merge(@, [x \in {a} |-> Content(pages[a].backing)])]
          /\ UNCHANGED backings
       \/ /\ a \in DOMAIN txn[t].deps
          /\ ~Current(a, txn[t].deps[a])
          /\ Stop(t)
          /\ UNCHANGED backings
    /\ UNCHANGED <<alive, pages, host, nextGen>>

\* gem_memory_transaction_validate for one page: the dependency is recorded if
\* the page was not snapshotted before.
Record(t, a) ==
    /\ txn[t].stage = "open" /\ CommittedPage(a)
    /\ a \notin DOMAIN txn[t].deps /\ Cardinality(DOMAIN txn[t].deps) < MaxDeps
    /\ Readable(PageStripes(a, pages[a].backing))
    /\ backings' = Pin(pages[a].backing)
    /\ txn' = [txn EXCEPT ![t].deps = Merge(@, [x \in {a} |-> NewDependency(a)])]
    /\ UNCHANGED <<alive, pages, host, nextGen>>

\* ... then the recorded protection decides.  A guard is taken off the live
\* page if the mapping (not its content) is still the recorded one.
Validate(t, a, mode) ==
    /\ txn[t].stage = "open" /\ a \in DOMAIN txn[t].deps
    /\ LET d == txn[t].deps[a] IN
       \/ /\ ~Allowed(d.protection, mode)
          /\ Stop(t)
          /\ UNCHANGED memoryVars
       \/ /\ Allowed(d.protection, mode) /\ d.protection.guard
          /\ Writable(PageStripes(a, d.backing))
          /\ ~SameMapping(a, d)
          /\ Stop(t)
          /\ UNCHANGED memoryVars
       \/ /\ Allowed(d.protection, mode) /\ d.protection.guard
          /\ Writable(PageStripes(a, d.backing))
          /\ SameMapping(a, d) /\ Bounded(1)
          /\ pages' = [pages EXCEPT ![a].protection.guard = FALSE,
                                    ![a].generation = nextGen + 1]
          /\ nextGen' = nextGen + 1
          /\ txn' = [txn EXCEPT ![t].stage = "stopping",
                                ![t].deps[a] = [@ EXCEPT !.protection.guard = FALSE,
                                                         !.generation = nextGen + 1,
                                                         !.hash = HashOf(d.backing)],
                                ![t].shadow = Without(@, a)]
          /\ UNCHANGED <<alive, backings, host>>

-----------------------------------------------------------------------------
(* gem_memory_transaction_commit_pages, for pages W whose new bytes are v.  *)

WriteStripes(W) == UNION {PageStripes(a, MappedBacking(a)) : a \in W}

CommitReady(t, W) ==
    /\ txn[t].stage = "open" /\ W # {} /\ W \subseteq DOMAIN txn[t].shadow
    /\ Readable(DependencyStripes(t)) /\ Writable(WriteStripes(W))

WritablePages(W) ==
    \A a \in W : CommittedPage(a) /\ Allowed(pages[a].protection, "write")

\* Stale dependencies, a page that cannot be written, or no memory for a copy.
CommitFails(t, W) ==
    /\ CommitReady(t, W)
    /\ AllCurrent(t) /\ WritablePages(W) => \E a \in W : a \in CopyOnWrite(a, 1)
    /\ Stop(t)
    /\ UNCHANGED memoryVars

\* The first guarded page in the caller's order loses its guard; no byte moves.
CommitGuard(t, W) ==
    /\ CommitReady(t, W) /\ AllCurrent(t) /\ WritablePages(W) /\ Bounded(1)
    /\ \E g \in W :
          /\ pages[g].protection.guard
          /\ pages' = [pages EXCEPT ![g].protection.guard = FALSE,
                                    ![g].generation = nextGen + 1]
          /\ txn' = [txn EXCEPT ![t].stage = "stopping",
                                ![t].deps[g] = [@ EXCEPT !.protection.guard = FALSE,
                                                         !.generation = nextGen + 1],
                                ![t].shadow = Without(@, g)]
    /\ nextGen' = nextGen + 1
    /\ UNCHANGED <<alive, backings, host>>

\* Success: write-copy pages get private backings, everything is stamped, the
\* written backings are pinned and the thread's own dependencies follow.
\* Caller-owned pages are copied here; the others after the metadata lock is
\* released, under the stripes computed before the private backings existed.
CommitPages(t, W, v) ==
    /\ CommitReady(t, W) /\ AllCurrent(t) /\ WritablePages(W)
    /\ \A a \in W : ~pages[a].protection.guard
    /\ Bounded(2 * Cardinality(W))
    /\ LET deps == txn[t].deps
           C == UNION {CopyOnWrite(a, 1) : a \in W}
           rank(a) == Cardinality({q \in W : q < a})
       IN \E f \in Allocations(C) :
          LET target == [a \in W |-> IF a \in C THEN f[a] ELSE pages[a].backing]
              fresh == [b \in {f[a] : a \in C} |->
                          LET a == CHOOSE q \in C : f[q] = b
                          IN  [refs |-> 0, generation |-> 0, host |-> NoHost,
                               data |-> Content(pages[a].backing)]]
              \* page, dependency and commit references
              delta == [b \in DOMAIN backings \cup DOMAIN fresh |->
                          Cardinality({a \in W : target[a] = b})
                          + 2 * Cardinality({a \in C : target[a] = b})
                          - Cardinality({a \in C : pages[a].backing = b})
                          - Cardinality({a \in C : deps[a].backing = b})]
              table == Rebalance(Merge(backings, fresh), delta)
          IN
          /\ \E last \in LastPages(target, W) :
                backings' = [b \in DOMAIN table |->
                    IF b \in DOMAIN last
                    THEN [table[b] EXCEPT !.generation = nextGen + 2 * rank(last[b]) + 1]
                    ELSE table[b]]
          /\ LET E == {a \in W : External(pages[a].backing)} IN
             \E last \in LastPages([a \in E |-> backings[pages[a].backing].host], E) :
                host' = [h \in HostPages |->
                           IF h \in DOMAIN last THEN v[last[h]] ELSE host[h]]
          /\ pages' = [a \in DOMAIN pages |->
                IF a \in W
                THEN [pages[a] EXCEPT !.backing = target[a],
                                      !.protection.access = Detached(@),
                                      !.generation = nextGen + 2 * rank(a) + 2]
                ELSE pages[a]]
          /\ txn' = [txn EXCEPT
                ![t].stage = "copying",
                ![t].shadow = Merge(@, v),
                ![t].deps = [a \in DOMAIN deps |->
                   IF a \in W
                   THEN [generation |-> nextGen + 2 * rank(a) + 2,
                         contentGeneration |-> nextGen + 2 * rank(a) + 1,
                         hash |-> IF deps[a].external THEN Hash(v[a]) ELSE NoHash,
                         backing |-> target[a],
                         protection |-> [deps[a].protection EXCEPT !.access = Detached(@)],
                         external |-> deps[a].external]
                   ELSE deps[a]],
                ![t].copies = [a \in W |->
                   [backing |-> target[a],
                    left |-> IF deps[a].external THEN {} ELSE Lines]],
                ![t].writing = WriteStripes(W),
                ![t].reading = DependencyStripes(t) \ WriteStripes(W)]
    /\ nextGen' = nextGen + 2 * Cardinality(W)
    /\ UNCHANGED alive

\* One cache line, pages in order and lines in order, with no lock but stripes.
CopyLine(t) ==
    /\ txn[t].stage = "copying"
    /\ \E a \in DOMAIN txn[t].copies, l \in Lines :
          LET c == txn[t].copies IN
          /\ l \in c[a].left /\ \A m \in c[a].left : l <= m
          /\ \A q \in DOMAIN c : c[q].left # {} => a <= q
          /\ backings' = [backings EXCEPT ![c[a].backing].data[l] = txn[t].shadow[a][l]]
          /\ txn' = [txn EXCEPT ![t].copies[a] = [@ EXCEPT !.left = c[a].left \ {l}]]
    /\ UNCHANGED <<alive, pages, host, nextGen>>

\* Faulty variant: the stripes are released with lines still to copy.
ReleaseStripesEarly(t) ==
    /\ txn[t].stage = "copying"
    /\ txn' = [txn EXCEPT ![t].stage = "unpinning", ![t].reading = {}, ![t].writing = {}]
    /\ UNCHANGED memoryVars

\* Faulty variant: only the read stripes are released.
ReleaseReadStripes(t) ==
    /\ txn[t].stage = "copying"
    /\ \A a \in DOMAIN txn[t].copies : txn[t].copies[a].left = {}
    /\ txn' = [txn EXCEPT ![t].stage = "unpinning", ![t].reading = {}]
    /\ UNCHANGED memoryVars

ReleaseStripes(t) ==
    /\ txn[t].stage = "copying"
    /\ \A a \in DOMAIN txn[t].copies : txn[t].copies[a].left = {}
    /\ txn' = [txn EXCEPT ![t].stage = "unpinning", ![t].reading = {}, ![t].writing = {}]
    /\ UNCHANGED memoryVars

\* drop(commit_backings[i])
DropPins(t) ==
    /\ txn[t].stage = "unpinning"
    /\ LET c == txn[t].copies IN
       backings' = Rebalance(backings, [b \in DOMAIN backings |->
                                  -Cardinality({a \in DOMAIN c : c[a].backing = b})])
    /\ txn' = [txn EXCEPT ![t].stage = "open", ![t].copies = <<>>]
    /\ UNCHANGED <<alive, pages, host, nextGen>>

\* gem_memory_transaction_finish, whatever stopped the engine.
Finish(t) ==
    /\ txn[t].stage \in {"open", "stopping"}
    /\ Readable(DependencyStripes(t))
    /\ txn' = [txn EXCEPT ![t].stage = IF AllCurrent(t) THEN "committed" ELSE "conflicted"]
    /\ UNCHANGED memoryVars

\* gem_memory_transaction_end; the x64 engine ends without finishing.
End(t) ==
    /\ txn[t].stage \in {"open", "stopping", "committed", "conflicted"}
    /\ LET d == txn[t].deps IN
       backings' = Rebalance(backings, [b \in DOMAIN backings |->
                                  -Cardinality({a \in DOMAIN d : d[a].backing = b})])
    /\ txn' = [txn EXCEPT ![t] = Idle]
    /\ UNCHANGED <<alive, pages, host, nextGen>>

-----------------------------------------------------------------------------
(* The ordinary operations with the stripes they take.                      *)

Exclusive(a, n) ==
    \/ Release(a, n) \/ Unmap(a, n) \/ Decommit(a, n) \/ ConsumeGuard(a, n, "write")
    \/ \E prot \in Protections :
          \/ Commit(a, n, prot) \/ Protect(a, n, prot) \/ MapIdentity(a, n, prot)
          \/ \E s \in Address : Alias(a, s, n, prot)
          \/ \E h \in HostPages : CommitExternal(a, h, n, prot)
    \/ \E v \in [Span(a, n) -> Stores] : Write(a, n, v)

Shared(a, n) ==
    \E mode \in {"read", "fetch"} : ConsumeGuard(a, n, mode) \/ ReadOrFetch(a, n, mode)

Ordinary ==
    /\ \/ \E r \in Ranges :
             \/ Reserve(r[1], r[2])
             \/ Writable(RangeStripes(r[1], r[2])) /\ Exclusive(r[1], r[2])
             \/ Readable(RangeStripes(r[1], r[2])) /\ Shared(r[1], r[2])
       \/ Writable({Stripe[x] : x \in DOMAIN Stripe}) /\ \E h \in HostPages : BindKuser(h)
       \/ \E h \in HostPages, v \in Stores : HostWrite(h, v)
       \/ (\A t \in Threads : txn[t].stage = "idle") /\ Destroy
    /\ UNCHANGED txn

Transaction(t) ==
    \/ Begin(t)
    \/ \E a \in TxnPages :
          \/ Snapshot(t, a) \/ Record(t, a)
          \/ \E mode \in {"read", "write", "fetch"} : Validate(t, a, mode)
    \/ \E W \in SUBSET TxnPages :
          \/ CommitFails(t, W) \/ CommitGuard(t, W)
          \/ \E v \in [W -> Stores] : CommitPages(t, W, v)
    \/ CopyLine(t) \/ ReleaseStripes(t) \/ DropPins(t)
    \/ Finish(t) \/ End(t)

TInit == Init /\ txn = [t \in Threads |-> Idle]
TNext == alive /\ (Ordinary \/ \E t \in Threads : Transaction(t))
TSpec == TInit /\ [][TNext]_vars
-----------------------------------------------------------------------------
(* Properties.                                                              *)

Hashes == {Hash(c) : c \in Contents} \cup {NoHash}
Dependency == [generation : Nat, contentGeneration : Nat, backing : Backings,
               hash : Hashes, protection : Protection, external : BOOLEAN]

\* Every variable has its type; stripes are held only while copying.
TTypeOK ==
    /\ TypeOK
    /\ DOMAIN txn = Threads
    /\ \A t \in Threads :
          /\ txn[t].stage \in Stages
          /\ DOMAIN txn[t].deps \subseteq TxnPages
          /\ \A a \in DOMAIN txn[t].deps : txn[t].deps[a] \in Dependency
          /\ DOMAIN txn[t].shadow \subseteq DOMAIN txn[t].deps
          /\ \A a \in DOMAIN txn[t].shadow : txn[t].shadow[a] \in Contents
          /\ DOMAIN txn[t].copies \subseteq DOMAIN txn[t].shadow
          /\ \A a \in DOMAIN txn[t].copies :
                txn[t].copies[a] \in [backing : Backings, left : SUBSET Lines]
          /\ txn[t].reading \cup txn[t].writing # {} => txn[t].stage = "copying"

\* A backing is alive exactly as long as a page, a recorded dependency or an
\* unfinished commit refers to it, and none of them refers to freed storage:
\* an unmap between snapshot and finish cannot free what a thread has pinned.
PinsExact ==
    /\ \A b \in DOMAIN backings :
          backings[b].refs =
             Cardinality({a \in DOMAIN pages : pages[a].backing = b})
             + Cardinality({x \in Threads \X TxnPages :
                  x[2] \in DOMAIN txn[x[1]].deps /\ txn[x[1]].deps[x[2]].backing = b})
             + Cardinality({x \in Threads \X TxnPages :
                  x[2] \in DOMAIN txn[x[1]].copies /\ txn[x[1]].copies[x[2]].backing = b})
    /\ \A a \in DOMAIN pages :
          pages[a].backing # NoBacking => pages[a].backing \in DOMAIN backings
    /\ \A t \in Threads :
          /\ \A a \in DOMAIN txn[t].deps : txn[t].deps[a].backing \in DOMAIN backings
          /\ \A a \in DOMAIN txn[t].copies : txn[t].copies[a].backing \in DOMAIN backings

\* When commit or finish accepts a dependency, the bytes the engine read
\* through that page are the bytes memory holds now: no store by another
\* thread, through any alias, slipped between snapshot and validation.
ValidatedReadsAreCurrent ==
    \A t \in Threads : txn[t].stage \in {"open", "stopping"} =>
        \A a \in DOMAIN txn[t].shadow :
            LET d == txn[t].deps[a] IN
            Current(a, d) /\ Readable(PageStripes(a, d.backing))
                => txn[t].shadow[a] = Content(d.backing)

\* Two guest aliases of the same bytes are never copied by two commits at
\* once (ADR 0010: address and backing stripes are both acquired).
AliasesCommitAlone ==
    \A t, u \in Threads : t # u =>
        \A a \in DOMAIN txn[t].copies, b \in DOMAIN txn[u].copies :
            ~ (/\ txn[t].stage = "copying" /\ txn[u].stage = "copying"
               /\ txn[t].copies[a].backing = txn[u].copies[b].backing)

\* When a commit lets go of its stripes, every backing holds exactly the bytes
\* of the last page committed to it: no other thread's store was interleaved.
CommitLands ==
    [][\A t \in Threads :
          txn[t].stage = "copying" /\ txn'[t].stage = "unpinning" =>
             LET c == txn[t].copies IN
             \A a \in DOMAIN c :
                /\ ~External(c[a].backing)
                /\ \A q \in DOMAIN c : c[q].backing = c[a].backing => q <= a
                => Content(c[a].backing) = txn[t].shadow[a]]_vars

-----------------------------------------------------------------------------
(* The memory that the transactions make look atomic (AtomicMemory).        *)

\* The page whose bytes a copying thread will leave in the backing b: the last
\* of those it commits to b.
Landing(b) ==
    {x \in Threads \X TxnPages :
        LET c == txn[x[1]].copies IN
        /\ txn[x[1]].stage = "copying" /\ x[2] \in DOMAIN c /\ c[x[2]].backing = b
        /\ \A q \in DOMAIN c : c[q].backing = b => q <= x[2]}

\* What a reader who waits for the stripes gets from b.  Caller-owned bytes are
\* stored before the stripes alone protect a commit.
Settled(b) ==
    IF External(b) \/ Landing(b) = {} THEN Content(b)
    ELSE LET x == CHOOSE y \in Landing(b) : TRUE IN txn[x[1]].shadow[x[2]]

\* Two backings of one host page are the same storage.
StorageOf(b) ==
    IF External(b) THEN [owner |-> "caller", id |-> backings[b].host]
                   ELSE [owner |-> "gem", id |-> b]

Viewed == {a \in DOMAIN pages : pages[a].backing # NoBacking}

TxnState(stage) ==
    IF stage \in {"idle", "committed", "conflicted"} THEN stage ELSE "open"

AtomicStorage == [a \in Viewed |-> StorageOf(pages[a].backing)]
AtomicView == [a \in Viewed |-> Settled(pages[a].backing)]
AtomicSeen == [t \in Threads |-> txn[t].shadow]
AtomicState == [t \in Threads |-> TxnState(txn[t].stage)]

Atomic == INSTANCE AtomicMemory WITH
    Volatile <- {[owner |-> "caller", id |-> h] : h \in VolatileHosts},
    clock <- nextGen, storage <- AtomicStorage, view <- AtomicView,
    seen <- AtomicSeen, state <- AtomicState

\* gem_memory_transaction_commit_pages is one atomic step, although it copies line
\* by line after the metadata lock is gone: it happens when the stamps are set,
\* only if everything the transaction saw is still so, and from then on every
\* reader who takes the stripes gets all of it.  A transaction that finishes as
\* committed saw one state of memory, the one that holds as it finishes.
ImplementsAtomicMemory == Atomic!Spec
=============================================================================
