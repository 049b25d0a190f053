# A TLA+ verification of the GEM runtime

SharpWine runs Windows guests on Apple silicon. Its own core is GEM
(`src/gem`, `include/metalsharp/gem`): a logical guest memory that all engines
share, three execution engines behind it, a coordinator for mixed ARM64EC/x64
code, and the bridge Wine calls. This directory models that core, checks it
with TLC on small instances and proves its safety properties with TLAPS.
`PROJECT.json` lists the runs, the map from definitions to source lines, the hazards,
the findings and the theorems.

## 1. Inventory

| Component | State | Operations | What is hard | What makes it correct |
|---|---|---|---|---|
| Guest memory (`memory.c`) | page table, reservations, reference-counted backings, one generation counter | reserve, commit, decommit, release, unmap, protect, alias, identity and external mappings, KUSER binding, read, write, fetch | long call sequences, aliases, write-copy, guards, pages owned by Wine | reservations tile the table; counts are exact; nothing changes behind an unchanged stamp |
| Transactions (`memory.c`) | dependencies with pinned backings, shadow pages, stripes held while copying | begin, snapshot, validate, commit, finish, end | the commit copies after it has released the metadata lock | validation accepts only current bytes; commits are not torn; pins keep storage alive |
| Locks (`memory.c`) | recursive metadata mutex, 256 writer-preferring stripes | acquire, release, wait, broadcast | lock order, lost wake-ups, fault re-entry | exclusion, no deadlock, metadata lock always given back |
| i386 engine (`i386_engine.c`, `i386_blink.c`) | running/failed flags, adaptive quantum budget, async flag | run, invalidate_code, request_async_stop | retries after conflicts, stops arriving at any time | context and retired count agree; no store lost or repeated; runs return |
| x64 engine (`x64_engine.c`, `x64_blink.c`) | running flag, last stop, async flag | run (one instruction per transaction), invalidate, async stop | boundary addresses, transactions ended without finish | one instruction is atomic |
| ARM64EC engine (`arm64ec_engine.c`, `arm64ec_dynarmic.cpp`) | broker, target resolver, native upper SIMD, last stop | run, attach, set broker, async stop | callbacks out of translated code | every stop has one reason; transitions are counted once |
| Hybrid coordinator (`hybrid_runtime.c`) | frame stack, stack records, two engines | run, boundary callbacks, push/pop, callback enter/finish | nesting, budget expiry and stops between two engines | frames unwind in order; stack records are restored on failure |
| Wine bridge (`wine_bridge.c`) | process, thread list, images, run locks | create, destroy, prepare, register, run, invalidate, async stop | calls from many Wine threads | no thread outlives its process; stops reach the running engine |
| Target resolution, PE parser and loader | immutable metadata; materialised images | resolve, checker dispatch, parse, materialise | overlapping ranges, rollback of a half-made image | results agree with a reference; failure leaves no mapping |
| Context conversion and serialization | none | flag, MXCSR and register conversions | lossy conversions | round trips |

The engines call the memory through transactions; the bridge calls it directly
and drives the engines; Wine owns the host pages that identity, external and
KUSER mappings expose and writes them without any GEM lock.

## 2. Plan

1. `GemMemory`, `GemTransaction`, `GemLocks`, `I386Quantum` and the first
   proofs. *Done.*
2. `HybridCoordinator` with its abstract specification `ArchCallStack`,
   `HybridOneShot`, `WineRun`, `WineLifecycle`, `Arm64ecEngine`. *Done.*
3. Proofs of the safety properties and action properties of `GemMemory`,
   `GemLocks`, `I386Quantum`, `HybridCoordinator` (with its refinement of
   `ArchCallStack`), `HybridOneShot`, `WineLifecycle`, `WineRun`, `Arm64ecEngine`
   and `GemTransaction`. *Done.*
4. `AtomicMemory`, an abstract memory in which commits are atomic, and
   `GemTransaction` shown to implement it where no finding stands in the way.
   *Done.*

Components without a module, and why, are in section 7.

## 3. Modules

**GemMemory.** `pages` is the hash index (its domain is what `at()` finds),
`backings` the live `struct backing`s by identity, `host` the bytes of
caller-owned pages, `nextGen` is `next_generation`. Addresses are page numbers;
`Top` pages stand for the 64-bit space, whose last page `range_ok` never
accepts. Each public operation runs from validation to publication under the
metadata lock and is one action; a refused call changes nothing and has none.
The generation of a new backing is drawn from `Garbage`, because `new_backing`
does not initialise it. A failed allocation leaves only the generations it has
used (`OutOfMemory`). The order in which pages are stamped is kept: of two
pages of one write with the same backing, the last one's bytes and stamp stay.

**GemTransaction** extends GemMemory with one transaction per engine thread.
Each metadata critical section is an action. A successful commit is
`CommitPages` (validation, private copies, stamps, pins, the thread's own
dependencies), then one `CopyLine` per cache line holding stripes only, then
`ReleaseStripes` and `DropPins`. Ordinary operations run in between unless a
stripe stands in their way. `shadow` is what the engine has read.

**AtomicMemory** is what transactions promise: a page is a view of storage, a
transaction sees pages one at a time, and its commit is one step that requires all
it has seen to be what memory holds and stores all its pages at once; it ends as
committed only if what it has seen holds at that moment. Anything else done to
memory is `Foreign`, which without a tick of the clock may only take pages away or
change bytes of volatile storage. The refinement mapping (end of
`GemTransaction`) reads a backing that is being copied to as the page that will be
left in it (`Settled`): the copy is over in one step, the one in which
the metadata lock was held, because whoever reads must take the stripes first.
`ImplementsAtomicMemory` is the implementation.

**GemLocks** looks inside the locks GemTransaction takes for granted: the owner
and depth of the recursive mutex; readers, waiting writers, writer flag and
sleepers of each stripe. Waiting is explicit, so a lost wake-up would show, and
a wait may also end spuriously. `Reenter` is Wine's protection-fault handler
calling GEM on the thread that faulted; `OwnPages` says whether the fault may
be on a page that thread has locked or only on the caller's buffer.

**I386Quantum** is `gem_i386_runtime_run` over Blink's bounded run. A program is
a line of loads, increments, locked increments and faults, so a context is a
program counter. Guest memory is reduced to what GemTransaction provides: a
commit or finish accepts exactly when the recorded stamps are current. Syscall
boundaries (which stop like the return sentinel), restartable REP and the
decoding of instructions are left out.

**HybridCoordinator** is `gem_hybrid_runtime_run`: the two-frame sidecar, the
guest stack words that hold return records, and the thread's context. Guest
code is arbitrary: an ARM64EC segment may end at any helper call, branch or
stop with any sp and x30, an x64 instruction may be any jump, CALL or RET, and
anybody may store to the stack. `Push`, `Pop`, `EnterCallback` and
`FinishCallback` are the four `generic_*` transitions, each with its failure
`Invariant`, in which the restoration of every record may fail on its own.
`Resolve` and `Thunk` stand for the images' metadata: any classification of
addresses and any descriptor.

**ArchCallStack** is what the coordinator promises: a stack of continuations, of
which a return resumes exactly the newest and a failure drops all. The sidecar
read as a call stack (`Continuations`) is the refinement mapping, and
`ImplementsCallStack` the implementation.

**HybridOneShot** holds the four older operations (round trip, return, callback
resume, nested call) that run a fixed sequence of segments and put everything
back when one fails. Only tests call them; they do not look at whether the
stateful coordinator is in use, so the two are not composed.

**WineRun** composes the engines: one guest thread's `gem_wine_thread_run` or
`gem_wine_i386_thread_run`, in a process of each routing. An engine's run ends in
any stop its contract allows; of the coordinator, the cookies of its frames, its
architecture and the captured return address are kept. Boundary callbacks may
start another run on the same thread, because its run lock is recursive. Its
names (`RunInit`, `RunNext`, ...) differ from those of `WineLifecycle`, so that one
module can prove both.

**WineLifecycle** is the other half of the bridge: several host threads create,
run and destroy guest threads, prepare the routing, register images and
invalidate code. A run is its lock protocol: segments under `runtime_lock`,
callbacks outside it. `Quiet` and `SelfDestroy = FALSE` are assumptions on Wine:
x86-64 and i386 routing is prepared before anything else runs, and a callback
does not destroy the thread it runs on.

**Arm64ecEngine** is one ARM64EC runtime. A program is a line of instructions the
engine tells apart (plain, store, load, trapping, brokered helper, redirected,
x64 and x18-changing ones); a store increments a shared word and a register, so
that repeated or lost stores show. BRK, UDF, forbidden registers and SVC stops
have one shape and are one kind. `Execute` is Dynarmic inside a translated
segment; the actions after it are what the code does when the segment has ended,
one per branch; the precise loop's branches follow.

**GemMemoryProofs**, **GemTransactionProofs**, **GemLocksProofs**, **I386QuantumProofs**,
**HybridCoordinatorProofs**, **HybridOneShotProofs**, **WineBridgeProofs** (`WineLifecycle` and
`WineRun`) and **Arm64ecEngineProofs** extend their modules with the proofs. The `MC...` modules and
the `.cfg` files instantiate the others. Definitions marked *faulty variant*
are never used by a specification: each is a plausible mistake in the code and
`PROJECT.json` ("mutants") names the property that notices it.

## 4. Runs

| Run | Question | Result |
|---|---|---|
| `memory_topology` | can a sequence of reservations, splits, aliases and releases break a reservation or a count? | no |
| `memory_content` | can bytes or mappings change behind an unchanged stamp, or a protected view alter shared bytes? | no |
| `transaction_alias` | two threads, two aliases, different values: stale reads, torn commits? | no |
| `transaction_views` | guarded write-copy page, GEM's or its owner's, unmapped and recommitted under two threads: freed storage? does memory implement `AtomicMemory`? | no; yes |
| `locks` | exclusion, deadlock, lost wake-ups, with handlers for faults on the caller's buffer | all well |
| `quantum` | one i386 runtime against stores, stops and faults: exact context, no lost store, termination | all well |
| `hybrid` | arbitrary code crossing architectures, stopping and failing anywhere: frames, records, resumption, termination, and the refinement of `ArchCallStack` | all well |
| `hybrid_oneshot` | do the one-shot operations leave anything behind, and do they end? | nothing; yes |
| `wine_run` | do nested runs keep each other's frames, does every step use something up, and does every run return? | yes |
| `wine_lifecycle` | freed threads, forgotten brokers, mixed routing, lock cycles? | none |
| `engine` | exact contexts after faults, replays and stops in the strict profiles; cause of stops; termination | all well |
| `engine_native` | is the context exact in the native profile too? | **no**, finding 1 |

Bounds. `MaxGeneration` limits the number of stamped changes; the values allow
every pair of operations on every pair of pages to follow each other, and in
`memory_topology` five stamped changes on three free pages. Three free pages
are the least that have a left, a middle and a right part. Four backings (three
in the transaction runs) leave one more than the pages in use, so that an
identity can be reused. Pages have two cache lines, the least for a torn page.
Stripes do not collide: a collision only makes threads wait. The passing
transaction runs keep `Garbage` at zero, a value no store produces, so that
finding 3 does not hide other behaviour; likewise they have no alias of a page
being detached (finding 2). In `locks`, three threads are the least for a
reader, a copying writer and a waiter. `quantum` uses budgets below, at and
above the limits, with quantum sizes 2 to 4 for 64 to 256 and a yield after 2
conflicts for 8. `MaxStamp` and `MaxOther` bound the stores.

`hybrid` has two stack words, so that two frames can share a record word as
nested frames of unaligned callers can; budget 1, because sidecar and context
survive between runs and a longer run is several short ones; two cookies, so
that the counter wraps while a frame is live. `hybrid_oneshot` needs budget 5 for
a complete nested operation and a third stack word for its CALL. `wine_run` has
two segments per run, one callback and one nested run, each the least at which
the respective limit is met by one case and not by another. `wine_lifecycle` has
three guest threads, so that a walk has one behind, one at hand and one ahead,
and three nested calls: a run, a run in its callback, and an operation in that
one's. `engine` has budgets that end inside, at the end of and past a segment,
one zero-progress resume, transition limits 0 (none) and 1, and memory that
counts modulo 4, more than the stores one budget can repeat.

Permutations of backings, of threads and of hosts are symmetries, used only
where no liveness is checked.

Deadlock is not checked in the memory and transaction runs, where the generation
bound and `Destroy` end behaviours, nor in the engine runs, where a host return or
an invariant stop is the end.

`ImplementsAtomicMemory` is checked where the theorem of section 6 does not reach,
with a write-copy view. TLC confirms it for two pages as well when it is added to
`GemTransactionAlias.cfg`, which then takes nearly twice as long.

The type invariants of `GemLocks`, `WineRun`, `WineLifecycle`, `HybridOneShot` and
`Arm64ecEngine` hold in these instances as well; they are parts of the inductive
invariants proved below (in that of `WineLifecycle`, as `Typed`). Every inductive invariant of section 6
was checked by TLC on these instances before it was proved.

Fairness. Everywhere weak fairness of a thread's own steps is assumed, that is,
that the operating system schedules runnable threads: of each thread in `GemLocks`
and `I386Quantum`, of `Step` in `HybridOneShot`, of `Engine` in `Arm64ecEngine`, of
`Loop` in `WineRun`. Nothing is assumed of who wins a mutex, of spurious wake-ups,
of new calls, of stores by others or of stop requests. `WineRun` further assumes
that a callback of Wine answers in the end, however many runs it starts before
(strong fairness of `Answer` at each nesting level): the bridge has no timeout for
callbacks. `RunTerminates` of `HybridCoordinator` and `RunsUseUp` of `WineRun` need no
fairness: they state a measure that every step of a run lowers. `RunReturns` of `I386Quantum` is claimed
for one runtime against finitely many foreign stores: two runtimes may conflict
for ever.

## 5. Findings

1. `StopsAreExact` (`engine_native`): a fault in a translated segment restores the
   registers from before the segment and executes it again instruction by
   instruction (`arm64ec_dynarmic.cpp:911`). The strict profiles end a segment at
   every store; the native profile, which the bridge uses for ARM64 threads,
   does not, so stores before the fault are made twice. The conformance test
   calls the replayed fault "architecturally exact".

The following disagreements are not among the runs; each is reproduced by
changing the constants of a run as stated.

2. `AliasesCommitAlone`: the stripes of a commit are computed before the private
   backing of a write-copy page exists (`memory.c:1128`), and `alias` takes the
   destination's stripes only, so the page can be aliased and committed to
   through the alias while the first copy runs. ADR 0010 rules concurrent commits
   through aliases out. (`GemTransactionViews.cfg` with `Top = 6`, `HostPages = {}`,
   `VolatileHosts = {}`, `Ranges <- RaceRanges`, `Protections <- RaceProtections`,
   `MaxGeneration = 9`, `TxnPages = {2, 4}`.)
3. `ValidatedReadsAreCurrent`: with an unlucky value in fresh `malloc` storage the
   recorded content generation equals the one a later store assigns
   (`memory.c:429`). (`GemTransactionAlias.cfg` with `Garbage = {5}`.)
4. `NoSelfWait`: only the metadata mutex is recursive; the stripes are not
   (`memory.c:163`). Wine's `virtual_handle_fault` changes the protection of the
   faulting page through GEM, so a fault on a page that the operation itself has
   locked makes the thread wait for itself. (`GemLocks.cfg` with
   `Threads <- TwoThreads`, `Stripes = {1}`, `Plans <- SamePage`,
   `FaultPlans <- SamePage`, `OwnPages = TRUE`.)
5. `StoresApplyOnce`: stores are committed per instruction, but a conflict at
   finish restarts the whole quantum (`i386_engine.c:125`), so an increment can be
   executed twice. (`I386Quantum.cfg` with this invariant.)
6. `AsyncStopIsReported`: Blink's callback clears the request before finish turns
   the stop into a conflict (`i386_engine.c:131`), and the run continues.
   (`I386Quantum.cfg` with this property.)
7. `RunReturns` and `RunsUseUp` of `WineRun`: without SVC boundaries the coordinator captures x30 as
   its return address; code entered at the address in x30 returns before its first
   instruction, the bridge sees a transition into an image and begins again, and no
   budget is used. `wine-gem-bridge.md` says the total budget bounds the complete
   run. (`WineRun.cfg` with `Routings = {"ARM64X"}`, `SvcBoundaries = FALSE`,
   `Link = {"caller"}`, `MaxNesting = 1`.)
8. `UsedThreadsAreAlive`: the run lock of an ARM64/x64 thread is recursive, so
   destroying a thread from its own callback is not refused and the run goes on with
   freed storage; `wine-gem-bridge.md:72` says that destroying a running thread
   returns a conflict. (`WineLifecycle.cfg` with `SelfDestroy = TRUE`.)

Also met, without a property: a store through a write-copy view of caller-owned
storage reaches the caller's page (`memory.c:831`), which the tests expect and
`guest-memory.md:5` does not mention; a LOCK prefix on the first instruction of
a quantum does not end it, although ADR 0010 says LOCK terminates a quantum;
`ClearTransientHalts` also clears an asynchronous request that arrived after
Dynarmic returned (`arm64ec_dynarmic.cpp:629`); an asynchronous stop of a
translated segment is published without the test of x18 that the other ends make;
the SVC profile counts a trapping instruction as retired, the native one does
not; a completed round trip leaves its return record in the dead word below the
stack pointer.

## 6. Proofs

Each theorem holds for every value of the constants that satisfies the module's
named assumption: any number of threads, pages, stripes, backings and stack words,
any program, budget and width. `PROJECT.json` ("theorems") lists them. A proof of
`Spec => []Inv` shows that an inductive invariant `IInv` holds initially, that every
action keeps it (one lemma per action, one step per conjunct the action can disturb)
and that it implies `Inv`.

**GemMemoryProofs.** `TypeOK` is inductive; the work is in showing that dropping
references leaves natural counts.

* `ReservationsStayWellFormed`: inductive together with `TypeOK`. Adding a reservation
  on unmapped pages keeps the others apart; `UnmapWellFormed` splits one into two and
  shows that no other reaches into either; all other actions leave extents alone.
* `RefsStayExact`: counts are compared with the function from pages to backings
  (`CountsExact`), in three kinds of steps: pages give up their backings, get new ones,
  get others' ones; each action is one or two of them. The lemmas allow further
  references `P` held by others.
* `RemapsAreFresh`: each action either keeps a page or gives it a generation above the
  counter (`PagesTouched`), and changes backing, protection or guard only in the latter
  case.
* `WriteCopiesAreIsolated`: from `BackingsKept`, what a step may do to the bytes of a
  backing that exists before and after it, and `PagesStamped`, that no page is
  stamped above the counter.
* `ContentsAreStamped` assumes that fresh storage holds no generation above 3, the
  counter's initial value, because `new_backing` leaves the field uninitialised; without
  the assumption the property is false (finding 3). Its invariant is that no backing
  is stamped above the counter.

**GemTransactionProofs.** `TInv` is the types with `PinnedExact(Pins)`, the counts of
`GemMemoryProofs` with the references that dependencies and unfinished commits hold.
An ordinary operation is a step of `GemMemory` and leaves the pins alone, so the lemmas
there apply to it. A step of a transaction changes the pins of one thread
(`PinsChange`) and the counts by as much (`RebalanceExact`); for a commit, pages and
dependencies are redirected to the private copies (`RedirectCount`) and every written
backing is pinned once more (`CommitPins`). Proved: `TransactionsTyped`,
`PinsStayExact`, and, if no caller asks for a write-copy view (otherwise false by
finding 2), `AliasesStayAlone`, whose additional invariant `AInv` says that no page
is write-copy, that a copying thread holds the stripe of every backing it copies to
exclusively, and that no two threads hold one stripe so.

* `ReadsStayValid` and `CommitsStayWhole` assume the same, and that fresh storage
  holds no generation above 3 (otherwise finding 3); `ReadsStayValid` also assumes that
  `content_hash` tells contents apart, because the code relies on it for caller-owned
  bytes. `GemTransactionAlias.cfg` satisfies all three. The invariant `VInv`
  (`Reads`) is needed because neither property is inductive: it says that nothing is
  stamped from the future (`StampsPast`); that a record whose stamp is the backing's is
  of the bytes read, unless its own thread is just copying them (`Tracked`); that while
  a thread copies to a backing no record of it is current but that of the last page the
  thread commits to it (`OneWriter`); and that the lines of that page copied so far are in
  place (`LinesLanded`), which holds because pages are copied in order (`PagesInOrder`).
  Each step is shown to be one of five changes of records and backings, each with
  a lemma of its own: backings are kept or stamped over (`CarriedReads`), a record
  is dropped or relabelled (`TrimmedReads`), a page is recorded or read again
  (`NotedReads`), a commit stamps what it will write (`CommitTakenReads`), a line is
  copied (`LineReads`). Stripes matter in exactly three of them: an ordinary
  store, a new record and a second commit cannot reach a backing while it is copied to.

* `TransactionsAreAtomic`, the refinement of `AtomicMemory`, under the hypotheses of
  `ReadsStayValid`. To the invariant comes `LInv`: every backing that a commit copies
  to has a last page among the commit's, so that `Settled` is defined
  (`LandingDecides`). `Shows` says what a page shows, as host bytes or as settled
  bytes of a backing, before and after a step; `SameView` that a page keeps what it
  shows if it keeps its backing, the backing's bytes and what is landing there
  (`SameLanding`). The steps of a transaction map to `Begin`, `See`, `Forget`, `Commit`,
  `Resolve` and `End`, or to a stutter (`BeginAtomic` to `CommitAtomic`): copying a line and
  releasing the stripes change nothing that is seen, by `LinesLanded` and
  `OneWriter`; the commit happens in `CommitPages`, where `ReadsValid` gives that all it
  has seen is up to date. An ordinary operation maps to `Foreign`
  (`OrdinaryAtomic`): it stamps what it changes, and the stripes keep it off backings
  being copied to.

**GemLocksProofs.** `IInv` says which of a thread's nested operations is the
innermost (`Nested`), what each holds at each program point (`OpsWellFormed`), that the
metadata lock's depth is the number of its owner's operations inside it (`Metadata`),
and that the sleepers of a stripe wait for it and its `waiting` counter is one exactly
while a writer has announced itself (`Queue`). Exclusion alone is not inductive: a release lowers
`readers` correctly only if the operation is among those counted. Proved:
`TypeCorrect`, `StripesExclude`, `WaitersOwnMetadata`, and, for handlers that ask
for no page their thread has locked (`~OwnPages`, otherwise false by finding 4),
`NoThreadWaitsForItself`.

**I386QuantumProofs.** Per thread, `ThreadOK` ties context, output, retired count and
budget at each stage, and `ShadowOK` says that a page whose recorded stamp is current
holds the bytes the quantum works on. `PerformedStoresKept` counts all increments performed,
also the unpublished ones of a running quantum, which is what a commit preserves;
`NoLostStore` is about the published ones only and not inductive. Proved:
`TypeCorrect`, `ContextsAreExact`, `StoresAreKept`.

**HybridCoordinatorProofs.** `IInv` is the conjunction of `TypeOK`, `FrameDiscipline`,
`Resumable`, `NoStrayRecord`, that a stopped ARM segment belongs to an ARM stage, and
`OldWords`: what a live frame will put back is not itself a return record, unless the two
frames share the word, so that restoring a record cannot leave another behind. Proved: `TypeCorrect`, `FramesDisciplined`,
`AlwaysResumable`, `RecordsTakenBack`; `RunsTerminate`, an action property: every step
of a run uses budget or lowers a rank; and `CoordinatorImplementsCallStack`, the
refinement: the initial states of the coordinator map to those of `ArchCallStack`, and
under `IInv` each action maps to a call, a return, a failure or a stutter of it.

**HybridOneShotProofs.** `IInv` adds to the checked invariants which frames each segment
of each operation has pushed (`Segments`, `Shapes`), how many have been pushed and popped
(`Counts`), which targets are expected (`Targets`) and `OldWords` as above. Proved:
`LeavesNothing`, `FramesStayBalanced`, `RecordsGivenBack`.

**WineBridgeProofs.** For `WineLifecycle`, `IInv` gives the shape of a host's nested calls, the owners
of the locks, where a thread is between creation and release, what routing has been
decided, and `Covered`: with the flag set, every thread has the broker or somebody is
still going to give it to it. Proved: `OneRouting`, `NoThreadMissed`, `LocksOrdered`,
and, if no callback destroys the thread it runs on (`~SelfDestroy`, otherwise false by
finding 8), `StorageOutlivesUse`, whose additional invariant counts the holds on each
run lock (`Counted`) and shows that who frees a thread is alone with it.

For `WineRun`, `RunInv` is the types with `FramesOwned`, which strengthens
`PausedFramesKept`: at most one active run has a cookie, wherever it is in its loop,
and it is that of the topmost frame of the bound coordinator. Without the
uniqueness the property is not inductive: a run that continues and pops its frame would
leave another one with a cookie that is gone. Each action ends in `Return` or `Continue`, so that
its lemma is about one run (`MovesKeep`). Proved: `RunsTyped`,
`PausedRunsKeepFrames`, and, if the coordinator does not return into an image
(`SvcBoundaries`, or no x30 in an image; otherwise false by finding 7), `RunsAreFinite`: instructions retired,
callbacks spent and the distance to the next of either form a lexicographic measure that
every step of a run lowers. Its lemma `RunNextUses` holds of every step, so that a
loop that spins without changing anything is excluded too, which an action
property cannot say.

**Arm64ecEngineProofs.** `IInv` says how the registers of the running segment relate to
memory (`RegistersDescribeMemory`: in the strict profiles the snapshot lacks no store until
one has ended the segment), which instruction a segment has ended at (`SegmentShape`), and how budget, phase and stop
agree. Proved: `TypeCorrect`, `StrictContextsAreExact`, `CausesArePublished`.

Model-checked only: the liveness properties (`MetadataIsReleased` of `GemLocks`,
`RunReturns` of `I386Quantum`, `Arm64ecEngine` and `WineRun`, `OperationEnds` of
`HybridOneShot`), because the prover does not handle fairness; and
`ImplementsAtomicMemory` and `ValidatedReadsAreCurrent` with write-copy views in the
argument set, where the stripes do not suffice in general (finding 2).

## 7. Not modelled

* The x64 engine: it runs one instruction per transaction, so its memory protocol
  is that of `GemTransaction` with a single step, and its callers see exactly one
  instruction with a call/return flag, as the hybrid modules have it.
* The PE parser, target resolution and the context conversions: functions of
  bytes, image metadata and registers without state; the models take any
  classification of addresses.
* The loader and the i386 view of the address space: sequences of `GemMemory`
  operations by one thread.
* Of the bridge: the memory wrappers (one `GemMemory` call each), upper SIMD
  transfer, the result record, and the forwarding of asynchronous stops, which
  reads the thread's runtimes without a lock.
* Of the ARM64EC engine: creation, setters, code invalidation, and instruction
  semantics, which are Dynarmic's; of the i386 engine: system-call boundaries (which
  stop like the return sentinel), restartable REP and decoding, which is Blink's.
* The Windows SRW locks; byte-level alignment and partial-page copies (a store
  leaves an arbitrary content in each page it touches); the macOS region query of
  caller-owned pages; performance counters; build, release and audit tooling; the
  Wine and DXMT patches.
