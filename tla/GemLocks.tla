------------------------------ MODULE GemLocks ------------------------------
(***************************************************************************)
(* The locking protocol of src/gem/memory.c on POSIX hosts: one recursive  *)
(* metadata mutex, and stripes that are writer-preferring reader/writer    *)
(* locks built from a mutex, a condition variable and three counters.      *)
(*                                                                         *)
(* A thread runs one public operation after the other.  Each takes the     *)
(* metadata lock and then its stripes in ascending order; a transaction    *)
(* commit gives the metadata lock up while it copies and takes it again    *)
(* afterwards.  A step between lock and unlock of a stripe's own mutex is  *)
(* atomic; waiting on its condition variable is explicit, so that a lost   *)
(* wake-up would be seen.                                                  *)
(***************************************************************************)
EXTENDS Integers, FiniteSets

CONSTANTS
    Threads, NoThread,
    Stripes,      \* indices of the page stripes
    Plans,        \* the operations threads perform
    FaultPlans,   \* the operations a protection-fault handler performs
    OwnPages,     \* whether handlers ask for pages the faulting thread has locked
    MaxDepth      \* nesting of operations on one thread (1: no fault re-entry)

\* reads and writes are the stripes taken in each mode; commit marks a
\* transaction commit.
Plan == [reads : SUBSET Stripes, writes : SUBSET Stripes, commit : BOOLEAN]

ASSUME LockAssumption ==
    /\ Stripes \subseteq Nat /\ IsFiniteSet(Threads) /\ NoThread \notin Threads
    /\ Plans \cup FaultPlans \subseteq Plan
    /\ \A p \in Plans \cup FaultPlans : p.reads \cap p.writes = {}
    /\ MaxDepth \in Nat \ {0} /\ OwnPages \in BOOLEAN

VARIABLES
    owner, depth,  \* the metadata mutex: who holds it and how many times
    stripe,        \* struct gem_stripe_lock of each stripe
    ops            \* the operations each thread has under way, innermost last

vars == <<owner, depth, stripe, ops>>

Levels == 1 .. MaxDepth
Idle == [pc |-> "idle", reads |-> {}, writes |-> {}, commit |-> FALSE,
         held |-> {}, announced |-> FALSE, faulted |-> FALSE]
Operation == [pc : {"idle", "metadata", "stripes", "body", "copy", "release",
                    "unlock", "unpin"},
              reads : SUBSET Stripes, writes : SUBSET Stripes, commit : BOOLEAN,
              held : SUBSET Stripes, announced : BOOLEAN, faulted : BOOLEAN]

\* The innermost operation of a thread, the only one that runs.
Level(t) == CHOOSE k \in Levels :
    /\ \A j \in Levels : j > k => ops[t][j].pc = "idle"
    /\ k = 1 \/ ops[t][k].pc # "idle"
Op(t) == ops[t][Level(t)]
Become(t, o) == ops' = [ops EXCEPT ![t][Level(t)] = o]

NewOperation(p) == [Idle EXCEPT !.pc = "metadata", !.reads = p.reads,
                                !.writes = p.writes, !.commit = p.commit]

-----------------------------------------------------------------------------
(* Operations.                                                              *)

Init ==
    /\ owner = NoThread /\ depth = 0
    /\ stripe = [s \in Stripes |-> [readers |-> 0, waiting |-> 0, writer |-> FALSE,
                                    sleepers |-> {}]]
    /\ ops = [t \in Threads |-> [k \in Levels |-> Idle]]

\* A thread calls a public operation.
Call(t, p) ==
    /\ Level(t) = 1 /\ Op(t).pc = "idle"
    /\ Become(t, NewOperation(p))
    /\ UNCHANGED <<owner, depth, stripe>>

\* Touching caller-owned memory in the body of an operation faults, and Wine's
\* virtual_handle_fault calls gem_wine_process_protect for the faulting page on
\* the same thread before the fault returns.  That page is the caller's buffer
\* or, with OwnPages, a page its operations have locked.  The handler resolves
\* the fault, so a body faults once.  (The copy after a commit touches only
\* GEM's own storage.)
Reenter(t, p) ==
    /\ Level(t) < MaxDepth /\ Op(t).pc = "body" /\ ~Op(t).faulted
    /\ OwnPages \/ \A k \in Levels : (p.reads \cup p.writes) \cap ops[t][k].held = {}
    /\ ops' = [ops EXCEPT ![t][Level(t)].faulted = TRUE,
                          ![t][Level(t) + 1] = NewOperation(p)]
    /\ UNCHANGED <<owner, depth, stripe>>

\* Faulty variant: two threads inside the metadata lock.
LockMetadataAnyway(t, from, to) ==
    /\ Op(t).pc = from
    /\ owner' = t /\ depth' = depth + 1
    /\ Become(t, [Op(t) EXCEPT !.pc = to])
    /\ UNCHANGED stripe

\* gem_lock_acquire on a PTHREAD_MUTEX_RECURSIVE mutex.
LockMetadata(t, from, to) ==
    /\ Op(t).pc = from
    /\ owner \in {NoThread, t}
    /\ owner' = t /\ depth' = depth + 1
    /\ Become(t, [Op(t) EXCEPT !.pc = to])
    /\ UNCHANGED stripe

OwnerAfterUnlock == IF depth = 1 THEN NoThread ELSE owner

UnlockMetadata(t, from, to) ==
    /\ Op(t).pc = from
    /\ depth' = depth - 1
    /\ owner' = OwnerAfterUnlock
    /\ Become(t, [Op(t) EXCEPT !.pc = to])
    /\ UNCHANGED stripe

\* Faulty variant: a stripe of two pages is acquired twice.
MissingTwice(t) == Op(t).reads \cup Op(t).writes

\* The stripes still to acquire, and the next of them in ascending order.
Missing(t) == (Op(t).reads \cup Op(t).writes) \ Op(t).held
NextStripe(t) == CHOOSE s \in Missing(t) : \A r \in Missing(t) : s <= r

Awake(t, s) == t \notin stripe[s].sleepers
Sleep(t, s) == stripe' = [stripe EXCEPT ![s].sleepers = @ \cup {t}]

ReadBlocked(s) == stripe[s].writer \/ stripe[s].waiting # 0

\* Faulty variant: a writer does not wait for the readers.
WriteBlockedByWriter(s) == stripe[s].writer

WriteBlocked(s) == stripe[s].writer \/ stripe[s].readers # 0

\* What the thread's pass through the loop adds to waiting_writers.
Announce(t) == IF Op(t).announced THEN 0 ELSE 1

\* gem_stripe_read_acquire: one pass of its loop.
ReadAcquire(t) ==
    LET s == NextStripe(t) IN
    /\ Op(t).pc = "stripes" /\ Missing(t) # {} /\ s \in Op(t).reads /\ Awake(t, s)
    /\ IF ReadBlocked(s)
       THEN Sleep(t, s) /\ UNCHANGED ops
       ELSE /\ stripe' = [stripe EXCEPT ![s].readers = @ + 1]
            /\ Become(t, [Op(t) EXCEPT !.held = @ \cup {s}])
    /\ UNCHANGED <<owner, depth>>

\* gem_stripe_write_acquire: the first pass announces the writer.
WriteAcquire(t) ==
    LET s == NextStripe(t) IN
    /\ Op(t).pc = "stripes" /\ Missing(t) # {} /\ s \in Op(t).writes /\ Awake(t, s)
    /\ IF WriteBlocked(s)
       THEN /\ stripe' = [stripe EXCEPT ![s].waiting = @ + Announce(t),
                                        ![s].sleepers = @ \cup {t}]
            /\ Become(t, [Op(t) EXCEPT !.announced = TRUE])
       ELSE /\ stripe' = [stripe EXCEPT ![s].waiting = @ + Announce(t) - 1, ![s].writer = TRUE]
            /\ Become(t, [Op(t) EXCEPT !.held = @ \cup {s}, !.announced = FALSE])
    /\ UNCHANGED <<owner, depth>>

\* pthread_cond_wait may return without a broadcast; the loop looks again.
WakeSpuriously(t) ==
    /\ \E s \in Stripes :
          /\ ~Awake(t, s)
          /\ stripe' = [stripe EXCEPT ![s].sleepers = @ \ {t}]
    /\ UNCHANGED <<owner, depth, ops>>

\* All stripes are held: the body runs, under the metadata lock unless this is
\* a commit that has published its stamps.
Enter(t) ==
    /\ Op(t).pc = "stripes" /\ Missing(t) = {}
    /\ Become(t, [Op(t) EXCEPT !.pc = "body"])
    /\ UNCHANGED <<owner, depth, stripe>>

Leave(t) ==
    \/ ~Op(t).commit /\ Op(t).pc = "body" /\ Become(t, [Op(t) EXCEPT !.pc = "release"])
                     /\ UNCHANGED <<owner, depth, stripe>>
    \/ Op(t).commit /\ UnlockMetadata(t, "body", "copy")
    \/ Op(t).pc = "copy" /\ Become(t, [Op(t) EXCEPT !.pc = "release"])
                         /\ UNCHANGED <<owner, depth, stripe>>

\* Faulty variant: nobody is woken.
ReadReleaseSilently(s) == stripe' = [stripe EXCEPT ![s].readers = @ - 1]

\* gem_stripe_read_release: the last reader wakes everybody.
ReadRelease(s) ==
    stripe' = [stripe EXCEPT ![s].readers = @ - 1,
                             ![s].sleepers = IF stripe[s].readers = 1 THEN {} ELSE @]

\* gem_stripe_write_release
WriteRelease(s) == stripe' = [stripe EXCEPT ![s].writer = FALSE, ![s].sleepers = {}]

\* Stripes are released in descending order.
ReleaseStripe(t) ==
    /\ Op(t).pc = "release"
    /\ \E s \in Op(t).held :
          /\ \A r \in Op(t).held : s >= r
          /\ IF s \in Op(t).writes THEN WriteRelease(s) ELSE ReadRelease(s)
          /\ Become(t, [Op(t) EXCEPT !.held = @ \ {s}])
    /\ UNCHANGED <<owner, depth>>

Released(t) ==
    /\ Op(t).pc = "release" /\ Op(t).held = {}
    /\ Become(t, [Op(t) EXCEPT !.pc = IF Op(t).commit THEN "unpin" ELSE "unlock"])
    /\ UNCHANGED <<owner, depth, stripe>>

\* The operation returns; its record is forgotten.
Return(t) ==
    /\ Op(t).pc = "unlock"
    /\ depth' = depth - 1
    /\ owner' = OwnerAfterUnlock
    /\ Become(t, Idle)
    /\ UNCHANGED stripe

Step(t) ==
    \/ LockMetadata(t, "metadata", "stripes")
    \/ ReadAcquire(t) \/ WriteAcquire(t) \/ Enter(t) \/ Leave(t)
    \/ ReleaseStripe(t) \/ Released(t)
    \/ LockMetadata(t, "unpin", "unlock")
    \/ Return(t)

Next == \E t \in Threads :
    \/ Step(t) \/ WakeSpuriously(t)
    \/ \E p \in Plans : Call(t, p)
    \/ \E p \in FaultPlans : Reenter(t, p)

\* Threads are scheduled fairly; spurious wake-ups are not promised.
Spec == Init /\ [][Next]_vars /\ \A t \in Threads : WF_vars(Step(t))

-----------------------------------------------------------------------------
(* Properties.                                                              *)

Holders(s) == {x \in Threads \X Levels : s \in ops[x[1]][x[2]].held}
WriteHolders(s) == {x \in Holders(s) : s \in ops[x[1]][x[2]].writes}

\* Every variable has its type.
TypeOK ==
    /\ owner \in Threads \cup {NoThread} /\ depth \in Nat
    /\ stripe \in [Stripes -> [readers : Nat, waiting : Nat, writer : BOOLEAN,
                               sleepers : SUBSET Threads]]
    /\ ops \in [Threads -> [Levels -> Operation]]

\* Who holds a stripe is exactly what its counters say: a writer is alone, and
\* the readers counter is the number of operations that hold it shared, so no
\* release underflows it and no store meets a concurrent access.
StripeExclusion ==
    \A s \in Stripes :
        /\ stripe[s].writer <=> WriteHolders(s) # {}
        /\ stripe[s].writer => Cardinality(Holders(s)) = 1 /\ stripe[s].readers = 0
        /\ stripe[s].readers = Cardinality(Holders(s) \ WriteHolders(s))

\* Whoever waits for a stripe holds the metadata lock, so at most one writer
\* is ever announced and everyone it waits for is past the metadata lock.
WaitersHoldMetadata ==
    \A t \in Threads, s \in Stripes :
        (t \in stripe[s].sleepers \/ Op(t).announced) => owner = t

\* A thread never waits for a stripe that it holds itself: the metadata lock
\* is recursive so that a synchronous protection fault may re-enter GEM.
NoSelfWait ==
    \A t \in Threads, s \in Stripes, k \in Levels :
        t \in stripe[s].sleepers => s \notin ops[t][k].held

\* Nobody keeps the metadata lock for ever: whatever its owner waits for is
\* held by a commit that finishes copying and releases without that lock.
MetadataIsReleased ==
    \A t \in Threads : (owner = t) ~> (owner # t)
=============================================================================
