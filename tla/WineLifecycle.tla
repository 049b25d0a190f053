---------------------------- MODULE WineLifecycle ----------------------------
(***************************************************************************)
(* Processes, threads and routing of src/gem/wine_bridge.c: host threads   *)
(* that create, run and destroy guest threads, prepare the routing of the  *)
(* process, register ARM64X images and invalidate code, all at once, under *)
(* threads_lock, each thread's run_lock (recursive except for i386         *)
(* threads) and each thread's runtime_lock.                                *)
(*                                                                         *)
(* A run is its lock protocol here: segments under the runtime lock, with  *)
(* boundary callbacks between them from which the host may call the bridge *)
(* again.  What a run computes is in WineRun.  images_lock guards single   *)
(* list operations and is taken under no other, so those are atomic steps. *)
(***************************************************************************)
EXTENDS Integers, Sequences, FiniteSets

CONSTANTS
    Host,           \* host threads
    Thread,         \* guest threads that may be created in one process
    NoHost,
    MaxCalls,       \* bound: bridge calls of a host inside each other's callbacks
    SelfDestroy     \* whether a callback may destroy the thread it runs on

ASSUME LifecycleAssumption ==
    /\ NoHost \notin Host /\ Host # {}
    /\ MaxCalls \in Nat \ {0} /\ SelfDestroy \in BOOLEAN

VARIABLES
    arm, x64, i386,     \* the *_routing_enabled flags
    images,             \* an ARM64X image is registered
    threads,            \* process->threads
    status,             \* each guest thread's storage
    kind,               \* i386_thread
    broker,             \* native_image_boundary is installed in its runtime
    threadsLock,        \* owner
    runtimeLock,        \* owner, per thread
    runLock,            \* owner and depth, per thread
    calls               \* per host, its bridge calls, innermost last

process == <<arm, x64, i386, images>>
objects == <<threads, status, kind, broker>>
vars == <<arm, x64, i386, images, threads, status, kind, broker, threadsLock, runtimeLock,
          runLock, calls>>

Unlocked == [owner |-> NoHost, depth |-> 0]

\* A call: the operation, the thread it is about or stands at, how far it is,
\* and the threads a walk of the list has left.
Operations == {"RUN", "CREATE", "DESTROY", "PREPARE", "INVALIDATE"}
CallRecord == [op : Operations, thread : SUBSET Thread,
               at : {"LOOP", "SEGMENT", "CALLBACK", "PUBLISH", "FREE", "STORE", "LOCK", "WALK"},
               todo : SUBSET Thread]

NewCall(op, ts, at) == [op |-> op, thread |-> ts, at |-> at, todo |-> {}]
Top(h) == calls[h][Len(calls[h])]
The(ts) == CHOOSE t \in ts : TRUE
At(h, op, at) == calls[h] # <<>> /\ Top(h).op = op /\ Top(h).at = at

\* A host may call the bridge when it is outside it or in a boundary callback.
MayCall(h) ==
    calls[h] = <<>> \/ (At(h, "RUN", "CALLBACK") /\ Len(calls[h]) < MaxCalls)

Push(h, call) == calls' = [calls EXCEPT ![h] = Append(@, call)]
Pop(h) == calls' = [calls EXCEPT ![h] = SubSeq(@, 1, Len(@) - 1)]
Update(h, call) == calls' = [calls EXCEPT ![h][Len(calls[h])] = call]
Quiet == \A h \in Host : calls[h] = <<>>

Init ==
    /\ arm = FALSE /\ x64 = FALSE /\ i386 = FALSE /\ images = FALSE
    /\ threads = {} /\ status = [t \in Thread |-> "NONE"]
    /\ kind = [t \in Thread |-> "ARM"] /\ broker = [t \in Thread |-> FALSE]
    /\ threadsLock = NoHost /\ runtimeLock = [t \in Thread |-> NoHost]
    /\ runLock = [t \in Thread |-> Unlocked]
    /\ calls = [h \in Host |-> <<>>]

-----------------------------------------------------------------------------
(* Routing.  x86-64 and i386 processes are prepared by their first thread   *)
(* before it starts another operation; images are registered at any time.   *)

\* gem_wine_process_prepare_x86_64; the whole body is under threads_lock.
PrepareX86_64(h) ==
    /\ Quiet /\ threadsLock = NoHost /\ ~arm /\ ~i386
    /\ x64' = TRUE
    /\ UNCHANGED <<arm, i386, images, objects, threadsLock, runtimeLock, runLock, calls>>

\* Faulty variant: the thread list is not looked at.
I386MayPrepareAlways == ~arm /\ ~x64

I386MayPrepare == threads = {} /\ ~arm /\ ~x64

\* gem_wine_process_prepare_i386.
PrepareI386(h) ==
    /\ Quiet /\ threadsLock = NoHost /\ I386MayPrepare
    /\ i386' = TRUE
    /\ UNCHANGED <<arm, x64, images, objects, threadsLock, runtimeLock, runLock, calls>>

\* gem_wine_process_register_arm64x_mapped, DEFER_ROUTING: the image only.
RegisterDeferred(h) ==
    /\ MayCall(h)
    /\ images' = TRUE
    /\ UNCHANGED <<arm, x64, i386, objects, threadsLock, runtimeLock, runLock, calls>>

\* gem_wine_process_prepare_arm64ec, alone or at the end of a registration:
\* the flags are tested and set without a lock, then the list is walked.
Prepare(h, register) ==
    /\ MayCall(h) /\ ~x64 /\ ~i386
    /\ images' = (images \/ register)
    /\ Push(h, NewCall("PREPARE", {}, "STORE"))
    /\ UNCHANGED <<arm, x64, i386, objects, threadsLock, runtimeLock, runLock>>

PrepareStore(h) ==
    /\ At(h, "PREPARE", "STORE")
    /\ arm' = TRUE
    /\ Update(h, [Top(h) EXCEPT !.at = "LOCK"])
    /\ UNCHANGED <<x64, i386, images, objects, threadsLock, runtimeLock, runLock>>

\* gem_wine_process_invalidate_code.
Invalidate(h) ==
    /\ MayCall(h)
    /\ Push(h, NewCall("INVALIDATE", {}, "LOCK"))
    /\ UNCHANGED <<process, objects, threadsLock, runtimeLock, runLock>>

\* Both take threads_lock, then each thread's runtime_lock in turn.
WalkStart(h) ==
    /\ calls[h] # <<>> /\ Top(h).at = "LOCK" /\ threadsLock = NoHost
    /\ threadsLock' = h
    /\ Update(h, [Top(h) EXCEPT !.at = "WALK", !.todo = threads])
    /\ UNCHANGED <<process, objects, runtimeLock, runLock>>

\* The thread's runtimes are invalidated, or get the broker; an i386 thread has
\* no ARM runtime to put it into, which ends the preparation.
WalkThread(h, t) ==
    /\ calls[h] # <<>> /\ Top(h).at = "WALK"
    /\ t \in Top(h).todo /\ runtimeLock[t] = NoHost
    /\ broker' = [broker EXCEPT ![t] = @ \/ (Top(h).op = "PREPARE" /\ kind[t] = "ARM")]
    /\ Update(h, [Top(h) EXCEPT !.todo = IF Top(h).op = "PREPARE" /\ kind[t] = "I386"
                                         THEN {} ELSE @ \ {t}])
    /\ UNCHANGED <<process, threads, status, kind, threadsLock, runtimeLock, runLock>>

WalkEnd(h) ==
    /\ calls[h] # <<>> /\ Top(h).at = "WALK" /\ Top(h).todo = {}
    /\ threadsLock' = NoHost
    /\ Pop(h)
    /\ UNCHANGED <<process, objects, runtimeLock, runLock>>

-----------------------------------------------------------------------------
(* Threads.                                                                 *)

\* gem_wine_thread_create and gem_wine_i386_thread_create test the process
\* first and build the thread outside the lock.
Create(h, t) ==
    /\ MayCall(h) /\ status[t] = "NONE"
    /\ status' = [status EXCEPT ![t] = "CREATING"]
    /\ kind' = [kind EXCEPT ![t] = IF i386 THEN "I386" ELSE "ARM"]
    /\ Push(h, NewCall("CREATE", {t}, "PUBLISH"))
    /\ UNCHANGED <<process, threads, broker, threadsLock, runtimeLock, runLock>>

\* Faulty variant: routing is not looked at again.
PublishedBrokerNone(t) == FALSE

\* A thread that joins an ARM64X process starts with the broker.
PublishedBroker(t) == arm /\ kind[t] = "ARM"

\* The rest of it, under threads_lock.
Publish(h) ==
    /\ At(h, "CREATE", "PUBLISH") /\ threadsLock = NoHost
    /\ LET t == The(Top(h).thread) IN
          /\ broker' = [broker EXCEPT ![t] = PublishedBroker(t)]
          /\ threads' = threads \cup {t}
          /\ status' = [status EXCEPT ![t] = "LIVE"]
    /\ Pop(h)
    /\ UNCHANGED <<process, kind, threadsLock, runtimeLock, runLock>>

\* Faulty variant: run_lock is not tried.
TryRunLockNever(h, t) == TRUE

\* pthread_mutex_trylock(&thread->run_lock).
TryRunLock(h, t) ==
    runLock[t].owner = NoHost \/ (runLock[t].owner = h /\ kind[t] = "ARM")

RunLocked(h, t) == [runLock EXCEPT ![t] = [owner |-> h, depth |-> @.depth + 1]]

RunUnlocked(t) ==
    [runLock EXCEPT ![t] = IF @.depth = 1 THEN Unlocked
                           ELSE [owner |-> @.owner, depth |-> @.depth - 1]]

\* gem_wine_thread_destroy up to the unlinking.
Destroy(h, t) ==
    /\ MayCall(h) /\ t \in threads /\ threadsLock = NoHost
    /\ SelfDestroy \/ \A i \in 1 .. Len(calls[h]) : calls[h][i].thread # {t}
    /\ TryRunLock(h, t)
    /\ threads' = threads \ {t}
    /\ runLock' = RunLocked(h, t)
    /\ Push(h, NewCall("DESTROY", {t}, "FREE"))
    /\ UNCHANGED <<process, status, kind, broker, threadsLock, runtimeLock>>

Free(h) ==
    /\ At(h, "DESTROY", "FREE")
    /\ LET t == The(Top(h).thread) IN
          /\ status' = [status EXCEPT ![t] = "FREED"]
          /\ runLock' = RunUnlocked(t)
    /\ Pop(h)
    /\ UNCHANGED <<process, threads, kind, broker, threadsLock, runtimeLock>>

\* gem_wine_thread_run or gem_wine_i386_thread_run.
Run(h, t) ==
    /\ MayCall(h) /\ t \in threads
    /\ TryRunLock(h, t)
    /\ runLock' = RunLocked(h, t)
    /\ Push(h, NewCall("RUN", {t}, "LOOP"))
    /\ UNCHANGED <<process, objects, threadsLock, runtimeLock>>

SegmentBegin(h) ==
    /\ At(h, "RUN", "LOOP")
    /\ LET t == The(Top(h).thread) IN
          /\ runtimeLock[t] = NoHost
          /\ runtimeLock' = [runtimeLock EXCEPT ![t] = h]
    /\ Update(h, [Top(h) EXCEPT !.at = "SEGMENT"])
    /\ UNCHANGED <<process, objects, threadsLock, runLock>>

\* Faulty variant: the runtime stays locked during the callback.
AfterSegmentLocked(h, t, at) ==
    IF at = "CALLBACK" THEN runtimeLock ELSE [runtimeLock EXCEPT ![t] = NoHost]

AfterSegment(h, t, at) == [runtimeLock EXCEPT ![t] = NoHost]

\* The next segment, or a callback.
SegmentEnd(h, at) ==
    /\ At(h, "RUN", "SEGMENT") /\ at \in {"LOOP", "CALLBACK"}
    /\ runtimeLock' = AfterSegment(h, The(Top(h).thread), at)
    /\ Update(h, [Top(h) EXCEPT !.at = at])
    /\ UNCHANGED <<process, objects, threadsLock, runLock>>

\* The callback resumes.
CallbackEnd(h) ==
    /\ At(h, "RUN", "CALLBACK")
    /\ Update(h, [Top(h) EXCEPT !.at = "LOOP"])
    /\ UNCHANGED <<process, objects, threadsLock, runtimeLock, runLock>>

\* The run is over: at the loop head or after a callback.
RunEnd(h) ==
    /\ At(h, "RUN", "LOOP") \/ At(h, "RUN", "CALLBACK")
    /\ runLock' = RunUnlocked(The(Top(h).thread))
    /\ Pop(h)
    /\ UNCHANGED <<process, objects, threadsLock, runtimeLock>>

\* gem_wine_process_destroy of a process without threads and without calls in
\* flight, and gem_wine_process_create of the next one.
Recreate ==
    /\ Quiet /\ threadsLock = NoHost /\ threads = {}
    /\ arm' = FALSE /\ x64' = FALSE /\ i386' = FALSE /\ images' = FALSE
    /\ status' = [t \in Thread |-> "NONE"]
    /\ kind' = [t \in Thread |-> "ARM"] /\ broker' = [t \in Thread |-> FALSE]
    /\ UNCHANGED <<threads, threadsLock, runtimeLock, runLock, calls>>

-----------------------------------------------------------------------------
Next ==
    \/ \E h \in Host :
          \/ PrepareX86_64(h) \/ PrepareI386(h) \/ RegisterDeferred(h)
          \/ \E register \in BOOLEAN : Prepare(h, register)
          \/ PrepareStore(h) \/ Invalidate(h) \/ WalkStart(h) \/ WalkEnd(h)
          \/ Publish(h) \/ Free(h)
          \/ SegmentBegin(h) \/ CallbackEnd(h) \/ RunEnd(h)
          \/ \E at \in {"LOOP", "CALLBACK"} : SegmentEnd(h, at)
          \/ \E t \in Thread : WalkThread(h, t) \/ Create(h, t) \/ Destroy(h, t) \/ Run(h, t)
    \/ Recreate

Spec == Init /\ [][Next]_vars

-----------------------------------------------------------------------------
(* Properties.                                                              *)

TypeOK ==
    /\ arm \in BOOLEAN /\ x64 \in BOOLEAN /\ i386 \in BOOLEAN /\ images \in BOOLEAN
    /\ threads \subseteq Thread
    /\ status \in [Thread -> {"NONE", "CREATING", "LIVE", "FREED"}]
    /\ kind \in [Thread -> {"ARM", "I386"}] /\ broker \in [Thread -> BOOLEAN]
    /\ threadsLock \in Host \cup {NoHost} /\ runtimeLock \in [Thread -> Host \cup {NoHost}]
    /\ \A t \in Thread : /\ runLock[t].owner \in Host \cup {NoHost}
                         /\ runLock[t].depth \in 0 .. MaxCalls
                         /\ (runLock[t].owner = NoHost) = (runLock[t].depth = 0)
    /\ \A h \in Host : /\ Len(calls[h]) <= MaxCalls
                       /\ \A i \in 1 .. Len(calls[h]) : calls[h][i] \in CallRecord

\* The storage of a guest thread outlives every call that uses it: a run, and
\* a walk of the thread list that has the thread ahead of it.
UsedThreadsAreAlive ==
    \A h \in Host : \A i \in 1 .. Len(calls[h]) :
        LET call == calls[h][i]
        IN /\ call.op = "RUN" => status[The(call.thread)] = "LIVE"
           /\ \A t \in call.todo : status[t] = "LIVE" /\ t \in threads

\* Once a preparation has finished, no thread of an ARM64X process is without
\* the broker: neither one that was running nor one being created meanwhile
\* was missed.
BrokerReachesEveryThread ==
    arm /\ (\A h \in Host : \A i \in 1 .. Len(calls[h]) : calls[h][i].op # "PREPARE")
        => \A t \in threads : broker[t]

\* One routing per process, and in an i386 process nothing but i386 threads.
RoutingIsOne ==
    /\ Cardinality({f \in {"arm", "x64", "i386"} :
                      CASE f = "arm" -> arm [] f = "x64" -> x64 [] f = "i386" -> i386}) <= 1
    /\ \A t \in threads : (kind[t] = "I386") = i386

\* The host h waits for, if it waits for a lock.
WaitsFor(h) ==
    IF calls[h] = <<>> THEN {}
    ELSE ({IF Top(h).at \in {"LOCK", "PUBLISH"} THEN threadsLock ELSE NoHost}
          \cup {runtimeLock[t] : t \in (IF At(h, "RUN", "LOOP") THEN Top(h).thread
                                        ELSE Top(h).todo)}) \ {NoHost}

\* No host waits for itself or for a host that waits for it: threads_lock is
\* never requested while a runtime is locked, and callbacks hold neither.
NoLockCycle ==
    \A h \in Host : /\ h \notin WaitsFor(h)
                    /\ \A g \in WaitsFor(h) : h \notin WaitsFor(g)
=============================================================================
