---------------------------- MODULE AtomicMemory ----------------------------
(***************************************************************************)
(* What guest memory promises to the threads that use optimistic           *)
(* transactions.  A page is a view of storage, which other pages may view  *)
(* as well.  A transaction sees pages one at a time and keeps what it saw. *)
(* Its commit is a single step: everything it has seen is still what       *)
(* memory holds, and all its pages are stored at once.  A transaction that *)
(* ends as committed saw what memory holds at that moment.                 *)
(*                                                                         *)
(* The clock dates stores: bytes that nobody may write behind the memory's *)
(* back, and the mapping of a page, do not change while it stands still.   *)
(***************************************************************************)
EXTENDS Naturals

CONSTANTS
    Threads,
    Volatile        \* storage whose owner writes it at any time

VARIABLES
    clock,
    storage,        \* what each accessible page is a view of
    view,           \* the bytes a reader of each accessible page gets
    seen,           \* per thread: the bytes its transaction has seen or stored, by page
    state           \* per thread: where its transaction is

vars == <<clock, storage, view, seen, state>>
memory == <<clock, storage, view>>

\* Pages of the same storage hold the same bytes.
Coherent ==
    \A p, q \in DOMAIN storage : storage[p] = storage[q] => view[p] = view[q]

Init ==
    /\ Coherent
    /\ \A t \in Threads : state[t] = "idle" /\ DOMAIN seen[t] = {}

\* Only thread t does something.
Of(t) == \A u \in Threads \ {t} : seen'[u] = seen[u] /\ state'[u] = state[u]

Begin(t) ==
    /\ state[t] = "idle" /\ state'[t] = "open" /\ seen'[t] = seen[t]
    /\ Of(t) /\ UNCHANGED memory

\* t sees page a.
See(t, a) ==
    /\ state[t] = "open" /\ state'[t] = "open" /\ a \in DOMAIN storage
    /\ DOMAIN seen'[t] = DOMAIN seen[t] \cup {a}
    /\ \A p \in DOMAIN seen'[t] : seen'[t][p] = IF p = a THEN view[a] ELSE seen[t][p]
    /\ Of(t) /\ UNCHANGED memory

\* A guard on a page is taken off and what was seen of the page dropped.
Forget(t) ==
    /\ state[t] = "open" /\ state'[t] = "open"
    /\ DOMAIN seen'[t] \subseteq DOMAIN seen[t]
    /\ \A p \in DOMAIN seen'[t] : seen'[t][p] = seen[t][p]
    /\ clock' >= clock
    /\ Of(t) /\ UNCHANGED <<storage, view>>

\* Everything t has seen is what memory holds.
UpToDate(t) == \A a \in DOMAIN seen[t] : a \in DOMAIN storage /\ view[a] = seen[t][a]

\* A page t stores to may first get storage of its own, with the same bytes.
Separated(W) ==
    /\ DOMAIN storage' = DOMAIN storage
    /\ \A p \in DOMAIN storage : storage'[p] # storage[p] =>
          p \in W /\ \A q \in DOMAIN storage \ {p} : storage'[p] \notin {storage[q], storage'[q]}

\* t stores the pages W, which it now knows to hold what it stored; of two
\* pages of one storage the last decides.
Commit(t, W) ==
    /\ state[t] = "open" /\ state'[t] = "open" /\ UpToDate(t)
    /\ W \subseteq DOMAIN seen[t] /\ DOMAIN seen'[t] = DOMAIN seen[t]
    /\ \A a \in DOMAIN seen[t] \ W : seen'[t][a] = seen[t][a]
    /\ clock' > clock /\ Separated(W)
    /\ \A p \in DOMAIN storage :
          LET stored == {a \in W : storage'[a] = storage'[p]}
          IN  \/ stored = {} /\ view'[p] = view[p]
              \/ \E a \in stored : (\A b \in stored : b <= a) /\ view'[p] = seen'[t][a]
    /\ Of(t)

\* The transaction is over; it counts only if what it saw is up to date.
Resolve(t) ==
    /\ state[t] = "open" /\ seen'[t] = seen[t]
    /\ state'[t] = "conflicted" \/ (state'[t] = "committed" /\ UpToDate(t))
    /\ Of(t) /\ UNCHANGED memory

End(t) ==
    /\ state[t] # "idle" /\ state'[t] = "idle" /\ DOMAIN seen'[t] = {}
    /\ Of(t) /\ UNCHANGED memory

\* Anything else that is done to memory: what transactions have seen stays as it
\* is, and without a tick of the clock pages only disappear.
Foreign ==
    /\ clock' >= clock /\ Coherent'
    /\ clock' = clock =>
          \A a \in DOMAIN storage' :
             /\ a \in DOMAIN storage /\ storage'[a] = storage[a]
             /\ view'[a] = view[a] \/ storage[a] \in Volatile
    /\ \A t \in Threads : seen'[t] = seen[t] /\ state'[t] = state[t]

Next ==
    \/ \E t \in Threads :
          \/ Begin(t) \/ Forget(t) \/ Resolve(t) \/ End(t)
          \/ \E a \in DOMAIN storage : See(t, a)
          \/ \E W \in SUBSET DOMAIN seen[t] : Commit(t, W)
    \/ Foreign

Spec == Init /\ [][Next]_vars
=============================================================================
