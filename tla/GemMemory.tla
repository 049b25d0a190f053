------------------------------ MODULE GemMemory ------------------------------
(***************************************************************************)
(* GEM's logical guest memory (src/gem/memory.c): a sparse table of 4 KiB  *)
(* pages, the reservations they belong to, and the reference-counted       *)
(* backings that hold their bytes.                                         *)
(*                                                                         *)
(* Addresses are page numbers, so a misaligned argument cannot be written  *)
(* down; every public operation holds the metadata lock from validation to *)
(* publication and is therefore one action here.  The optimistic           *)
(* transactions, whose commit copies bytes after it has released that      *)
(* lock, are in GemTransaction.  An operation that fails validation        *)
(* changes nothing and has no action; an allocation failure is visible     *)
(* only through the generations it burns (OutOfMemory).                    *)
(***************************************************************************)
EXTENDS Integers, FiniteSets

CONSTANTS
    Top,             \* number of pages in the 64-bit address space
    KuserShared,     \* GEM_KUSER_SHARED_DATA_ADDRESS
    KuserCanonical,  \* GEM_KUSER_CANONICAL_ADDRESS
    SearchBase,      \* 0x100000000: first automatic and lowest identity page
    MaxReservation,  \* GEM_MEMORY_MAX_PAGES
    Backings,        \* addresses malloc can return for a struct backing
    NoBacking,       \* NULL
    HostPages,       \* caller-owned host pages, by page number
    NoHost,          \* marks a backing that GEM allocated itself
    VolatileHosts,   \* host pages their owner writes behind GEM's back
    Contents, Zero,  \* what a page can hold; what calloc returns
    Garbage,         \* values found in uninitialised malloc storage
    Ranges,          \* the <<page, pages>> arguments callers pass
    Protections,     \* the protection arguments callers pass
    MaxGeneration    \* bound on next_generation

Address == 0 .. Top - 1
Span(a, n) == a .. a + n - 1

ExecuteAccess == {"EXECUTE", "EXECUTE_READ", "EXECUTE_READWRITE",
                  "EXECUTE_WRITECOPY"}
WriteCopyAccess == {"WRITECOPY", "EXECUTE_WRITECOPY"}
WriteAccess == {"READWRITE", "EXECUTE_READWRITE"} \cup WriteCopyAccess
\* "NONE" is the zero a reserved page carries until its first commit.
Access == {"NONE", "NOACCESS", "READONLY"} \cup WriteAccess \cup ExecuteAccess
Protection == [access : Access, guard : BOOLEAN]

ASSUME AddressAssumption ==
    /\ Top \in Nat /\ MaxReservation \in Nat /\ MaxGeneration \in Nat
    /\ {KuserShared, KuserCanonical, SearchBase} \subseteq 1 .. Top - 2
    /\ KuserShared # KuserCanonical
    /\ \A r \in Ranges : r[1] \in Nat /\ r[2] \in Nat
ASSUME BackingAssumption ==
    /\ NoBacking \notin Backings /\ Backings # {}
    /\ HostPages \subseteq Nat \ {0} /\ NoHost \notin HostPages
    /\ VolatileHosts \subseteq HostPages
    /\ Zero \in Contents /\ Garbage \subseteq Nat /\ Garbage # {}
    /\ Protections \subseteq Protection

VARIABLES
    alive,     \* between gem_memory_create and gem_memory_destroy
    pages,     \* struct page by address; its domain is what at() finds
    backings,  \* live struct backing by identity
    host,      \* bytes of the caller-owned host pages
    nextGen    \* next_generation

memoryVars == <<alive, pages, backings, host, nextGen>>

Page == [base : Nat, size : Nat, backing : Backings \cup {NoBacking},
         protection : Protection, generation : Nat]
Backing == [refs : Nat, generation : Nat, host : HostPages \cup {NoHost},
            data : Contents]

-----------------------------------------------------------------------------
(* Validation helpers.                                                      *)

\* Faulty variant: the end of the range may wrap around.
RangeOkWraps(a, n) == n > 0

\* range_ok: non-empty and ending at or below UINT64_MAX, so the last page of
\* the address space is never usable.
RangeOk(a, n) == n > 0 /\ a + n < Top

\* prot_ok
ProtOk(p) == p.access # "NONE" /\ ~(p.guard /\ p.access = "NOACCESS")

\* check(m, a, n, false)
Reserved(a, n) == RangeOk(a, n) /\ Span(a, n) \subseteq DOMAIN pages

\* check(m, a, n, true)
Committed(a, n) ==
    Reserved(a, n) /\ \A p \in Span(a, n) : pages[p].backing # NoBacking

Unmapped(a, n) == Span(a, n) \cap DOMAIN pages = {}

\* allowed(p, w, x); mode is "read", "write" or "fetch"
Allowed(p, mode) ==
    CASE mode = "fetch" -> p.access \in ExecuteAccess
      [] mode = "write" -> p.access \in WriteAccess
      [] mode = "read"  -> p.access \notin {"NOACCESS", "EXECUTE"}

External(b) == backings[b].host # NoHost
Content(b) == IF External(b) THEN host[backings[b].host] ELSE backings[b].data

-----------------------------------------------------------------------------
(* Backing life cycle.                                                      *)

\* Distinct unused identities for the pages in S.
Allocations(S) ==
    {f \in [S -> Backings \ DOMAIN backings] :
        \A p, q \in S : f[p] = f[q] => p = q}

\* new_backing: zero bytes or the caller's page, one reference, and a
\* generation that is whatever the storage held before.
NewBackings(f, S, h, junk) ==
    [b \in {f[p] : p \in S} |->
        LET p == CHOOSE q \in S : f[q] = b
        IN  [refs |-> 1, generation |-> junk[p], host |-> h[p], data |-> Zero]]

\* Faulty variant: one reference per backing instead of one per page.
DropPagesOnce(S) ==
    LET left(b) == backings[b].refs
                     - (IF \E p \in S : pages[p].backing = b THEN 1 ELSE 0)
    IN  [b \in {c \in DOMAIN backings : left(c) > 0} |->
            [backings[b] EXCEPT !.refs = left(b)]]

\* drop the references held by the pages in S, freeing what reaches zero.
DropPages(S) ==
    LET left(b) == backings[b].refs
                     - Cardinality({p \in S : pages[p].backing = b})
    IN  [b \in {c \in DOMAIN backings : left(c) > 0} |->
            [backings[b] EXCEPT !.refs = left(b)]]

Merge(f, g) ==
    [x \in DOMAIN f \cup DOMAIN g |-> IF x \in DOMAIN g THEN g[x] ELSE f[x]]

\* The pages of a fresh reservation <<a, n>>, touched in ascending order.
FreshPages(a, n, backing, prot, gen) ==
    [p \in Span(a, n) |->
        [base |-> a, size |-> n, backing |-> backing[p], protection |-> prot,
         generation |-> gen + (p - a) + 1]]

Bounded(k) == nextGen + k <= MaxGeneration

-----------------------------------------------------------------------------
(* Reservations.                                                            *)

NoProtection == [access |-> "NONE", guard |-> FALSE]

\* The automatic search stops at the first unmapped page, whether or not the
\* pages after it are free, or when it runs into the end of the space.
SearchResult(n) ==
    {b \in SearchBase .. Top :
        /\ b \notin DOMAIN pages \/ b + n + 1 >= Top
        /\ \A c \in SearchBase .. b - 1 : c \in DOMAIN pages /\ c + n + 1 < Top}

ReserveAt(a, n) == IF a = 0 THEN SearchResult(n) ELSE {a}
CanReserve(b, n) == n <= MaxReservation /\ RangeOk(b, n) /\ Unmapped(b, n)

\* A failed calloc after k touched pages: the pages are freed unpublished.
OutOfMemory(k) ==
    /\ Bounded(k)
    /\ nextGen' = nextGen + k
    /\ UNCHANGED <<alive, pages, backings, host>>

Reserve(a, n) == \E b \in ReserveAt(a, n) :
    /\ CanReserve(b, n)
    /\ \/ /\ Bounded(n)
          /\ pages' = Merge(pages, FreshPages(b, n, [p \in Span(b, n) |-> NoBacking],
                                              NoProtection, nextGen))
          /\ nextGen' = nextGen + n
          /\ UNCHANGED <<alive, backings, host>>
       \/ \E k \in 0 .. n - 1 : OutOfMemory(k)

\* Faulty variant: the size of the reservation is not compared.
ReleasePart(a, n) ==
    /\ Reserved(a, n)
    /\ pages[a].base = a
    /\ backings' = DropPages(Span(a, n))
    /\ pages' = [p \in DOMAIN pages \ Span(a, n) |-> pages[p]]
    /\ UNCHANGED <<alive, host, nextGen>>

\* Only a whole reservation can be released.
Release(a, n) ==
    /\ Reserved(a, n)
    /\ pages[a].base = a /\ pages[a].size = n
    /\ backings' = DropPages(Span(a, n))
    /\ pages' = [p \in DOMAIN pages \ Span(a, n) |-> pages[p]]
    /\ UNCHANGED <<alive, host, nextGen>>

\* Part of one reservation goes away; what lies left and right of it become
\* reservations of their own.  The surviving pages are rewritten without a
\* NULL check (ReservationsWellFormed is what makes that safe) or a touch.
Unmap(a, n) ==
    LET base == pages[a].base
        end  == base + pages[a].size
        Left == base .. a - 1
        Right == a + n .. end - 1
    IN
    /\ Reserved(a, n)
    /\ a >= base /\ a + n <= end
    /\ \A p \in Span(a, n) : pages[p].base = base /\ pages[p].size = pages[a].size
    /\ backings' = DropPages(Span(a, n))
    /\ pages' = [p \in DOMAIN pages \ Span(a, n) |->
                    IF p \in Left THEN [pages[p] EXCEPT !.size = a - base]
                    ELSE IF p \in Right
                    THEN [pages[p] EXCEPT !.base = a + n, !.size = end - (a + n)]
                    ELSE pages[p]]
    /\ UNCHANGED <<alive, host, nextGen>>

-----------------------------------------------------------------------------
(* Commitment and protection.                                               *)

\* Faulty variant: the pages are not touched.
WithBackingsUntouched(a, n, f, prot, gen) ==
    [p \in DOMAIN pages |->
        IF p \in Span(a, n)
        THEN [pages[p] EXCEPT !.backing = IF p \in DOMAIN f THEN f[p] ELSE @,
                              !.protection = prot]
        ELSE pages[p]]

\* The pages of <<a, n>> given backings and a protection, in ascending order.
WithBackings(a, n, f, prot, gen) ==
    [p \in DOMAIN pages |->
        IF p \in Span(a, n)
        THEN [pages[p] EXCEPT !.backing = IF p \in DOMAIN f THEN f[p] ELSE @,
                              !.protection = prot,
                              !.generation = gen + (p - a) + 1]
        ELSE pages[p]]

\* Pages that have a backing keep it and its bytes.
Commit(a, n, prot) ==
    /\ Reserved(a, n) /\ ProtOk(prot) /\ Bounded(n)
    /\ LET S == {p \in Span(a, n) : pages[p].backing = NoBacking} IN
       \E f \in Allocations(S), junk \in [S -> Garbage] :
          /\ backings' = Merge(backings,
                               NewBackings(f, S, [p \in S |-> NoHost], junk))
          /\ pages' = WithBackings(a, n, f, prot, nextGen)
    /\ nextGen' = nextGen + n
    /\ UNCHANGED <<alive, host>>

Decommit(a, n) ==
    /\ Reserved(a, n) /\ Bounded(n)
    /\ backings' = DropPages(Span(a, n))
    /\ pages' = WithBackings(a, n, [p \in Span(a, n) |-> NoBacking],
                             [access |-> "NOACCESS", guard |-> FALSE], nextGen)
    /\ nextGen' = nextGen + n
    /\ UNCHANGED <<alive, host>>

Protect(a, n, prot) ==
    /\ Committed(a, n) /\ ProtOk(prot) /\ Bounded(n)
    /\ pages' = WithBackings(a, n, <<>>, prot, nextGen)
    /\ nextGen' = nextGen + n
    /\ UNCHANGED <<alive, backings, host>>

\* A second view of the committed pages <<s, n>> at a, sharing their backings.
Alias(a, s, n, prot) ==
    /\ RangeOk(a, n) /\ ProtOk(prot) /\ Committed(s, n) /\ Unmapped(a, n)
    /\ \/ /\ Bounded(n)
          /\ pages' = Merge(pages, FreshPages(a, n,
                               [p \in Span(a, n) |-> pages[s + (p - a)].backing],
                               prot, nextGen))
          /\ backings' = [b \in DOMAIN backings |->
                [backings[b] EXCEPT !.refs =
                    @ + Cardinality({p \in Span(s, n) : pages[p].backing = b})]]
          /\ nextGen' = nextGen + n
          /\ UNCHANGED <<alive, host>>
       \/ \E k \in 0 .. n - 1 : OutOfMemory(k)

-----------------------------------------------------------------------------
(* Caller-owned storage.                                                    *)

\* A new reservation whose page p is the host page p itself.  When the k-th
\* backing cannot be allocated the reservation is released again.
MapIdentity(a, n, prot) ==
    /\ a >= SearchBase /\ Span(a, n) \subseteq HostPages
    /\ ProtOk(prot) /\ CanReserve(a, n)
    /\ \/ /\ Bounded(2 * n)
          /\ \E f \in Allocations(Span(a, n)), junk \in [Span(a, n) -> Garbage] :
                /\ backings' = Merge(backings,
                       NewBackings(f, Span(a, n), [p \in Span(a, n) |-> p], junk))
                /\ pages' = Merge(pages, FreshPages(a, n, f, prot, nextGen + n))
          /\ nextGen' = nextGen + 2 * n
          /\ UNCHANGED <<alive, host>>
       \/ \E k \in 0 .. 2 * n - 1 : OutOfMemory(k)

\* commit_external_locked: gem_memory_commit_external, and with h = a (which
\* must not be below SearchBase) gem_memory_commit_identity.
CommitExternal(a, h, n, prot) ==
    /\ Span(h, n) \subseteq HostPages
    /\ Reserved(a, n) /\ ProtOk(prot) /\ Bounded(n)
    /\ \A p \in Span(a, n) :
          pages[p].backing # NoBacking =>
              backings[pages[p].backing].host = h + (p - a)
    /\ LET S == {p \in Span(a, n) : pages[p].backing = NoBacking} IN
       \E f \in Allocations(S), junk \in [S -> Garbage] :
          /\ backings' = Merge(backings,
                  NewBackings(f, S, [p \in S |-> h + (p - a)], junk))
          /\ pages' = WithBackings(a, n, f, prot, nextGen)
    /\ nextGen' = nextGen + n
    /\ UNCHANGED <<alive, host>>

\* Both KUSER views are moved to one host page; the backing they shared loses
\* both of their references.
BindKuser(h) ==
    LET old == pages[KuserCanonical].backing IN
    /\ {KuserCanonical, KuserShared} \subseteq DOMAIN pages
    /\ old # NoBacking /\ old = pages[KuserShared].backing
    /\ Bounded(2)
    /\ \E external \in Backings \ DOMAIN backings, junk \in Garbage :
          /\ backings' = Merge(DropPages({KuserCanonical, KuserShared}),
                               [b \in {external} |->
                                  [refs |-> 2, generation |-> junk,
                                   host |-> h, data |-> Zero]])
          /\ pages' = [pages EXCEPT
                 ![KuserCanonical].backing = external,
                 ![KuserCanonical].generation = nextGen + 1,
                 ![KuserShared].backing = external,
                 ![KuserShared].generation = nextGen + 2]
    /\ nextGen' = nextGen + 2
    /\ UNCHANGED <<alive, host>>

\* The owner of a host page (Wine, for KUSER) stores to it without any GEM lock.
HostWrite(h, v) ==
    /\ h \in VolatileHosts
    /\ host' = [host EXCEPT ![h] = v]
    /\ UNCHANGED <<alive, pages, backings, nextGen>>

-----------------------------------------------------------------------------
(* Access: access_memory_locked.                                            *)

Accessible(a, n, mode) ==
    /\ Committed(a, n)
    /\ \A p \in Span(a, n) : Allowed(pages[p].protection, mode)

Guarded(a, n) == {p \in Span(a, n) : pages[p].protection.guard}

\* The first guard page of a fully validated range is consumed; no byte moves.
ConsumeGuard(a, n, mode) ==
    /\ Accessible(a, n, mode) /\ Bounded(1)
    /\ \E g \in Guarded(a, n) :
          /\ \A q \in Guarded(a, n) : g <= q
          /\ pages' = [pages EXCEPT ![g].protection.guard = FALSE,
                                    ![g].generation = nextGen + 1]
    /\ nextGen' = nextGen + 1
    /\ UNCHANGED <<alive, backings, host>>

\* What a write-copy page becomes once it has been detached.
Detached(access) ==
    CASE access = "WRITECOPY" -> "READWRITE"
      [] access = "EXECUTE_WRITECOPY" -> "EXECUTE_READWRITE"
      [] OTHER -> access

\* A read or fetch copies out; a write-copy view of caller-owned storage
\* becomes writable on the way, and that is not stamped.
ReadOrFetch(a, n, mode) ==
    /\ Accessible(a, n, mode) /\ Guarded(a, n) = {}
    /\ pages' = [p \in DOMAIN pages |->
                    IF p \in Span(a, n) /\ External(pages[p].backing)
                    THEN [pages[p] EXCEPT !.protection.access = Detached(@)]
                    ELSE pages[p]]
    /\ UNCHANGED <<alive, backings, host, nextGen>>

\* Faulty variant: write-copy pages are written in place.
CopyOnWriteNever(a, n) == {}

\* Pages of the range that a write gives a private copy of GEM's own storage.
CopyOnWrite(a, n) ==
    {p \in Span(a, n) : /\ pages[p].protection.access \in WriteCopyAccess
                        /\ ~External(pages[p].backing)}

\* For every owner among owner[S], the last page of S that has it.
LastPages(owner, S) ==
    {l \in [{owner[p] : p \in S} -> S] :
        \A p \in S : owner[l[owner[p]]] = owner[p] /\ p <= l[owner[p]]}

\* Faulty variant: the bytes change, the content generation does not.
StoredUnstamped(backing, c, gen) ==
    [backing EXCEPT !.data = IF backing.host = NoHost THEN c ELSE @]

\* A backing after the bytes c are stored in it and it is stamped; the bytes of
\* caller-owned storage are in host.
Stored(backing, c, gen) ==
    [backing EXCEPT !.generation = gen,
                    !.data = IF backing.host = NoHost THEN c ELSE @]

\* v[p] is what the write leaves in page p.  The copies are published and
\* touched first, then each page's bytes, backing stamp and page stamp, in
\* ascending order: of two pages with one backing the last one decides.
Write(a, n, v) ==
    /\ Accessible(a, n, "write") /\ Guarded(a, n) = {}
    /\ LET C == CopyOnWrite(a, n)
           E == {p \in Span(a, n) : External(pages[p].backing)}
           gen == nextGen + Cardinality(C)
       IN
       /\ Bounded(Cardinality(C) + 2 * n)
       /\ \E f \in Allocations(C) :
          LET target == [p \in Span(a, n) |->
                            IF p \in C THEN f[p] ELSE pages[p].backing]
              before == Merge(DropPages(C), NewBackings(f, C, [p \in C |-> NoHost],
                                                        [p \in C |-> 0]))
          IN
          /\ \E last \in LastPages(target, Span(a, n)) :
                backings' =
                   [b \in DOMAIN before |->
                      IF b \in DOMAIN last
                      THEN Stored(before[b], v[last[b]], gen + 2 * (last[b] - a) + 1)
                      ELSE before[b]]
          /\ \E last \in LastPages([p \in E |-> backings[pages[p].backing].host], E) :
                host' = [h \in HostPages |->
                           IF h \in DOMAIN last THEN v[last[h]] ELSE host[h]]
          /\ pages' =
                [p \in DOMAIN pages |->
                   IF p \in Span(a, n)
                   THEN [pages[p] EXCEPT
                            !.backing = target[p],
                            !.protection.access = Detached(@),
                            !.generation = gen + 2 * (p - a) + 2]
                   ELSE pages[p]]
       /\ nextGen' = gen + 2 * n
    /\ UNCHANGED alive

-----------------------------------------------------------------------------
(* Life cycle.                                                              *)

\* gem_memory_create: reserve and commit the canonical KUSER page, then alias
\* it at the low address.
Init ==
    /\ alive = TRUE
    /\ \E b \in Backings, junk \in Garbage :
          /\ backings = [c \in {b} |-> [refs |-> 2, generation |-> junk,
                                        host |-> NoHost, data |-> Zero]]
          /\ pages = [p \in {KuserCanonical, KuserShared} |->
                        [base |-> p, size |-> 1, backing |-> b,
                         protection |-> [access |-> "READWRITE", guard |-> FALSE],
                         generation |-> IF p = KuserCanonical THEN 2 ELSE 3]]
    /\ host = [h \in HostPages |-> Zero]
    /\ nextGen = 3

\* The caller has made sure that no operation is active or will start.
Destroy ==
    /\ alive' = FALSE
    /\ backings' = DropPages(DOMAIN pages)
    /\ pages' = <<>>
    /\ UNCHANGED <<host, nextGen>>

Operation ==
    \/ \E r \in Ranges :
          \/ Reserve(r[1], r[2])
          \/ Release(r[1], r[2])
          \/ Unmap(r[1], r[2])
          \/ Decommit(r[1], r[2])
          \/ \E prot \in Protections :
                \/ Commit(r[1], r[2], prot)
                \/ Protect(r[1], r[2], prot)
                \/ \E s \in Address : Alias(r[1], s, r[2], prot)
                \/ MapIdentity(r[1], r[2], prot)
                \/ \E h \in HostPages : CommitExternal(r[1], h, r[2], prot)
          \/ \E mode \in {"read", "write", "fetch"} : ConsumeGuard(r[1], r[2], mode)
          \/ \E mode \in {"read", "fetch"} : ReadOrFetch(r[1], r[2], mode)
          \/ \E v \in [Span(r[1], r[2]) -> Contents] : Write(r[1], r[2], v)
    \/ \E h \in HostPages : BindKuser(h)
    \/ \E h \in HostPages, v \in Contents : HostWrite(h, v)
    \/ Destroy

Next == alive /\ Operation

Spec == Init /\ [][Next]_memoryVars
-----------------------------------------------------------------------------
(* Properties.                                                              *)

\* Every variable has its type: in particular no access leaves a page outside
\* the address space, a negative reference count or an undefined protection.
TypeOK ==
    /\ alive \in BOOLEAN
    /\ DOMAIN pages \subseteq Address
    /\ \A p \in DOMAIN pages : pages[p] \in Page
    /\ DOMAIN backings \subseteq Backings
    /\ \A b \in DOMAIN backings : backings[b] \in Backing
    /\ host \in [HostPages -> Contents]
    /\ nextGen \in Nat

\* A page lies inside the reservation it names, and every page of that
\* reservation is in the table and names the same reservation.  unmap_locked
\* rewrites the pages left and right of the hole through at() without a NULL
\* check, and release_locked trusts the first page of the range.
ReservationsWellFormed ==
    \A p \in DOMAIN pages :
        /\ p \in Span(pages[p].base, pages[p].size)
        /\ \A q \in Span(pages[p].base, pages[p].size) :
              /\ q \in DOMAIN pages
              /\ pages[q].base = pages[p].base
              /\ pages[q].size = pages[p].size

\* A backing's count is exactly the number of pages that point to it, it is
\* freed with the last of them, and no page points to freed storage.
RefsExact ==
    /\ \A b \in DOMAIN backings :
          /\ backings[b].refs > 0
          /\ backings[b].refs
                = Cardinality({p \in DOMAIN pages : pages[p].backing = b})
    /\ \A p \in DOMAIN pages :
          pages[p].backing # NoBacking => pages[p].backing \in DOMAIN backings

\* What a transaction records about a page and compares again when it commits.
Stamp(p) ==
    <<pages[p].backing, pages[p].generation, pages[p].protection,
      backings[pages[p].backing].generation>>

\* The bytes seen through a page of GEM-owned storage never change without
\* its stamp changing, whichever alias they were stored through.
ContentChangesAreStamped ==
    [][\A p \in DOMAIN pages \cap DOMAIN pages' :
          /\ pages[p].backing # NoBacking /\ pages'[p].backing # NoBacking
          /\ ~External(pages[p].backing)
          /\ Stamp(p)' = Stamp(p)
          => Content(pages[p].backing)' = Content(pages[p].backing)]_memoryVars

\* A page that appears, changes backing, loses or gains its guard or changes
\* protection gets a generation no page has had before, so a recorded
\* generation cannot match a later mapping of the same address.  The unstamped
\* upgrade of a write-copy view of caller-owned storage is the one exception.
RemapIsFresh ==
    [][\A p \in DOMAIN pages' :
          \/ pages'[p].generation > nextGen
          \/ /\ p \in DOMAIN pages
             /\ pages'[p].generation = pages[p].generation
             /\ pages'[p].backing = pages[p].backing
             /\ \/ pages'[p].protection = pages[p].protection
                \/ /\ External(pages[p].backing)
                   /\ pages'[p].protection.access
                        = Detached(pages[p].protection.access)
                   /\ pages'[p].protection.guard = pages[p].protection.guard]_memoryVars

\* The step stores through p in place: p keeps its backing, is stamped anew,
\* and its protection before the step lets a store reach shared bytes.
StoredInPlace(p) ==
    /\ p \in DOMAIN pages'
    /\ pages'[p].backing = pages[p].backing
    /\ pages'[p].generation # pages[p].generation
    /\ ~pages[p].protection.guard
    /\ pages[p].protection.access \in WriteAccess \ WriteCopyAccess

\* Bytes in GEM-owned storage change only by a store through a page that is
\* writable in place: a write-copy, guarded, read-only or execute-only view
\* never alters what the other aliases of its backing see.
WriteCopyIsolation ==
    [][\A b \in DOMAIN backings \cap DOMAIN backings' :
          ~External(b) /\ backings'[b].data # backings[b].data
             => \E p \in DOMAIN pages : pages[p].backing = b /\ StoredInPlace(p)]_memoryVars
=============================================================================
