--------------------------- MODULE GemMemoryProofs ---------------------------
(***************************************************************************)
(* Proofs about GemMemory for every address space, every set of backings   *)
(* and host pages and every choice of arguments.                           *)
(***************************************************************************)
EXTENDS GemMemory, FiniteSetTheorems, TLAPS

\* Counting the pages of a range that satisfy something yields a number.
LEMMA SpanCount ==
    ASSUME NEW a \in Int, NEW n \in Int, NEW S, S \subseteq Span(a, n)
    PROVE  Cardinality(S) \in Nat
<1>1. IsFiniteSet(Span(a, n))
  BY FS_Interval DEF Span
<1>2. IsFiniteSet(S)
  BY <1>1, FS_Subset
<1> QED
  BY <1>2, FS_CardinalityType

\* Dropping the references of finitely many pages leaves typed backings.
LEMMA DropTyped ==
    ASSUME TypeOK, NEW S, NEW a \in Int, NEW n \in Int, S \subseteq Span(a, n)
    PROVE  /\ DOMAIN DropPages(S) \subseteq DOMAIN backings
           /\ \A b \in DOMAIN DropPages(S) : DropPages(S)[b] \in Backing
<1> DEFINE held(b) == {p \in S : pages[p].backing = b}
           left(b) == backings[b].refs - Cardinality(held(b))
           D == {c \in DOMAIN backings : left(c) > 0}
<1>1. DropPages(S) = [b \in D |-> [backings[b] EXCEPT !.refs = left(b)]]
  BY DEF DropPages
<1>2. ASSUME NEW b \in D PROVE [backings[b] EXCEPT !.refs = left(b)] \in Backing
  <2>1. Cardinality(held(b)) \in Nat
    <3>1. held(b) \subseteq Span(a, n)
      OBVIOUS
    <3> HIDE DEF held
    <3> QED BY <3>1, SpanCount
  <2>2. backings[b] \in Backing
    BY DEF TypeOK
  <2> HIDE DEF held
  <2> QED BY <2>1, <2>2 DEF Backing
<1> HIDE DEF left
<1> QED
  BY <1>1, <1>2

\* Freshly allocated backings are typed.
LEMMA NewTyped ==
    ASSUME NEW S, NEW f \in Allocations(S),
           NEW junk, \A p \in S : junk[p] \in Nat,
           NEW h, \A p \in S : h[p] \in HostPages \cup {NoHost}
    PROVE  /\ DOMAIN NewBackings(f, S, h, junk) \subseteq Backings
           /\ \A b \in DOMAIN NewBackings(f, S, h, junk) :
                 NewBackings(f, S, h, junk)[b] \in Backing
<1> DEFINE D == {f[p] : p \in S}
           page(b) == CHOOSE q \in S : f[q] = b
<1>1. NewBackings(f, S, h, junk) =
        [b \in D |-> [refs |-> 1, generation |-> junk[page(b)],
                      host |-> h[page(b)], data |-> Zero]]
  BY DEF NewBackings
<1>2. \A b \in D : page(b) \in S
  OBVIOUS
<1>3. D \subseteq Backings
  BY DEF Allocations
<1> HIDE DEF page
<1>4. \A b \in D : [refs |-> 1, generation |-> junk[page(b)],
                    host |-> h[page(b)], data |-> Zero] \in Backing
  BY <1>2, BackingAssumption DEF Backing
<1> QED
  BY <1>1, <1>3, <1>4

\* Overlaying one typed backing table with another gives a typed one.
LEMMA MergeBackings ==
    ASSUME NEW f, NEW g,
           DOMAIN f \subseteq Backings, \A b \in DOMAIN f : f[b] \in Backing,
           DOMAIN g \subseteq Backings, \A b \in DOMAIN g : g[b] \in Backing
    PROVE  /\ DOMAIN Merge(f, g) \subseteq Backings
           /\ \A b \in DOMAIN Merge(f, g) : Merge(f, g)[b] \in Backing
BY DEF Merge

\* The pages of a fresh reservation are typed.
LEMMA FreshTyped ==
    ASSUME NEW a \in Nat, NEW n \in Nat, NEW gen \in Nat, NEW prot \in Protection,
           NEW backing, \A p \in Span(a, n) : backing[p] \in Backings \cup {NoBacking}
    PROVE  /\ DOMAIN FreshPages(a, n, backing, prot, gen) = Span(a, n)
           /\ \A p \in Span(a, n) : FreshPages(a, n, backing, prot, gen)[p] \in Page
<1>1. ASSUME NEW p \in Span(a, n)
      PROVE  [base |-> a, size |-> n, backing |-> backing[p], protection |-> prot,
              generation |-> gen + (p - a) + 1] \in Page
  BY DEF Page, Span
<1> QED
  BY <1>1 DEF FreshPages

\* Overlaying one typed page table with another gives a typed one.
LEMMA MergePages ==
    ASSUME NEW f, NEW g,
           DOMAIN f \subseteq Address, \A p \in DOMAIN f : f[p] \in Page,
           DOMAIN g \subseteq Address, \A p \in DOMAIN g : g[p] \in Page
    PROVE  /\ DOMAIN Merge(f, g) \subseteq Address
           /\ \A p \in DOMAIN Merge(f, g) : Merge(f, g)[p] \in Page
BY DEF Merge

\* A range that range_ok accepts lies in the address space.
LEMMA RangeInSpace ==
    ASSUME NEW a \in Nat, NEW n \in Nat, RangeOk(a, n)
    PROVE  Span(a, n) \subseteq Address
BY AddressAssumption DEF RangeOk, Span, Address
-----------------------------------------------------------------------------
(* Type correctness, one lemma per action that changes the table.           *)

\* A failed allocation keeps the types.
LEMMA OutOfMemoryTyped ==
    ASSUME TypeOK, NEW k \in Nat, OutOfMemory(k)
    PROVE  TypeOK'
BY DEF TypeOK, OutOfMemory, Stamp

\* reserve_locked keeps the types.
LEMMA ReserveTyped ==
    ASSUME TypeOK, NEW a \in Nat, NEW n \in Nat, Reserve(a, n)
    PROVE  TypeOK'
<1>1. PICK b \in ReserveAt(a, n) :
        /\ CanReserve(b, n)
        /\ \/ /\ pages' = Merge(pages, FreshPages(b, n, [p \in Span(b, n) |-> NoBacking],
                                                  NoProtection, nextGen))
              /\ nextGen' = nextGen + n
              /\ UNCHANGED <<alive, backings, host>>
           \/ \E k \in 0 .. n - 1 : OutOfMemory(k)
  BY DEF Reserve
<1>2. b \in Nat
  BY AddressAssumption DEF ReserveAt, SearchResult
<1>3. CASE \E k \in 0 .. n - 1 : OutOfMemory(k)
  BY <1>3, OutOfMemoryTyped
<1>4. CASE /\ pages' = Merge(pages, FreshPages(b, n, [p \in Span(b, n) |-> NoBacking],
                                               NoProtection, nextGen))
           /\ nextGen' = nextGen + n
           /\ UNCHANGED <<alive, backings, host>>
  <2> DEFINE g == FreshPages(b, n, [p \in Span(b, n) |-> NoBacking], NoProtection, nextGen)
  <2>1. NoProtection \in Protection
    BY DEF NoProtection, Protection, Access
  <2>2. DOMAIN g = Span(b, n) /\ \A p \in Span(b, n) : g[p] \in Page
    BY <1>2, <2>1, FreshTyped DEF TypeOK
  <2>3. Span(b, n) \subseteq Address
    BY <1>1, <1>2, RangeInSpace DEF CanReserve
  <2> HIDE DEF g
  <2>4. DOMAIN pages' \subseteq Address /\ \A p \in DOMAIN pages' : pages'[p] \in Page
    BY <1>4, <2>2, <2>3, MergePages DEF TypeOK, g
  <2> QED
    BY <1>4, <2>4 DEF TypeOK
<1> QED
  BY <1>1, <1>3, <1>4

\* release_locked keeps the types.
LEMMA ReleaseTyped ==
    ASSUME TypeOK, NEW a \in Nat, NEW n \in Nat, Release(a, n)
    PROVE  TypeOK'
<1>1. DOMAIN backings' \subseteq Backings /\ \A b \in DOMAIN backings' : backings'[b] \in Backing
  BY DropTyped DEF Release, TypeOK
<1>2. DOMAIN pages' \subseteq Address /\ \A p \in DOMAIN pages' : pages'[p] \in Page
  BY DEF Release, TypeOK
<1> QED
  BY <1>1, <1>2 DEF Release, TypeOK

\* unmap_locked keeps the types, the split reservations included.
LEMMA UnmapTyped ==
    ASSUME TypeOK, NEW a \in Nat, NEW n \in Nat, Unmap(a, n)
    PROVE  TypeOK'
<1>1. a \in DOMAIN pages /\ Span(a, n) \subseteq Span(a, n)
  <2>1. Reserved(a, n)
    BY DEF Unmap
  <2> QED
    BY <2>1 DEF Reserved, RangeOk, Span
<1>2. pages[a] \in Page
  BY <1>1 DEF TypeOK
<1> DEFINE base == pages[a].base
           end == base + pages[a].size
<1>3. /\ a >= base /\ a + n <= end
      /\ backings' = DropPages(Span(a, n))
      /\ pages' = [p \in DOMAIN pages \ Span(a, n) |->
                    IF p \in base .. a - 1 THEN [pages[p] EXCEPT !.size = a - base]
                    ELSE IF p \in a + n .. end - 1
                    THEN [pages[p] EXCEPT !.base = a + n, !.size = end - (a + n)]
                    ELSE pages[p]]
      /\ UNCHANGED <<alive, host, nextGen>>
  BY DEF Unmap
<1>4. base \in Nat /\ end \in Nat
  BY <1>2 DEF Page
<1>5. a >= base /\ a + n <= end
  BY <1>3
<1>6. \A p \in DOMAIN pages' : pages'[p] \in Page
  <2> SUFFICES ASSUME NEW p \in DOMAIN pages \ Span(a, n) PROVE pages'[p] \in Page
    BY <1>3
  <2>1. pages[p] \in Page
    BY DEF TypeOK
  <2> HIDE DEF base, end
  <2>2. CASE p \in base .. a - 1
    <3>1. pages'[p] = [pages[p] EXCEPT !.size = a - base]
      BY <1>3, <2>2
    <3>2. a - base \in Nat
      BY <1>4, <1>5
    <3> QED
      BY <2>1, <3>1, <3>2 DEF Page
  <2>3. CASE p \notin base .. a - 1 /\ p \in a + n .. end - 1
    <3>1. pages'[p] = [pages[p] EXCEPT !.base = a + n, !.size = end - (a + n)]
      BY <1>3, <2>3
    <3>2. end - (a + n) \in Nat /\ a + n \in Nat
      BY <1>4, <1>5
    <3> QED
      BY <2>1, <3>1, <3>2 DEF Page
  <2>4. CASE p \notin base .. a - 1 /\ p \notin a + n .. end - 1
    BY <1>3, <2>1, <2>4
  <2> QED
    BY <2>2, <2>3, <2>4
<1>7. DOMAIN pages' \subseteq Address
  BY <1>3 DEF TypeOK
<1>8. DOMAIN backings' \subseteq Backings /\ \A b \in DOMAIN backings' : backings'[b] \in Backing
  <2>1. /\ DOMAIN DropPages(Span(a, n)) \subseteq DOMAIN backings
        /\ \A b \in DOMAIN DropPages(Span(a, n)) : DropPages(Span(a, n))[b] \in Backing
    BY DropTyped
  <2> QED
    BY <1>3, <2>1 DEF TypeOK
<1> QED
  BY <1>3, <1>6, <1>7, <1>8 DEF TypeOK

\* Giving the pages of a range backings and a protection keeps them typed.
LEMMA WithBackingsTyped ==
    ASSUME TypeOK, NEW a \in Nat, NEW n \in Nat, NEW prot \in Protection,
           NEW f, \A p \in DOMAIN f : f[p] \in Backings \cup {NoBacking},
           pages' = WithBackings(a, n, f, prot, nextGen)
    PROVE  DOMAIN pages' \subseteq Address /\ \A p \in DOMAIN pages' : pages'[p] \in Page
<1>1. DOMAIN pages' = DOMAIN pages
  BY DEF WithBackings
<1>2. ASSUME NEW p \in DOMAIN pages PROVE pages'[p] \in Page
  <2>1. pages[p] \in Page
    BY DEF TypeOK
  <2>2. CASE p \notin Span(a, n)
    BY <2>1, <2>2 DEF WithBackings
  <2>3. CASE p \in Span(a, n)
    <3> DEFINE b == IF p \in DOMAIN f THEN f[p] ELSE pages[p].backing
               gen == nextGen + (p - a) + 1
    <3>1. pages'[p] = [pages[p] EXCEPT !.backing = b, !.protection = prot, !.generation = gen]
      BY <2>3 DEF WithBackings
    <3>2. gen \in Nat
      BY <2>3 DEF TypeOK, Span
    <3>3. b \in Backings \cup {NoBacking}
      BY <2>1 DEF Page
    <3> HIDE DEF b, gen
    <3> QED
      BY <2>1, <3>1, <3>2, <3>3 DEF Page
  <2> QED
    BY <2>2, <2>3
<1> QED
  BY <1>1, <1>2 DEF TypeOK

\* commit_locked keeps the types.
LEMMA CommitTyped ==
    ASSUME TypeOK, NEW a \in Nat, NEW n \in Nat, NEW prot \in Protection,
           Commit(a, n, prot)
    PROVE  TypeOK'
<1> DEFINE S == {p \in Span(a, n) : pages[p].backing = NoBacking}
           h == [p \in S |-> NoHost]
<1>1. PICK f \in Allocations(S), junk \in [S -> Garbage] :
        /\ backings' = Merge(backings, NewBackings(f, S, h, junk))
        /\ pages' = WithBackings(a, n, f, prot, nextGen)
  BY DEF Commit
<1>2. \A p \in DOMAIN f : f[p] \in Backings \cup {NoBacking}
  BY DEF Allocations
<1>3. DOMAIN pages' \subseteq Address /\ \A p \in DOMAIN pages' : pages'[p] \in Page
  BY <1>1, <1>2, WithBackingsTyped
<1> DEFINE g == NewBackings(f, S, h, junk)
<1>4. DOMAIN g \subseteq Backings /\ \A b \in DOMAIN g : g[b] \in Backing
  BY NewTyped, BackingAssumption
<1> HIDE DEF g, S
<1>5. DOMAIN backings' \subseteq Backings /\ \A b \in DOMAIN backings' : backings'[b] \in Backing
  BY <1>1, <1>4, MergeBackings DEF TypeOK, g
<1> QED
  BY <1>3, <1>5 DEF Commit, TypeOK

\* commit_external_locked keeps the types.
LEMMA CommitExternalTyped ==
    ASSUME TypeOK, NEW a \in Nat, NEW h \in Nat, NEW n \in Nat,
           NEW prot \in Protection, CommitExternal(a, h, n, prot)
    PROVE  TypeOK'
<1> DEFINE S == {p \in Span(a, n) : pages[p].backing = NoBacking}
           hosts == [p \in S |-> h + (p - a)]
<1>1. PICK f \in Allocations(S), junk \in [S -> Garbage] :
        /\ backings' = Merge(backings, NewBackings(f, S, hosts, junk))
        /\ pages' = WithBackings(a, n, f, prot, nextGen)
  BY DEF CommitExternal
<1>2. \A p \in DOMAIN f : f[p] \in Backings \cup {NoBacking}
  BY DEF Allocations
<1>3. DOMAIN pages' \subseteq Address /\ \A p \in DOMAIN pages' : pages'[p] \in Page
  BY <1>1, <1>2, WithBackingsTyped
<1>4. \A p \in S : hosts[p] \in HostPages \cup {NoHost}
  BY DEF CommitExternal, Span
<1> DEFINE g == NewBackings(f, S, hosts, junk)
<1>5. DOMAIN g \subseteq Backings /\ \A b \in DOMAIN g : g[b] \in Backing
  <2> HIDE DEF hosts, S
  <2> QED BY <1>4, NewTyped, BackingAssumption
<1> HIDE DEF g, S
<1>6. DOMAIN backings' \subseteq Backings /\ \A b \in DOMAIN backings' : backings'[b] \in Backing
  BY <1>1, <1>5, MergeBackings DEF TypeOK, g
<1> QED
  BY <1>3, <1>6 DEF CommitExternal, TypeOK

\* decommit_locked keeps the types.
LEMMA DecommitTyped ==
    ASSUME TypeOK, NEW a \in Nat, NEW n \in Nat, Decommit(a, n)
    PROVE  TypeOK'
<1>1. [access |-> "NOACCESS", guard |-> FALSE] \in Protection
  BY DEF Protection, Access
<1>2. DOMAIN pages' \subseteq Address /\ \A p \in DOMAIN pages' : pages'[p] \in Page
  BY <1>1, WithBackingsTyped DEF Decommit
<1>3. DOMAIN backings' \subseteq Backings /\ \A b \in DOMAIN backings' : backings'[b] \in Backing
  BY DropTyped DEF Decommit, TypeOK
<1> QED
  BY <1>2, <1>3 DEF Decommit, TypeOK

\* protect_locked keeps the types.
LEMMA ProtectTyped ==
    ASSUME TypeOK, NEW a \in Nat, NEW n \in Nat, NEW prot \in Protection,
           Protect(a, n, prot)
    PROVE  TypeOK'
<1>1. DOMAIN pages' \subseteq Address /\ \A p \in DOMAIN pages' : pages'[p] \in Page
  BY WithBackingsTyped DEF Protect
<1> QED
  BY <1>1 DEF Protect, TypeOK

\* alias_locked keeps the types.
LEMMA AliasTyped ==
    ASSUME TypeOK, NEW a \in Nat, NEW s \in Nat, NEW n \in Nat,
           NEW prot \in Protection, Alias(a, s, n, prot)
    PROVE  TypeOK'
<1> DEFINE target == [p \in Span(a, n) |-> pages[s + (p - a)].backing]
           g == FreshPages(a, n, target, prot, nextGen)
           held(b) == {p \in Span(s, n) : pages[p].backing = b}
<1>1. CASE \E k \in 0 .. n - 1 : OutOfMemory(k)
  BY <1>1, OutOfMemoryTyped
<1>2. CASE /\ pages' = Merge(pages, g)
           /\ backings' = [b \in DOMAIN backings |->
                 [backings[b] EXCEPT !.refs = @ + Cardinality(held(b))]]
           /\ nextGen' = nextGen + n
           /\ UNCHANGED <<alive, host>>
  <2>1. Span(a, n) \subseteq Address
    BY RangeInSpace DEF Alias
  <2>2. \A p \in Span(a, n) : target[p] \in Backings \cup {NoBacking}
    <3> SUFFICES ASSUME NEW p \in Span(a, n)
                 PROVE  pages[s + (p - a)].backing \in Backings \cup {NoBacking}
      OBVIOUS
    <3>1. s + (p - a) \in DOMAIN pages
      BY DEF Alias, Committed, Reserved, Span
    <3>2. pages[s + (p - a)] \in Page
      BY <3>1 DEF TypeOK
    <3> QED
      BY <3>2 DEF Page
  <2> HIDE DEF target
  <2>3. DOMAIN g = Span(a, n) /\ \A p \in Span(a, n) : g[p] \in Page
    BY <2>2, FreshTyped DEF TypeOK
  <2> HIDE DEF g
  <2>4. DOMAIN pages' \subseteq Address /\ \A p \in DOMAIN pages' : pages'[p] \in Page
    BY <1>2, <2>1, <2>3, MergePages DEF TypeOK
  <2>5. ASSUME NEW b \in DOMAIN backings PROVE backings'[b] \in Backing
    <3>1. Cardinality(held(b)) \in Nat
      <4>1. held(b) \subseteq Span(s, n)
        OBVIOUS
      <4> HIDE DEF held
      <4> QED BY <4>1, SpanCount
    <3> HIDE DEF held
    <3>2. backings[b] \in Backing
      BY DEF TypeOK
    <3>3. backings'[b] = [backings[b] EXCEPT !.refs = backings[b].refs + Cardinality(held(b))]
      BY <1>2
    <3> QED
      BY <3>1, <3>2, <3>3 DEF Backing
  <2> QED
    BY <1>2, <2>4, <2>5 DEF TypeOK
<1> QED
  BY <1>1, <1>2 DEF Alias

\* map_identity_locked keeps the types.
LEMMA MapIdentityTyped ==
    ASSUME TypeOK, NEW a \in Nat, NEW n \in Nat, NEW prot \in Protection,
           MapIdentity(a, n, prot)
    PROVE  TypeOK'
<1> DEFINE S == Span(a, n)
           h == [p \in S |-> p]
<1>1. CASE \E k \in 0 .. 2 * n - 1 : OutOfMemory(k)
  BY <1>1, OutOfMemoryTyped
<1>2. CASE /\ \E f \in Allocations(S), junk \in [S -> Garbage] :
                 /\ backings' = Merge(backings, NewBackings(f, S, h, junk))
                 /\ pages' = Merge(pages, FreshPages(a, n, f, prot, nextGen + n))
           /\ nextGen' = nextGen + 2 * n
           /\ UNCHANGED <<alive, host>>
  <2>1. PICK f \in Allocations(S), junk \in [S -> Garbage] :
                 /\ backings' = Merge(backings, NewBackings(f, S, h, junk))
                 /\ pages' = Merge(pages, FreshPages(a, n, f, prot, nextGen + n))
    BY <1>2
  <2> DEFINE g == FreshPages(a, n, f, prot, nextGen + n)
             fresh == NewBackings(f, S, h, junk)
  <2>2. \A p \in Span(a, n) : f[p] \in Backings \cup {NoBacking}
    BY DEF Allocations
  <2>3. DOMAIN g = Span(a, n) /\ \A p \in Span(a, n) : g[p] \in Page
    <3>1. nextGen + n \in Nat
      BY DEF TypeOK
    <3> QED
      BY <2>2, <3>1, FreshTyped
  <2>4. Span(a, n) \subseteq Address
    BY RangeInSpace DEF MapIdentity, CanReserve
  <2> HIDE DEF g
  <2>5. DOMAIN pages' \subseteq Address /\ \A p \in DOMAIN pages' : pages'[p] \in Page
    BY <2>1, <2>3, <2>4, MergePages DEF TypeOK, g
  <2>6. \A p \in S : h[p] \in HostPages \cup {NoHost}
    BY DEF MapIdentity
  <2>7. DOMAIN fresh \subseteq Backings /\ \A b \in DOMAIN fresh : fresh[b] \in Backing
    <3> HIDE DEF h, S
    <3> QED BY <2>6, NewTyped, BackingAssumption
  <2> HIDE DEF fresh, S
  <2>8. DOMAIN backings' \subseteq Backings /\ \A b \in DOMAIN backings' : backings'[b] \in Backing
    BY <2>1, <2>7, MergeBackings DEF TypeOK, fresh
  <2> QED
    BY <1>2, <2>5, <2>8 DEF TypeOK
<1> QED
  BY <1>1, <1>2 DEF MapIdentity

\* bind_kuser_external_locked keeps the types.
LEMMA BindKuserTyped ==
    ASSUME TypeOK, NEW h \in HostPages, BindKuser(h)
    PROVE  TypeOK'
<1> DEFINE K == {KuserCanonical, KuserShared}
           new(e, j) == [b \in {e} |-> [refs |-> 2, generation |-> j, host |-> h,
                                       data |-> Zero]]
<1>1. PICK e \in Backings \ DOMAIN backings, j \in Garbage :
        /\ backings' = Merge(DropPages(K), new(e, j))
        /\ pages' = [pages EXCEPT
                 ![KuserCanonical].backing = e,
                 ![KuserCanonical].generation = nextGen + 1,
                 ![KuserShared].backing = e,
                 ![KuserShared].generation = nextGen + 2]
  BY DEF BindKuser
<1>2. K \subseteq Span(0, Top)
  BY AddressAssumption DEF Span
<1>3. /\ DOMAIN DropPages(K) \subseteq DOMAIN backings
      /\ \A b \in DOMAIN DropPages(K) : DropPages(K)[b] \in Backing
  <2> HIDE DEF K
  <2> QED BY <1>2, AddressAssumption, DropTyped
<1>4. DOMAIN new(e, j) \subseteq Backings /\ \A b \in DOMAIN new(e, j) : new(e, j)[b] \in Backing
  BY BackingAssumption DEF Backing
<1>5. DOMAIN backings' \subseteq Backings /\ \A b \in DOMAIN backings' : backings'[b] \in Backing
  <2> HIDE DEF K, new
  <2> QED BY <1>1, <1>3, <1>4, MergeBackings DEF TypeOK
<1>6. DOMAIN pages' = DOMAIN pages
  BY <1>1
<1>7. ASSUME NEW p \in DOMAIN pages PROVE pages'[p] \in Page
  <2>1. pages[p] \in Page
    BY DEF TypeOK
  <2>2. nextGen + 1 \in Nat /\ nextGen + 2 \in Nat
    BY DEF TypeOK
  <2>3. CASE p = KuserShared
    <3>1. pages'[p] = [pages[p] EXCEPT !.backing = e, !.generation = nextGen + 2]
      BY <1>1, <2>3, AddressAssumption
    <3> QED
      BY <2>1, <2>2, <3>1 DEF Page
  <2>4. CASE p = KuserCanonical
    <3>1. pages'[p] = [pages[p] EXCEPT !.backing = e, !.generation = nextGen + 1]
      BY <1>1, <2>4, AddressAssumption
    <3> QED
      BY <2>1, <2>2, <3>1 DEF Page
  <2>5. CASE p \notin K
    BY <1>1, <2>1, <2>5
  <2> QED
    BY <2>3, <2>4, <2>5
<1>8. nextGen' = nextGen + 2 /\ UNCHANGED <<alive, host>>
  BY DEF BindKuser
<1> QED
  BY <1>5, <1>6, <1>7, <1>8 DEF TypeOK

\* A store by the owner of a host page keeps the types.
LEMMA HostWriteTyped ==
    ASSUME TypeOK, NEW h \in HostPages, NEW v \in Contents, HostWrite(h, v)
    PROVE  TypeOK'
BY DEF TypeOK, HostWrite

\* Taking the first guard off a range keeps the types.
LEMMA ConsumeGuardTyped ==
    ASSUME TypeOK, NEW a \in Nat, NEW n \in Nat, NEW mode, ConsumeGuard(a, n, mode)
    PROVE  TypeOK'
<1>1. PICK g \in Span(a, n) :
        pages' = [pages EXCEPT ![g].protection.guard = FALSE,
                               ![g].generation = nextGen + 1]
  BY DEF ConsumeGuard, Guarded
<1>2. DOMAIN pages' = DOMAIN pages
  BY <1>1
<1>3. ASSUME NEW p \in DOMAIN pages PROVE pages'[p] \in Page
  <2>1. pages[p] \in Page /\ nextGen + 1 \in Nat
    BY DEF TypeOK
  <2>2. CASE p # g
    BY <1>1, <2>1, <2>2
  <2>3. CASE p = g
    <3> DEFINE prot == [pages[p].protection EXCEPT !.guard = FALSE]
    <3>1. pages'[p] = [pages[p] EXCEPT !.protection = prot, !.generation = nextGen + 1]
      BY <1>1, <2>1, <2>3 DEF Page
    <3>2. prot \in Protection
      BY <2>1 DEF Page, Protection
    <3> HIDE DEF prot
    <3> QED
      BY <2>1, <3>1, <3>2 DEF Page
  <2> QED
    BY <2>2, <2>3
<1>4. nextGen' = nextGen + 1 /\ UNCHANGED <<alive, backings, host>>
  BY DEF ConsumeGuard
<1> QED
  BY <1>2, <1>3, <1>4 DEF TypeOK

\* Detaching turns every access into an access.
LEMMA DetachedTyped ==
    ASSUME NEW p \in Page
    PROVE  [p EXCEPT !.protection.access = Detached(@)] \in Page
<1> DEFINE access == Detached(p.protection.access)
           prot == [p.protection EXCEPT !.access = access]
<1>1. access \in Access
  <2>1. p.protection.access \in Access
    BY DEF Page, Protection
  <2> QED
    BY <2>1 DEF Detached, Access, WriteAccess
<1> HIDE DEF access
<1>2. prot \in Protection
  BY <1>1 DEF Page, Protection
<1>3. [p EXCEPT !.protection.access = Detached(@)] = [p EXCEPT !.protection = prot]
  BY DEF Page, access
<1> HIDE DEF prot
<1> QED
  BY <1>2, <1>3 DEF Page

\* A read or fetch keeps the types.
LEMMA ReadOrFetchTyped ==
    ASSUME TypeOK, NEW a \in Nat, NEW n \in Nat, NEW mode, ReadOrFetch(a, n, mode)
    PROVE  TypeOK'
<1>1. DOMAIN pages' = DOMAIN pages
  BY DEF ReadOrFetch
<1>2. ASSUME NEW p \in DOMAIN pages PROVE pages'[p] \in Page
  <2>1. pages[p] \in Page
    BY DEF TypeOK
  <2>2. [pages[p] EXCEPT !.protection.access = Detached(@)] \in Page
    BY <2>1, DetachedTyped
  <2>3. pages'[p] \in {pages[p], [pages[p] EXCEPT !.protection.access = Detached(@)]}
    BY DEF ReadOrFetch
  <2> QED
    BY <2>1, <2>2, <2>3
<1>3. UNCHANGED <<alive, backings, host, nextGen>>
  BY DEF ReadOrFetch
<1> QED
  BY <1>1, <1>2, <1>3 DEF TypeOK

\* gem_memory_destroy keeps the types.
LEMMA DestroyTyped ==
    ASSUME TypeOK, Destroy
    PROVE  TypeOK'
<1>1. DOMAIN pages \subseteq Span(0, Top)
  BY AddressAssumption DEF TypeOK, Address, Span
<1>2. /\ DOMAIN DropPages(DOMAIN pages) \subseteq DOMAIN backings
      /\ \A b \in DOMAIN DropPages(DOMAIN pages) : DropPages(DOMAIN pages)[b] \in Backing
  BY <1>1, AddressAssumption, DropTyped
<1>3. DOMAIN pages' = {}
  <2>1. pages' = << >>
    BY DEF Destroy
  <2>2. DOMAIN << >> = {}
    BY SMT
  <2> QED
    BY <2>1, <2>2
<1> QED
  BY <1>2, <1>3 DEF Destroy, TypeOK

\* A write keeps the types: copies, stored bytes and stamps.
LEMMA WriteTyped ==
    ASSUME TypeOK, NEW a \in Nat, NEW n \in Nat,
           NEW v \in [Span(a, n) -> Contents], Write(a, n, v)
    PROVE  TypeOK'
<1> DEFINE S == Span(a, n)
           C == CopyOnWrite(a, n)
           E == {p \in S : External(pages[p].backing)}
           gen == nextGen + Cardinality(C)
           target(f) == [p \in S |-> IF p \in C THEN f[p] ELSE pages[p].backing]
           before(f) == Merge(DropPages(C), NewBackings(f, C, [p \in C |-> NoHost],
                                                        [p \in C |-> 0]))
           owner == [p \in E |-> backings[pages[p].backing].host]
<1>1. PICK f \in Allocations(C) :
        /\ \E last \in LastPages(target(f), S) :
              backings' =
                 [b \in DOMAIN before(f) |->
                    IF b \in DOMAIN last
                    THEN Stored(before(f)[b], v[last[b]], gen + 2 * (last[b] - a) + 1)
                    ELSE before(f)[b]]
        /\ \E last \in LastPages(owner, E) :
              host' = [h \in HostPages |->
                         IF h \in DOMAIN last THEN v[last[h]] ELSE host[h]]
        /\ pages' =
              [p \in DOMAIN pages |->
                 IF p \in S
                 THEN [pages[p] EXCEPT
                          !.backing = target(f)[p],
                          !.protection.access = Detached(@),
                          !.generation = gen + 2 * (p - a) + 2]
                 ELSE pages[p]]
  BY DEF Write
<1>2. nextGen' = gen + 2 * n /\ alive' = alive
  BY DEF Write
<1>3. C \subseteq S
  BY DEF CopyOnWrite
<1>4. gen \in Nat
  BY <1>3, SpanCount DEF TypeOK
<1>5. S \subseteq DOMAIN pages
  BY DEF Write, Accessible, Committed, Reserved
<1>6. \A p \in S : target(f)[p] \in Backings \cup {NoBacking}
  <2> SUFFICES ASSUME NEW p \in S
               PROVE  (IF p \in C THEN f[p] ELSE pages[p].backing) \in Backings \cup {NoBacking}
    OBVIOUS
  <2>1. pages[p] \in Page
    BY <1>5 DEF TypeOK
  <2> QED
    BY <2>1 DEF Page, Allocations
<1>7. DOMAIN pages' \subseteq Address /\ \A p \in DOMAIN pages' : pages'[p] \in Page
  <2> HIDE DEF target, gen, C
  <2>1. DOMAIN pages' = DOMAIN pages
    BY <1>1
  <2>2. ASSUME NEW p \in DOMAIN pages PROVE pages'[p] \in Page
    <3>1. pages[p] \in Page
      BY DEF TypeOK
    <3>2. CASE p \notin S
      BY <1>1, <3>1, <3>2
    <3>3. CASE p \in S
      <4> DEFINE prot == [pages[p].protection EXCEPT !.access = Detached(@)]
                 g == gen + 2 * (p - a) + 2
      <4>1. [pages[p] EXCEPT !.protection.access = Detached(@)] \in Page
        BY <3>1, DetachedTyped
      <4>2. prot \in Protection
        BY <3>1, <4>1 DEF Page
      <4>3. pages'[p] = [pages[p] EXCEPT !.backing = target(f)[p], !.protection = prot,
                                         !.generation = g]
        BY <1>1, <3>3
      <4>4. g \in Nat
        BY <1>4, <3>3 DEF Span
      <4> HIDE DEF prot, g
      <4> QED
        BY <1>6, <3>1, <3>3, <4>2, <4>3, <4>4 DEF Page
    <3> QED
      BY <3>2, <3>3
  <2> QED
    BY <2>1, <2>2 DEF TypeOK
<1>8. DOMAIN before(f) \subseteq Backings /\ \A b \in DOMAIN before(f) : before(f)[b] \in Backing
  <2> DEFINE drop == DropPages(C)
             fresh == NewBackings(f, C, [p \in C |-> NoHost], [p \in C |-> 0])
  <2>1. DOMAIN drop \subseteq DOMAIN backings /\ \A b \in DOMAIN drop : drop[b] \in Backing
    BY <1>3, DropTyped
  <2>2. DOMAIN fresh \subseteq Backings /\ \A b \in DOMAIN fresh : fresh[b] \in Backing
    BY NewTyped
  <2> HIDE DEF drop, fresh
  <2>3. DOMAIN Merge(drop, fresh) \subseteq Backings
        /\ \A b \in DOMAIN Merge(drop, fresh) : Merge(drop, fresh)[b] \in Backing
    BY <2>1, <2>2, MergeBackings DEF TypeOK
  <2> QED
    BY <2>3 DEF drop, fresh
<1>9. DOMAIN backings' \subseteq Backings /\ \A b \in DOMAIN backings' : backings'[b] \in Backing
  <2> HIDE DEF before, target, gen, C
  <2>1. PICK last \in LastPages(target(f), S) :
              backings' =
                 [b \in DOMAIN before(f) |->
                    IF b \in DOMAIN last
                    THEN Stored(before(f)[b], v[last[b]], gen + 2 * (last[b] - a) + 1)
                    ELSE before(f)[b]]
    BY <1>1
  <2>2. \A b \in DOMAIN last : last[b] \in S
    BY DEF LastPages
  <2>3. ASSUME NEW b \in DOMAIN before(f) PROVE backings'[b] \in Backing
    <3>1. before(f)[b] \in Backing
      BY <1>8
    <3>2. CASE b \notin DOMAIN last
      BY <2>1, <3>1, <3>2
    <3>3. CASE b \in DOMAIN last
      <4> DEFINE g == gen + 2 * (last[b] - a) + 1
                 d == IF before(f)[b].host = NoHost THEN v[last[b]] ELSE before(f)[b].data
      <4>1. backings'[b] = [before(f)[b] EXCEPT !.generation = g, !.data = d]
        BY <2>1, <3>3 DEF Stored
      <4>2. g \in Nat
        BY <1>4, <2>2, <3>3 DEF Span
      <4>3. d \in Contents
        BY <2>2, <3>1, <3>3 DEF Backing
      <4> HIDE DEF g, d
      <4> QED
        BY <3>1, <4>1, <4>2, <4>3 DEF Backing
    <3> QED
      BY <3>2, <3>3
  <2> QED
    BY <1>8, <2>1, <2>3
<1>10. host' \in [HostPages -> Contents]
  <2> HIDE DEF owner
  <2>1. PICK last \in LastPages(owner, E) :
          host' = [h \in HostPages |-> IF h \in DOMAIN last THEN v[last[h]] ELSE host[h]]
    BY <1>1
  <2>2. \A h \in DOMAIN last : last[h] \in S
    BY DEF LastPages
  <2> QED
    BY <2>1, <2>2 DEF TypeOK
<1> HIDE DEF gen
<1>11. nextGen' \in Nat
  BY <1>2, <1>4
<1> QED
  BY <1>2, <1>7, <1>9, <1>10, <1>11 DEF TypeOK

\* gem_memory_create establishes the types.
LEMMA InitTyped ==
    ASSUME Init
    PROVE  TypeOK
<1>1. PICK b \in Backings, junk \in Garbage :
        /\ backings = [c \in {b} |-> [refs |-> 2, generation |-> junk,
                                      host |-> NoHost, data |-> Zero]]
        /\ pages = [p \in {KuserCanonical, KuserShared} |->
                      [base |-> p, size |-> 1, backing |-> b,
                       protection |-> [access |-> "READWRITE", guard |-> FALSE],
                       generation |-> IF p = KuserCanonical THEN 2 ELSE 3]]
  BY DEF Init
<1>2. [access |-> "READWRITE", guard |-> FALSE] \in Protection
  BY DEF Protection, Access, WriteAccess
<1>3. DOMAIN pages \subseteq Address /\ \A p \in DOMAIN pages : pages[p] \in Page
  BY <1>1, <1>2, AddressAssumption DEF Page, Address
<1>4. DOMAIN backings \subseteq Backings /\ \A c \in DOMAIN backings : backings[c] \in Backing
  BY <1>1, BackingAssumption DEF Backing
<1> QED
  BY <1>3, <1>4, BackingAssumption DEF Init, TypeOK

\* Every step of the specification keeps the types.
LEMMA NextTyped ==
    ASSUME TypeOK, [Next]_memoryVars
    PROVE  TypeOK'
<1>1. CASE UNCHANGED memoryVars
  BY <1>1 DEF TypeOK, memoryVars
<1>2. CASE Next
  <2> USE AddressAssumption, BackingAssumption
  <2>1. ASSUME NEW r \in Ranges, \/ Reserve(r[1], r[2]) \/ Release(r[1], r[2])
                                 \/ Unmap(r[1], r[2]) \/ Decommit(r[1], r[2])
        PROVE  TypeOK'
    BY <2>1, ReserveTyped, ReleaseTyped, UnmapTyped, DecommitTyped
  <2>2. ASSUME NEW r \in Ranges, NEW prot \in Protections,
               \/ Commit(r[1], r[2], prot)
               \/ Protect(r[1], r[2], prot)
               \/ \E s \in Address : Alias(r[1], s, r[2], prot)
               \/ MapIdentity(r[1], r[2], prot)
               \/ \E h \in HostPages : CommitExternal(r[1], h, r[2], prot)
        PROVE  TypeOK'
    <3>1. prot \in Protection /\ r[1] \in Nat /\ r[2] \in Nat
      OBVIOUS
    <3>2. \A s \in Address : s \in Nat
      BY DEF Address
    <3>3. \A h \in HostPages : h \in Nat
      OBVIOUS
    <3> QED
      BY <2>2, <3>1, <3>2, <3>3, CommitTyped, ProtectTyped, AliasTyped,
         MapIdentityTyped, CommitExternalTyped
  <2>3. ASSUME NEW r \in Ranges, \/ \E mode : ConsumeGuard(r[1], r[2], mode)
                                 \/ \E mode : ReadOrFetch(r[1], r[2], mode)
                                 \/ \E v \in [Span(r[1], r[2]) -> Contents] :
                                       Write(r[1], r[2], v)
        PROVE  TypeOK'
    BY <2>3, ConsumeGuardTyped, ReadOrFetchTyped, WriteTyped
  <2>4. ASSUME \/ \E h \in HostPages : BindKuser(h)
               \/ \E h \in HostPages, v \in Contents : HostWrite(h, v)
               \/ Destroy
        PROVE  TypeOK'
    BY <2>4, BindKuserTyped, HostWriteTyped, DestroyTyped
  <2> QED
    BY <1>2, <2>1, <2>2, <2>3, <2>4 DEF Next, Operation
<1> QED
  BY <1>1, <1>2

\* Type correctness of the page table and the backings, for an address space,
\* backing pool and argument sets of any size.
THEOREM TypeCorrect == Spec => []TypeOK
<1>1. Init => TypeOK
  BY InitTyped
<1>2. TypeOK /\ [Next]_memoryVars => TypeOK'
  BY NextTyped
<1> QED
  BY <1>1, <1>2, PTL DEF Spec
-----------------------------------------------------------------------------
(* Reservations stay well formed.                                           *)

\* A step that leaves the extent of every reservation alone.
LEMMA SameShape ==
    ASSUME ReservationsWellFormed, DOMAIN pages' = DOMAIN pages,
           \A p \in DOMAIN pages : /\ pages'[p].base = pages[p].base
                                  /\ pages'[p].size = pages[p].size
    PROVE  ReservationsWellFormed'
BY DEF ReservationsWellFormed

\* Adding a fresh reservation on unmapped pages.
LEMMA AddReservation ==
    ASSUME ReservationsWellFormed, NEW a \in Nat, NEW n \in Nat, Unmapped(a, n),
           NEW backing, NEW prot, NEW gen,
           pages' = Merge(pages, FreshPages(a, n, backing, prot, gen))
    PROVE  ReservationsWellFormed'
<1>1. /\ DOMAIN pages' = DOMAIN pages \cup Span(a, n)
      /\ \A p \in Span(a, n) : pages'[p].base = a /\ pages'[p].size = n
      /\ \A p \in DOMAIN pages \ Span(a, n) : pages'[p] = pages[p]
  BY DEF Merge, FreshPages
<1>2. DOMAIN pages \cap Span(a, n) = {}
  BY DEF Unmapped
<1>3. ASSUME NEW p \in DOMAIN pages
      PROVE  /\ p \in Span(pages'[p].base, pages'[p].size)
             /\ \A q \in Span(pages'[p].base, pages'[p].size) :
                   /\ q \in DOMAIN pages'
                   /\ pages'[q].base = pages'[p].base
                   /\ pages'[q].size = pages'[p].size
  <2>1. pages'[p] = pages[p]
    BY <1>1, <1>2
  <2>2. \A q \in DOMAIN pages : pages'[q] = pages[q]
    BY <1>1, <1>2
  <2> QED
    BY <1>1, <2>1, <2>2 DEF ReservationsWellFormed
<1>4. ASSUME NEW p \in Span(a, n)
      PROVE  /\ p \in Span(pages'[p].base, pages'[p].size)
             /\ \A q \in Span(pages'[p].base, pages'[p].size) :
                   /\ q \in DOMAIN pages'
                   /\ pages'[q].base = pages'[p].base
                   /\ pages'[q].size = pages'[p].size
  BY <1>1
<1> QED
  BY <1>1, <1>3, <1>4 DEF ReservationsWellFormed

\* reserve_locked keeps reservations well formed.
LEMMA ReserveWellFormed ==
    ASSUME TypeOK, ReservationsWellFormed, NEW a \in Nat, NEW n \in Nat, Reserve(a, n)
    PROVE  ReservationsWellFormed'
<1>1. PICK b \in ReserveAt(a, n) :
        /\ CanReserve(b, n)
        /\ \/ pages' = Merge(pages, FreshPages(b, n, [p \in Span(b, n) |-> NoBacking],
                                               NoProtection, nextGen))
           \/ \E k \in 0 .. n - 1 : OutOfMemory(k)
  BY DEF Reserve
<1>2. b \in Nat /\ Unmapped(b, n)
  BY <1>1, AddressAssumption DEF ReserveAt, SearchResult, CanReserve
<1>3. CASE pages' = pages
  BY <1>3, SameShape
<1>4. CASE pages' = Merge(pages, FreshPages(b, n, [p \in Span(b, n) |-> NoBacking],
                                            NoProtection, nextGen))
  BY <1>2, <1>4, AddReservation
<1> QED
  BY <1>1, <1>3, <1>4 DEF OutOfMemory

\* alias_locked keeps reservations well formed.
LEMMA AliasWellFormed ==
    ASSUME ReservationsWellFormed, NEW a \in Nat, NEW s \in Nat, NEW n \in Nat,
           NEW prot \in Protection, Alias(a, s, n, prot)
    PROVE  ReservationsWellFormed'
<1> DEFINE target == [p \in Span(a, n) |-> pages[s + (p - a)].backing]
<1>1. Unmapped(a, n)
  BY DEF Alias
<1>2. \/ pages' = Merge(pages, FreshPages(a, n, target, prot, nextGen))
      \/ pages' = pages
  BY DEF Alias, OutOfMemory
<1> HIDE DEF target
<1>3. CASE pages' = pages
  BY <1>3, SameShape
<1>4. CASE pages' = Merge(pages, FreshPages(a, n, target, prot, nextGen))
  BY <1>1, <1>4, AddReservation
<1> QED
  BY <1>2, <1>3, <1>4

\* map_identity_locked keeps reservations well formed.
LEMMA MapIdentityWellFormed ==
    ASSUME ReservationsWellFormed, NEW a \in Nat, NEW n \in Nat,
           NEW prot \in Protection, MapIdentity(a, n, prot)
    PROVE  ReservationsWellFormed'
<1>1. Unmapped(a, n)
  BY DEF MapIdentity, CanReserve
<1>2. \/ \E f : pages' = Merge(pages, FreshPages(a, n, f, prot, nextGen + n))
      \/ pages' = pages
  BY DEF MapIdentity, OutOfMemory
<1>3. CASE pages' = pages
  BY <1>3, SameShape
<1>4. CASE \E f : pages' = Merge(pages, FreshPages(a, n, f, prot, nextGen + n))
  <2>1. PICK f : pages' = Merge(pages, FreshPages(a, n, f, prot, nextGen + n))
    BY <1>4
  <2> QED
    BY <1>1, <2>1, AddReservation
<1> QED
  BY <1>2, <1>3, <1>4

\* No other reservation reaches into one that disappears as a whole.
LEMMA ReleaseWellFormed ==
    ASSUME ReservationsWellFormed, NEW a \in Nat, NEW n \in Nat, Release(a, n)
    PROVE  ReservationsWellFormed'
<1>1. a \in DOMAIN pages /\ pages[a].base = a /\ pages[a].size = n
  BY DEF Release, Reserved, RangeOk, Span
<1>2. pages' = [p \in DOMAIN pages \ Span(a, n) |-> pages[p]]
  BY DEF Release
<1>3. \A q \in Span(a, n) : pages[q].base = a /\ pages[q].size = n
  BY <1>1 DEF ReservationsWellFormed
<1>4. ASSUME NEW p \in DOMAIN pages \ Span(a, n),
             NEW q \in Span(pages[p].base, pages[p].size)
      PROVE  q \in DOMAIN pages \ Span(a, n)
  <2>1. /\ q \in DOMAIN pages /\ pages[q].base = pages[p].base
        /\ pages[q].size = pages[p].size /\ p \in Span(pages[p].base, pages[p].size)
    BY DEF ReservationsWellFormed
  <2> QED
    BY <1>3, <2>1
<1> QED
  BY <1>2, <1>4 DEF ReservationsWellFormed

\* The two remnants of a split reservation are reservations, and no other
\* reservation reaches into the one that was split.
LEMMA UnmapWellFormed ==
    ASSUME TypeOK, ReservationsWellFormed, NEW a \in Nat, NEW n \in Nat, Unmap(a, n)
    PROVE  ReservationsWellFormed'
<1> DEFINE base == pages[a].base
           size == pages[a].size
           end == base + size
<1>1. Reserved(a, n)
  BY DEF Unmap
<1>2. a \in DOMAIN pages /\ n > 0
  BY <1>1 DEF Reserved, RangeOk, Span
<1>3. pages[a] \in Page
  BY <1>2 DEF TypeOK
<1>4. base \in Nat /\ size \in Nat /\ end \in Nat
  BY <1>3 DEF Page
<1>5. a >= base /\ a + n <= end
  BY DEF Unmap
<1>6. pages' = [p \in DOMAIN pages \ Span(a, n) |->
                    IF p \in base .. a - 1 THEN [pages[p] EXCEPT !.size = a - base]
                    ELSE IF p \in a + n .. end - 1
                    THEN [pages[p] EXCEPT !.base = a + n, !.size = end - (a + n)]
                    ELSE pages[p]]
  BY DEF Unmap
<1>7. \A q \in Span(base, size) : /\ q \in DOMAIN pages
                                  /\ pages[q].base = base /\ pages[q].size = size
  BY <1>2 DEF ReservationsWellFormed
<1>8. \A q \in DOMAIN pages : pages[q] \in Page
  BY DEF TypeOK
<1> HIDE DEF base, size, end
<1>9. end = base + size
  BY DEF end
<1>10. \A q \in base .. a - 1 :
          /\ q \in DOMAIN pages' /\ pages'[q].base = base /\ pages'[q].size = a - base
  <2> SUFFICES ASSUME NEW q \in base .. a - 1
               PROVE  q \in DOMAIN pages' /\ pages'[q].base = base /\ pages'[q].size = a - base
    OBVIOUS
  <2>1. q \in Span(base, size) /\ q \notin Span(a, n)
    BY <1>4, <1>5, <1>9 DEF Span
  <2>2. q \in DOMAIN pages /\ pages[q].base = base /\ pages[q] \in Page
    BY <1>7, <1>8, <2>1
  <2>3. q \in DOMAIN pages' /\ pages'[q] = [pages[q] EXCEPT !.size = a - base]
    BY <1>6, <2>1, <2>2
  <2> QED
    BY <2>2, <2>3 DEF Page
<1>11. \A q \in a + n .. end - 1 :
          /\ q \in DOMAIN pages' /\ pages'[q].base = a + n /\ pages'[q].size = end - (a + n)
  <2> SUFFICES ASSUME NEW q \in a + n .. end - 1
               PROVE  /\ q \in DOMAIN pages' /\ pages'[q].base = a + n
                      /\ pages'[q].size = end - (a + n)
    OBVIOUS
  <2>1. q \in Span(base, size) /\ q \notin Span(a, n) /\ q \notin base .. a - 1
    BY <1>4, <1>5, <1>9 DEF Span
  <2>2. q \in DOMAIN pages /\ pages[q] \in Page
    BY <1>7, <1>8, <2>1
  <2>3. q \in DOMAIN pages'
        /\ pages'[q] = [pages[q] EXCEPT !.base = a + n, !.size = end - (a + n)]
    BY <1>6, <2>1, <2>2
  <2> QED
    BY <2>2, <2>3 DEF Page
<1>12. \A q \in DOMAIN pages \ Span(base, size) : q \in DOMAIN pages' /\ pages'[q] = pages[q]
  <2> SUFFICES ASSUME NEW q \in DOMAIN pages, q \notin Span(base, size)
               PROVE  q \in DOMAIN pages' /\ pages'[q] = pages[q]
    OBVIOUS
  <2>1. q \in Nat
    BY AddressAssumption DEF TypeOK, Address
  <2>2. q \notin Span(a, n) /\ q \notin base .. a - 1 /\ q \notin a + n .. end - 1
    BY <1>4, <1>5, <1>9, <2>1 DEF Span
  <2>3. q \in DOMAIN pages \ Span(a, n)
    BY <2>2
  <2> QED
    BY <1>6, <2>2, <2>3
<1>13. ASSUME NEW p \in DOMAIN pages'
       PROVE  /\ p \in Span(pages'[p].base, pages'[p].size)
              /\ \A q \in Span(pages'[p].base, pages'[p].size) :
                   /\ q \in DOMAIN pages'
                   /\ pages'[q].base = pages'[p].base
                   /\ pages'[q].size = pages'[p].size
  <2>1. p \in DOMAIN pages /\ p \notin Span(a, n) /\ p \in Nat
    <3>1. DOMAIN pages' = DOMAIN pages \ Span(a, n)
      BY <1>6
    <3> QED
      BY <3>1, AddressAssumption DEF TypeOK, Address
  <2>2. CASE p \in base .. a - 1
    <3>1. Span(base, a - base) = base .. a - 1
      BY <1>4, <1>5 DEF Span
    <3> QED
      BY <1>10, <2>2, <3>1
  <2>3. CASE p \in a + n .. end - 1
    <3>1. Span(a + n, end - (a + n)) = a + n .. end - 1
      BY <1>4, <1>5 DEF Span
    <3> QED
      BY <1>11, <2>3, <3>1
  <2>4. CASE p \notin Span(base, size)
    <3>1. pages'[p] = pages[p]
      BY <1>12, <2>1, <2>4
    <3>2. /\ p \in Span(pages[p].base, pages[p].size)
          /\ \A q \in Span(pages[p].base, pages[p].size) :
                /\ q \in DOMAIN pages
                /\ pages[q].base = pages[p].base /\ pages[q].size = pages[p].size
      BY <2>1 DEF ReservationsWellFormed
    <3>3. \A q \in Span(pages[p].base, pages[p].size) : q \notin Span(base, size)
      BY <1>7, <2>4, <3>2
    <3> QED
      BY <1>12, <3>1, <3>2, <3>3
  <2>5. p \in base .. a - 1 \/ p \in a + n .. end - 1 \/ p \notin Span(base, size)
    BY <1>4, <1>5, <1>9, <2>1 DEF Span
  <2> QED
    BY <2>2, <2>3, <2>4, <2>5
<1> QED
  BY <1>13 DEF ReservationsWellFormed

\* Steps that rewrite pages in place.
LEMMA InPlaceWellFormed ==
    ASSUME ReservationsWellFormed, TypeOK, NEW a \in Nat, NEW n \in Nat, NEW h, NEW prot,
           NEW mode, NEW v,
           \/ Commit(a, n, prot) \/ Decommit(a, n) \/ Protect(a, n, prot)
           \/ CommitExternal(a, h, n, prot) \/ BindKuser(h)
           \/ ConsumeGuard(a, n, mode) \/ ReadOrFetch(a, n, mode) \/ Write(a, n, v)
    PROVE  ReservationsWellFormed'
<1> DEFINE Same == /\ DOMAIN pages' = DOMAIN pages
                   /\ \A p \in DOMAIN pages : /\ pages'[p].base = pages[p].base
                                              /\ pages'[p].size = pages[p].size
<1>0. \A p \in DOMAIN pages : pages[p] \in Page
  BY DEF TypeOK
<1>1. ASSUME NEW f, NEW q, pages' = WithBackings(a, n, f, q, nextGen)
      PROVE  Same
  BY <1>0, <1>1 DEF WithBackings, Page
<1>2. CASE Commit(a, n, prot) \/ Decommit(a, n) \/ Protect(a, n, prot)
           \/ CommitExternal(a, h, n, prot)
  <2>1. \E f, q : pages' = WithBackings(a, n, f, q, nextGen)
    BY <1>2 DEF Commit, Decommit, Protect, CommitExternal
  <2> QED
    BY <1>1, <2>1, SameShape
<1>3. CASE BindKuser(h)
  <2>1. PICK e : pages' = [pages EXCEPT
                 ![KuserCanonical].backing = e,
                 ![KuserCanonical].generation = nextGen + 1,
                 ![KuserShared].backing = e,
                 ![KuserShared].generation = nextGen + 2]
    BY <1>3 DEF BindKuser
  <2>2. Same
    BY <1>0, <2>1 DEF Page
  <2> QED
    BY <2>2, SameShape
<1>4. CASE ConsumeGuard(a, n, mode)
  <2>1. PICK g : pages' = [pages EXCEPT ![g].protection.guard = FALSE,
                                        ![g].generation = nextGen + 1]
    BY <1>4 DEF ConsumeGuard
  <2>2. Same
    BY <1>0, <2>1 DEF Page
  <2> QED
    BY <2>2, SameShape
<1>5. CASE ReadOrFetch(a, n, mode)
  <2>1. DOMAIN pages' = DOMAIN pages
    BY <1>5 DEF ReadOrFetch
  <2>2. ASSUME NEW p \in DOMAIN pages
        PROVE  pages'[p].base = pages[p].base /\ pages'[p].size = pages[p].size
    <3>1. pages'[p] \in {pages[p], [pages[p] EXCEPT !.protection.access = Detached(@)]}
      BY <1>5 DEF ReadOrFetch
    <3> QED
      BY <1>0, <3>1 DEF Page
  <2> QED
    BY <2>1, <2>2, SameShape
<1>6. CASE Write(a, n, v)
  <2> DEFINE C == CopyOnWrite(a, n)
             gen == nextGen + Cardinality(C)
             target(f) == [p \in Span(a, n) |-> IF p \in C THEN f[p] ELSE pages[p].backing]
  <2>1. PICK f : pages' =
                [p \in DOMAIN pages |->
                   IF p \in Span(a, n)
                   THEN [pages[p] EXCEPT
                            !.backing = target(f)[p],
                            !.protection.access = Detached(@),
                            !.generation = gen + 2 * (p - a) + 2]
                   ELSE pages[p]]
    BY <1>6 DEF Write
  <2> HIDE DEF gen, target
  <2>2. Same
    BY <1>0, <2>1 DEF Page
  <2> QED
    BY <2>2, SameShape
<1> QED
  BY <1>2, <1>3, <1>4, <1>5, <1>6

\* Every step of the specification keeps reservations well formed.
LEMMA NextWellFormed ==
    ASSUME TypeOK, ReservationsWellFormed, [Next]_memoryVars
    PROVE  ReservationsWellFormed'
<1>1. CASE UNCHANGED pages
  BY <1>1, SameShape
<1>2. CASE Next
  <2> USE AddressAssumption, BackingAssumption
  <2>1. ASSUME NEW r \in Ranges, \/ Reserve(r[1], r[2]) \/ Release(r[1], r[2])
                                 \/ Unmap(r[1], r[2]) \/ Decommit(r[1], r[2])
        PROVE  ReservationsWellFormed'
    BY <2>1, ReserveWellFormed, ReleaseWellFormed, UnmapWellFormed, InPlaceWellFormed
  <2>2. ASSUME NEW r \in Ranges, NEW prot \in Protections,
               \/ Commit(r[1], r[2], prot)
               \/ Protect(r[1], r[2], prot)
               \/ \E s \in Address : Alias(r[1], s, r[2], prot)
               \/ MapIdentity(r[1], r[2], prot)
               \/ \E h \in HostPages : CommitExternal(r[1], h, r[2], prot)
        PROVE  ReservationsWellFormed'
    <3>1. prot \in Protection /\ r[1] \in Nat /\ r[2] \in Nat
      OBVIOUS
    <3>2. \A s \in Address : s \in Nat
      BY DEF Address
    <3> QED
      BY <2>2, <3>1, <3>2, InPlaceWellFormed, AliasWellFormed, MapIdentityWellFormed
  <2>3. ASSUME NEW r \in Ranges, \/ \E mode : ConsumeGuard(r[1], r[2], mode)
                                 \/ \E mode : ReadOrFetch(r[1], r[2], mode)
                                 \/ \E v : Write(r[1], r[2], v)
        PROVE  ReservationsWellFormed'
    BY <2>3, InPlaceWellFormed
  <2>4. ASSUME NEW h, BindKuser(h)
        PROVE  ReservationsWellFormed'
    <3>1. 0 \in Nat
      OBVIOUS
    <3> QED
      BY <2>4, <3>1, InPlaceWellFormed
  <2>5. CASE Destroy
    <3>1. DOMAIN pages' = {}
      <4>1. pages' = << >>
        BY <2>5 DEF Destroy
      <4>2. DOMAIN << >> = {}
        BY SMT
      <4> QED
        BY <4>1, <4>2
    <3> QED
      BY <3>1 DEF ReservationsWellFormed
  <2>6. CASE \E h \in HostPages, v \in Contents : HostWrite(h, v)
    BY <2>6, <1>1 DEF HostWrite
  <2> QED
    BY <1>2, <2>1, <2>2, <2>3, <2>4, <2>5, <2>6 DEF Next, Operation
<1> QED
  BY <1>1, <1>2 DEF memoryVars

\* A page always lies in a reservation that is completely mapped, so the
\* unchecked page lookups of unmap_locked and release_locked succeed, for
\* every sequence of reservations, splits, aliases, identity maps and releases.
THEOREM ReservationsStayWellFormed == Spec => []ReservationsWellFormed
<1>1. Init => ReservationsWellFormed
  <2> SUFFICES ASSUME Init PROVE ReservationsWellFormed
    OBVIOUS
  <2>1. PICK b : pages = [p \in {KuserCanonical, KuserShared} |->
                        [base |-> p, size |-> 1, backing |-> b,
                         protection |-> [access |-> "READWRITE", guard |-> FALSE],
                         generation |-> IF p = KuserCanonical THEN 2 ELSE 3]]
    BY DEF Init
  <2>2. \A p \in DOMAIN pages : pages[p].base = p /\ pages[p].size = 1 /\ p \in Nat
    BY <2>1, AddressAssumption
  <2>3. \A p \in Nat : Span(p, 1) = {p}
    BY DEF Span
  <2> QED
    BY <2>2, <2>3 DEF ReservationsWellFormed
<1>2. TypeOK /\ ReservationsWellFormed /\ [Next]_memoryVars => ReservationsWellFormed'
  BY NextWellFormed
<1> QED
  BY <1>1, <1>2, TypeCorrect, PTL DEF Spec
-----------------------------------------------------------------------------
(* Reference counts.  The counts are compared with the function from pages  *)
(* to the backings they point to, so that a step that drops references and  *)
(* then takes new ones can be taken apart.                                  *)

\* Which backing each page points to.
Owners == [p \in DOMAIN pages |-> pages[p].backing]

\* The pages of O that point to b.
Pointing(O, b) == {p \in DOMAIN O : O[p] = b}

\* The pages of S that f gives the backing b.
Sharing(f, S, b) == {p \in S : f[p] = b}

\* RefsExact for the owners O and the backings B, when P[b] more references to
\* each backing b are held by somebody else.
CountsExact(O, B, P) ==
    /\ \A b \in DOMAIN B : B[b].refs > 0 /\ B[b].refs = Cardinality(Pointing(O, b)) + P[b]
    /\ \A p \in DOMAIN O : O[p] # NoBacking => O[p] \in DOMAIN B
    /\ \A b \in Backings : P[b] > 0 => b \in DOMAIN B

\* The same for the page table as it is.
PinnedExact(P) ==
    /\ \A b \in DOMAIN backings :
          /\ backings[b].refs > 0
          /\ backings[b].refs
                = Cardinality({p \in DOMAIN pages : pages[p].backing = b}) + P[b]
    /\ \A p \in DOMAIN pages :
          pages[p].backing # NoBacking => pages[p].backing \in DOMAIN backings
    /\ \A b \in Backings : P[b] > 0 => b \in DOMAIN backings

\* The counts are exact when they are exact for the owners.
LEMMA ExactByOwners ==
    ASSUME NEW P \in [Backings -> Nat]
    PROVE  PinnedExact(P) <=> CountsExact(Owners, backings, P)
<1>1. DOMAIN Owners = DOMAIN pages /\ \A p \in DOMAIN pages : Owners[p] = pages[p].backing
  BY DEF Owners
<1>2. \A b : Pointing(Owners, b) = {p \in DOMAIN pages : pages[p].backing = b}
  BY <1>1 DEF Pointing
<1> QED
  BY <1>1, <1>2 DEF PinnedExact, CountsExact

\* The page table is finite, so the pages that point to a backing can be counted.
LEMMA PointingFinite ==
    ASSUME TypeOK, NEW O, DOMAIN O \subseteq Address, NEW b
    PROVE  IsFiniteSet(Pointing(O, b))
<1>1. IsFiniteSet(Address)
  BY FS_Interval, AddressAssumption DEF Address
<1>2. Pointing(O, b) \subseteq Address
  BY DEF Pointing
<1> QED
  BY <1>1, <1>2, FS_Subset

\* What drop leaves of a backing is the number of pages that still point to it.
LEMMA DropLeft ==
    ASSUME TypeOK, NEW P \in [Backings -> Nat], PinnedExact(P), NEW S, S \subseteq DOMAIN pages, NEW b \in DOMAIN backings
    PROVE  /\ IsFiniteSet(Pointing(Owners, b) \ S)
           /\ backings[b].refs - Cardinality({p \in S : pages[p].backing = b})
                = Cardinality(Pointing(Owners, b) \ S) + P[b]
           /\ P[b] \in Nat
<1> DEFINE H == Pointing(Owners, b)
<1>1. IsFiniteSet(H)
  <2>1. DOMAIN Owners \subseteq Address
    BY DEF Owners, TypeOK
  <2> QED
    BY <2>1, PointingFinite
<1>2. backings[b].refs = Cardinality(H) + P[b] /\ P[b] \in Nat
  BY ExactByOwners DEF CountsExact, TypeOK
<1>3. {p \in S : pages[p].backing = b} = H \cap S
  BY DEF Pointing, Owners
<1> HIDE DEF H
<1>4. IsFiniteSet(H \ S) /\ Cardinality(H \ S) = Cardinality(H) - Cardinality(H \cap S)
  BY <1>1, FS_Difference
<1>5. /\ Cardinality(H) \in Nat
      /\ IsFiniteSet(H \cap S) /\ Cardinality(H \cap S) \in Nat
  BY <1>1, FS_CardinalityType, FS_Intersection
<1>6. backings[b].refs - Cardinality(H \cap S) = Cardinality(H \ S) + P[b]
  BY <1>2, <1>4, <1>5
<1> QED
  BY <1>2, <1>3, <1>4, <1>6 DEF H

\* Dropping the references of the pages in S: exact for any table in which
\* those pages are gone or point to nothing and the others are as before.
LEMMA DropExact ==
    ASSUME TypeOK, NEW P \in [Backings -> Nat], PinnedExact(P), NEW S, S \subseteq DOMAIN pages,
           NEW O, DOMAIN O \subseteq DOMAIN pages,
           \A p \in DOMAIN pages \ S : p \in DOMAIN O /\ O[p] = pages[p].backing,
           \A p \in DOMAIN O \cap S : O[p] = NoBacking
    PROVE  CountsExact(O, DropPages(S), P)
<1> DEFINE left(b) == backings[b].refs - Cardinality({p \in S : pages[p].backing = b})
           D == {c \in DOMAIN backings : left(c) > 0}
<1>1. DropPages(S) = [b \in D |-> [backings[b] EXCEPT !.refs = left(b)]]
  BY DEF DropPages
<1>2. ASSUME NEW b \in DOMAIN backings
      PROVE  /\ IsFiniteSet(Pointing(O, b))
             /\ left(b) = Cardinality(Pointing(O, b)) + P[b] /\ P[b] \in Nat
  <2>1. b # NoBacking
    BY BackingAssumption DEF TypeOK
  <2>2. Pointing(O, b) = Pointing(Owners, b) \ S
    BY <2>1 DEF Pointing, Owners
  <2>3. /\ IsFiniteSet(Pointing(Owners, b) \ S)
        /\ left(b) = Cardinality(Pointing(Owners, b) \ S) + P[b] /\ P[b] \in Nat
    BY DropLeft
  <2> HIDE DEF left
  <2> QED
    BY <2>2, <2>3
<1>3. \A b \in D : DropPages(S)[b].refs = left(b)
  <2> SUFFICES ASSUME NEW b \in D PROVE DropPages(S)[b].refs = left(b)
    OBVIOUS
  <2>1. backings[b] \in Backing
    BY DEF TypeOK
  <2>2. DropPages(S)[b] = [backings[b] EXCEPT !.refs = left(b)]
    BY <1>1
  <2> HIDE DEF left
  <2> QED
    BY <2>1, <2>2 DEF Backing
<1> HIDE DEF left
<1>4. ASSUME NEW p \in DOMAIN O, O[p] # NoBacking
      PROVE  O[p] \in D
  <2>1. p \in DOMAIN pages \ S /\ O[p] = pages[p].backing
    BY <1>4
  <2>2. O[p] \in DOMAIN backings
    BY <1>4, <2>1 DEF PinnedExact
  <2>3. p \in Pointing(O, O[p])
    BY DEF Pointing
  <2> DEFINE H == Pointing(O, O[p])
  <2>4. IsFiniteSet(H) /\ left(O[p]) = Cardinality(H) + P[O[p]] /\ P[O[p]] \in Nat
    BY <1>2, <2>2
  <2>5. H # {}
    BY <2>3
  <2> HIDE DEF H
  <2>6. Cardinality(H) \in Nat /\ Cardinality(H) # 0
    BY <2>4, <2>5, FS_EmptySet, FS_CardinalityType
  <2>7. left(O[p]) > 0
    BY <2>4, <2>6
  <2> QED
    BY <2>2, <2>7
<1>5. ASSUME NEW b \in Backings, P[b] > 0
      PROVE  b \in D
  <2>1. b \in DOMAIN backings
    BY <1>5 DEF PinnedExact
  <2> DEFINE H == Pointing(O, b)
  <2>2. IsFiniteSet(H) /\ left(b) = Cardinality(H) + P[b] /\ P[b] \in Nat
    BY <1>2, <2>1
  <2> HIDE DEF H
  <2>3. left(b) > 0
    BY <1>5, <2>2, FS_CardinalityType
  <2> QED
    BY <2>1, <2>3
<1> QED
  BY <1>1, <1>2, <1>3, <1>4, <1>5 DEF CountsExact

\* O2 and B2 are O and B with the pages in S, which pointed to nothing or were
\* not there, given the new backings f.
GivesNew(O, B, S, f, O2, B2) ==
    /\ \A p \in S : f[p] \notin DOMAIN B /\ f[p] \in Backings
    /\ \A p \in S \cap DOMAIN O : O[p] = NoBacking
    /\ DOMAIN O2 = DOMAIN O \cup S
    /\ \A p \in DOMAIN O \ S : O2[p] = O[p]
    /\ \A p \in S : O2[p] = f[p]
    /\ DOMAIN B2 = DOMAIN B \cup {f[p] : p \in S}
    /\ \A b \in DOMAIN B : B2[b].refs = B[b].refs
    /\ \A p \in S : /\ B2[f[p]].refs \in Nat /\ B2[f[p]].refs > 0
                    /\ B2[f[p]].refs = Cardinality(Sharing(f, S, f[p]))

\* New backings have as many references as there are pages pointing to them.
LEMMA NewExact ==
    ASSUME NEW O, NEW B, NEW P \in [Backings -> Nat], CountsExact(O, B, P),
           NoBacking \notin DOMAIN B,
           NEW S, NEW f, NEW O2, NEW B2, GivesNew(O, B, S, f, O2, B2)
    PROVE  CountsExact(O2, B2, P)
<1> USE DEF GivesNew
<1>1. \A b \in DOMAIN B : Pointing(O2, b) = Pointing(O, b)
  BY DEF Pointing
<1>2. ASSUME NEW p \in S
      PROVE  Pointing(O2, f[p]) = Sharing(f, S, f[p])
  BY BackingAssumption DEF Pointing, CountsExact, Sharing
<1>3. ASSUME NEW b \in DOMAIN B2
      PROVE  B2[b].refs > 0 /\ B2[b].refs = Cardinality(Pointing(O2, b)) + P[b]
  <2>1. CASE b \in DOMAIN B
    BY <1>1, <2>1 DEF CountsExact
  <2>2. CASE b \notin DOMAIN B
    <3>1. PICK p \in S : b = f[p]
      BY <2>2
    <3>2. P[b] = 0 /\ B2[b].refs = Cardinality(Sharing(f, S, b)) /\ B2[b].refs > 0
      BY <2>2, <3>1 DEF CountsExact
    <3>3. Pointing(O2, b) = Sharing(f, S, b)
      BY <1>2, <3>1
    <3> DEFINE k == Cardinality(Sharing(f, S, b))
    <3>4. k \in Nat
      BY <3>1, <3>2
    <3> HIDE DEF k
    <3>5. B2[b].refs = k + P[b]
      BY <3>2, <3>4 DEF k
    <3> QED
      BY <3>2, <3>3, <3>5 DEF k
  <2> QED
    BY <2>1, <2>2
<1>4. \A p \in DOMAIN O2 : O2[p] # NoBacking => O2[p] \in DOMAIN B2
  BY DEF CountsExact
<1> QED
  BY <1>3, <1>4 DEF CountsExact

\* O2 and B2 are O and B with the pages in S given backings of new_backing.
GivesOwn(O, B, S, f, O2, B2) ==
    /\ \A p \in S \cap DOMAIN O : O[p] = NoBacking
    /\ DOMAIN O2 = DOMAIN O \cup S
    /\ \A p \in DOMAIN O \ S : O2[p] = O[p]
    /\ \A p \in S : O2[p] = f[p]
    /\ \E h, junk : LET B1 == Merge(B, NewBackings(f, S, h, junk))
                    IN  /\ DOMAIN B2 = DOMAIN B1
                        /\ \A b \in DOMAIN B2 : B2[b].refs = B1[b].refs

\* new_backing gives every page of S a backing of its own, with one reference.
LEMMA NewBackingsExact ==
    ASSUME NEW O, NEW B, NEW P \in [Backings -> Nat], CountsExact(O, B, P),
           NoBacking \notin DOMAIN B,
           DOMAIN B \subseteq DOMAIN backings,
           NEW S, NEW f \in Allocations(S), NEW O2, NEW B2, GivesOwn(O, B, S, f, O2, B2)
    PROVE  CountsExact(O2, B2, P)
<1>0. PICK h, junk :
        /\ DOMAIN B2 = DOMAIN Merge(B, NewBackings(f, S, h, junk))
        /\ \A b \in DOMAIN B2 : B2[b].refs = Merge(B, NewBackings(f, S, h, junk))[b].refs
  BY DEF GivesOwn
<1> DEFINE g == NewBackings(f, S, h, junk)
<1>1. DOMAIN g = {f[p] : p \in S} /\ \A p \in S : g[f[p]].refs = 1
  BY DEF NewBackings
<1>2. \A p \in S : f[p] \notin DOMAIN B /\ f[p] \in Backings
  BY DEF Allocations
<1> HIDE DEF g
<1>3. /\ DOMAIN Merge(B, g) = DOMAIN B \cup {f[p] : p \in S}
      /\ \A b \in DOMAIN B : Merge(B, g)[b] = B[b]
      /\ \A p \in S : Merge(B, g)[f[p]] = g[f[p]]
  BY <1>1, <1>2 DEF Merge
<1>4. ASSUME NEW p \in S
      PROVE  Cardinality(Sharing(f, S, f[p])) = 1
  <2>1. Sharing(f, S, f[p]) = {p}
    BY DEF Allocations, Sharing
  <2> QED
    BY <2>1, FS_Singleton
<1>5. DOMAIN B2 = DOMAIN B \cup {f[p] : p \in S}
  BY <1>0, <1>3 DEF g
<1>6. \A b \in DOMAIN B : B2[b].refs = B[b].refs
  BY <1>0, <1>3, <1>5 DEF g
<1>7. \A p \in S : B2[f[p]].refs = 1
  BY <1>0, <1>1, <1>3, <1>5 DEF g
<1>8. \A p \in S : /\ B2[f[p]].refs \in Nat /\ B2[f[p]].refs > 0
                   /\ B2[f[p]].refs = Cardinality(Sharing(f, S, f[p]))
  BY <1>4, <1>7
<1>9. GivesNew(O, B, S, f, O2, B2)
  BY <1>2, <1>5, <1>6, <1>8 DEF GivesNew, GivesOwn
<1> QED
  BY <1>9, NewExact

\* The same for the state after a step.
LEMMA ExactByOwnersNext ==
    ASSUME NEW P \in [Backings -> Nat], CountsExact(Owners', backings', P)
    PROVE  PinnedExact(P)'
<1>1. DOMAIN Owners' = DOMAIN pages' /\ \A p \in DOMAIN pages' : Owners'[p] = pages'[p].backing
  BY DEF Owners
<1>2. \A b : Pointing(Owners', b) = {p \in DOMAIN pages' : pages'[p].backing = b}
  BY <1>1 DEF Pointing
<1> QED
  BY <1>1, <1>2 DEF PinnedExact, CountsExact

\* A step after which the same pages point to each backing.
LEMMA SameExact ==
    ASSUME TypeOK, NEW P \in [Backings -> Nat], PinnedExact(P), backings' = backings,
           DOMAIN pages \subseteq DOMAIN pages',
           \A p \in DOMAIN pages : pages'[p].backing = pages[p].backing,
           \A p \in DOMAIN pages' \ DOMAIN pages : pages'[p].backing = NoBacking
    PROVE  PinnedExact(P)'
<1>1. ASSUME NEW b \in DOMAIN backings
      PROVE  {p \in DOMAIN pages' : pages'[p].backing = b}
               = {p \in DOMAIN pages : pages[p].backing = b}
  BY BackingAssumption DEF TypeOK
<1> QED
  BY <1>1 DEF PinnedExact

\* A new reservation has no backings.
LEMMA ReserveExact ==
    ASSUME TypeOK, NEW P \in [Backings -> Nat], PinnedExact(P), NEW a \in Nat, NEW n \in Nat, Reserve(a, n)
    PROVE  PinnedExact(P)'
<1>1. PICK b :
        /\ CanReserve(b, n)
        /\ \/ pages' = Merge(pages, FreshPages(b, n, [p \in Span(b, n) |-> NoBacking],
                                               NoProtection, nextGen))
           \/ pages' = pages
        /\ backings' = backings
  BY DEF Reserve, OutOfMemory
<1>2. CASE pages' = pages
  BY <1>1, <1>2, SameExact
<1>3. CASE pages' = Merge(pages, FreshPages(b, n, [p \in Span(b, n) |-> NoBacking],
                                            NoProtection, nextGen))
  <2>1. /\ DOMAIN pages' = DOMAIN pages \cup Span(b, n)
        /\ \A p \in Span(b, n) : pages'[p].backing = NoBacking
        /\ \A p \in DOMAIN pages \ Span(b, n) : pages'[p] = pages[p]
    BY <1>3 DEF Merge, FreshPages
  <2>2. DOMAIN pages \cap Span(b, n) = {}
    BY <1>1 DEF CanReserve, Unmapped
  <2> QED
    BY <1>1, <2>1, <2>2, SameExact
<1> QED
  BY <1>1, <1>2, <1>3

\* Release, unmap and destroy drop the references of the pages that go away.
LEMMA RemoveExact ==
    ASSUME TypeOK, NEW P \in [Backings -> Nat], PinnedExact(P), NEW S, S \subseteq DOMAIN pages,
           backings' = DropPages(S), DOMAIN pages' = DOMAIN pages \ S,
           \A p \in DOMAIN pages \ S : pages'[p].backing = pages[p].backing
    PROVE  PinnedExact(P)'
<1>1. /\ DOMAIN Owners' \subseteq DOMAIN pages
      /\ \A p \in DOMAIN pages \ S : p \in DOMAIN Owners' /\ Owners'[p] = pages[p].backing
      /\ \A p \in DOMAIN Owners' \cap S : Owners'[p] = NoBacking
  BY DEF Owners
<1>2. CountsExact(Owners', DropPages(S), P)
  BY <1>1, DropExact
<1> QED
  BY <1>2, ExactByOwnersNext

\* release_locked drops what its pages held.
LEMMA ReleaseExact ==
    ASSUME TypeOK, NEW P \in [Backings -> Nat], PinnedExact(P), NEW a \in Nat, NEW n \in Nat, Release(a, n)
    PROVE  PinnedExact(P)'
BY RemoveExact DEF Release, Reserved

\* unmap_locked drops what its pages held; the remnants keep theirs.
LEMMA UnmapExact ==
    ASSUME TypeOK, NEW P \in [Backings -> Nat], PinnedExact(P), NEW a \in Nat, NEW n \in Nat, Unmap(a, n)
    PROVE  PinnedExact(P)'
<1> DEFINE base == pages[a].base
           end == base + pages[a].size
<1>1. /\ Reserved(a, n)
      /\ backings' = DropPages(Span(a, n))
      /\ pages' = [p \in DOMAIN pages \ Span(a, n) |->
                    IF p \in base .. a - 1 THEN [pages[p] EXCEPT !.size = a - base]
                    ELSE IF p \in a + n .. end - 1
                    THEN [pages[p] EXCEPT !.base = a + n, !.size = end - (a + n)]
                    ELSE pages[p]]
  BY DEF Unmap
<1> HIDE DEF base, end
<1>2. ASSUME NEW p \in DOMAIN pages \ Span(a, n)
      PROVE  pages'[p].backing = pages[p].backing
  <2>1. pages[p] \in Page
    BY DEF TypeOK
  <2> QED
    BY <1>1, <2>1 DEF Page
<1>3. DOMAIN pages' = DOMAIN pages \ Span(a, n)
  BY <1>1
<1>4. Span(a, n) \subseteq DOMAIN pages
  BY <1>1 DEF Reserved
<1> QED
  BY <1>1, <1>2, <1>3, <1>4, RemoveExact

\* gem_memory_destroy drops what every page held.
LEMMA DestroyExact ==
    ASSUME TypeOK, NEW P \in [Backings -> Nat], PinnedExact(P), Destroy
    PROVE  PinnedExact(P)'
<1>1. pages' = << >> /\ backings' = DropPages(DOMAIN pages)
  BY DEF Destroy
<1>2. DOMAIN << >> = {}
  BY SMT
<1>3. DOMAIN pages' = DOMAIN pages \ DOMAIN pages
  BY <1>1, <1>2
<1> QED
  BY <1>1, <1>3, RemoveExact

\* Pages of a range given backings f: who points to what afterwards.
LEMMA WithBackingsOwners ==
    ASSUME TypeOK, NEW a \in Nat, NEW n \in Nat, NEW prot, NEW f,
           \A p \in DOMAIN f : f[p] \in Backings \cup {NoBacking},
           pages' = WithBackings(a, n, f, prot, nextGen)
    PROVE  /\ DOMAIN pages' = DOMAIN pages
           /\ DOMAIN Owners' = DOMAIN pages
           /\ \A p \in DOMAIN pages : Owners'[p] = pages'[p].backing
           /\ \A p \in DOMAIN pages :
                 Owners'[p] = IF p \in Span(a, n) \cap DOMAIN f THEN f[p]
                              ELSE pages[p].backing
<1>1. DOMAIN pages' = DOMAIN pages
  BY DEF WithBackings
<1>2. ASSUME NEW p \in DOMAIN pages
      PROVE  pages'[p].backing = IF p \in Span(a, n) \cap DOMAIN f THEN f[p]
                                 ELSE pages[p].backing
  <2>1. pages[p] \in Page
    BY DEF TypeOK
  <2> QED
    BY <2>1 DEF WithBackings, Page
<1> QED
  BY <1>1, <1>2 DEF Owners

\* Protect keeps every reference; decommit drops those of its range.
LEMMA DecommitExact ==
    ASSUME TypeOK, NEW P \in [Backings -> Nat], PinnedExact(P), NEW a \in Nat, NEW n \in Nat, Decommit(a, n)
    PROVE  PinnedExact(P)'
<1> DEFINE S == Span(a, n)
           f == [p \in S |-> NoBacking]
<1>1. /\ S \subseteq DOMAIN pages
      /\ backings' = DropPages(S)
      /\ \E prot : pages' = WithBackings(a, n, f, prot, nextGen)
  BY DEF Decommit, Reserved
<1>2. /\ DOMAIN Owners' = DOMAIN pages
      /\ \A p \in DOMAIN pages : Owners'[p] = IF p \in S THEN NoBacking ELSE pages[p].backing
  <2>1. DOMAIN f = S /\ \A p \in S : f[p] = NoBacking
    OBVIOUS
  <2> HIDE DEF f
  <2> QED
    BY <1>1, <2>1, WithBackingsOwners
<1> HIDE DEF S, f
<1>3. CountsExact(Owners', DropPages(S), P)
  BY <1>1, <1>2, DropExact
<1> QED
  BY <1>1, <1>3, ExactByOwnersNext

\* protect_locked keeps every reference.
LEMMA ProtectExact ==
    ASSUME TypeOK, NEW P \in [Backings -> Nat], PinnedExact(P), NEW a \in Nat, NEW n \in Nat, NEW prot, Protect(a, n, prot)
    PROVE  PinnedExact(P)'
<1>1. backings' = backings /\ pages' = WithBackings(a, n, << >>, prot, nextGen)
  BY DEF Protect
<1>2. DOMAIN << >> = {}
  BY SMT
<1>3. DOMAIN pages' = DOMAIN pages
      /\ \A p \in DOMAIN pages : pages'[p].backing = pages[p].backing
  BY <1>1, <1>2, WithBackingsOwners
<1> QED
  BY <1>1, <1>3, SameExact

\* Commit gives the pages that had none a backing of their own.
LEMMA CommitsExact ==
    ASSUME TypeOK, NEW P \in [Backings -> Nat], PinnedExact(P), NEW a \in Nat, NEW n \in Nat, NEW prot, NEW h, NEW junk,
           NEW S, S = {p \in Span(a, n) : pages[p].backing = NoBacking},
           Reserved(a, n), NEW f \in Allocations(S),
           backings' = Merge(backings, NewBackings(f, S, h, junk)),
           pages' = WithBackings(a, n, f, prot, nextGen)
    PROVE  PinnedExact(P)'
<1>1. DOMAIN f = S /\ \A p \in DOMAIN f : f[p] \in Backings \cup {NoBacking}
  BY DEF Allocations
<1>2. Span(a, n) \subseteq DOMAIN pages
  BY DEF Reserved
<1>3. /\ DOMAIN Owners' = DOMAIN pages
      /\ \A p \in DOMAIN pages :
            Owners'[p] = IF p \in Span(a, n) \cap DOMAIN f THEN f[p] ELSE pages[p].backing
  BY <1>1, WithBackingsOwners
<1>4. DOMAIN Owners = DOMAIN pages /\ \A p \in DOMAIN pages : Owners[p] = pages[p].backing
  BY DEF Owners
<1>5. CountsExact(Owners, backings, P) /\ NoBacking \notin DOMAIN backings
  BY ExactByOwners, BackingAssumption DEF TypeOK
<1>6. /\ \A p \in S \cap DOMAIN Owners : Owners[p] = NoBacking
      /\ DOMAIN Owners' = DOMAIN Owners \cup S
      /\ \A p \in DOMAIN Owners \ S : Owners'[p] = Owners[p]
      /\ \A p \in S : Owners'[p] = f[p]
  BY <1>1, <1>2, <1>3, <1>4
<1>7. GivesOwn(Owners, backings, S, f, Owners', backings')
  BY <1>6 DEF GivesOwn
<1>8. CountsExact(Owners', backings', P)
  BY <1>5, <1>7, NewBackingsExact
<1> QED
  BY <1>8, ExactByOwnersNext

\* commit_locked keeps the counts exact.
LEMMA CommitExact ==
    ASSUME TypeOK, NEW P \in [Backings -> Nat], PinnedExact(P), NEW a \in Nat, NEW n \in Nat, NEW prot, Commit(a, n, prot)
    PROVE  PinnedExact(P)'
<1> DEFINE S == {p \in Span(a, n) : pages[p].backing = NoBacking}
           h == [p \in S |-> NoHost]
<1>1. PICK f \in Allocations(S), junk \in [S -> Garbage] :
        /\ backings' = Merge(backings, NewBackings(f, S, h, junk))
        /\ pages' = WithBackings(a, n, f, prot, nextGen)
  BY DEF Commit
<1>2. Reserved(a, n) /\ S = {p \in Span(a, n) : pages[p].backing = NoBacking}
  BY DEF Commit
<1> HIDE DEF S, h
<1> QED
  BY <1>1, <1>2, CommitsExact

\* commit_external_locked keeps the counts exact.
LEMMA CommitExternalExact ==
    ASSUME TypeOK, NEW P \in [Backings -> Nat], PinnedExact(P), NEW a \in Nat, NEW n \in Nat, NEW h, NEW prot,
           CommitExternal(a, h, n, prot)
    PROVE  PinnedExact(P)'
<1> DEFINE S == {p \in Span(a, n) : pages[p].backing = NoBacking}
           hosts == [p \in S |-> h + (p - a)]
<1>1. PICK f \in Allocations(S), junk \in [S -> Garbage] :
        /\ backings' = Merge(backings, NewBackings(f, S, hosts, junk))
        /\ pages' = WithBackings(a, n, f, prot, nextGen)
  BY DEF CommitExternal
<1>2. Reserved(a, n) /\ S = {p \in Span(a, n) : pages[p].backing = NoBacking}
  BY DEF CommitExternal
<1> HIDE DEF S, hosts
<1> QED
  BY <1>1, <1>2, CommitsExact

\* An identity map gives each of its pages a backing of its own.
LEMMA MapIdentityExact ==
    ASSUME TypeOK, NEW P \in [Backings -> Nat], PinnedExact(P), NEW a \in Nat, NEW n \in Nat, NEW prot,
           MapIdentity(a, n, prot)
    PROVE  PinnedExact(P)'
<1> DEFINE S == Span(a, n)
           h == [p \in S |-> p]
<1>1. CASE \E k \in 0 .. 2 * n - 1 : OutOfMemory(k)
  BY <1>1, SameExact DEF OutOfMemory
<1>2. CASE \E f \in Allocations(S), junk \in [S -> Garbage] :
                 /\ backings' = Merge(backings, NewBackings(f, S, h, junk))
                 /\ pages' = Merge(pages, FreshPages(a, n, f, prot, nextGen + n))
  <2>1. PICK f \in Allocations(S), junk \in [S -> Garbage] :
                 /\ backings' = Merge(backings, NewBackings(f, S, h, junk))
                 /\ pages' = Merge(pages, FreshPages(a, n, f, prot, nextGen + n))
    BY <1>2
  <2>2. S \cap DOMAIN pages = {}
    BY DEF MapIdentity, CanReserve, Unmapped
  <2>3. /\ DOMAIN pages' = DOMAIN pages \cup S
        /\ \A p \in S : pages'[p].backing = f[p]
        /\ \A p \in DOMAIN pages \ S : pages'[p] = pages[p]
    BY <2>1 DEF Merge, FreshPages
  <2>4. CountsExact(Owners, backings, P) /\ NoBacking \notin DOMAIN backings
    BY ExactByOwners, BackingAssumption DEF TypeOK
  <2> HIDE DEF S, h
  <2>5. /\ \A p \in S \cap DOMAIN Owners : Owners[p] = NoBacking
        /\ DOMAIN Owners' = DOMAIN Owners \cup S
        /\ \A p \in DOMAIN Owners \ S : Owners'[p] = Owners[p]
        /\ \A p \in S : Owners'[p] = f[p]
    BY <2>2, <2>3 DEF Owners
  <2>6. GivesOwn(Owners, backings, S, f, Owners', backings')
    BY <2>1, <2>5 DEF GivesOwn
  <2>7. CountsExact(Owners', backings', P)
    BY <2>4, <2>6, NewBackingsExact
  <2> QED
    BY <2>7, ExactByOwnersNext
<1> QED
  BY <1>1, <1>2 DEF MapIdentity

\* Taking a guard off, reading and fetching leave every reference alone.
LEMMA GuardExact ==
    ASSUME TypeOK, NEW P \in [Backings -> Nat], PinnedExact(P), NEW a \in Nat, NEW n \in Nat, NEW mode,
           ConsumeGuard(a, n, mode) \/ ReadOrFetch(a, n, mode)
    PROVE  PinnedExact(P)'
<1>0. \A p \in DOMAIN pages : pages[p] \in Page
  BY DEF TypeOK
<1>1. CASE ConsumeGuard(a, n, mode)
  <2>1. PICK g : pages' = [pages EXCEPT ![g].protection.guard = FALSE,
                                        ![g].generation = nextGen + 1]
    BY <1>1 DEF ConsumeGuard
  <2>2. DOMAIN pages' = DOMAIN pages
        /\ \A p \in DOMAIN pages : pages'[p].backing = pages[p].backing
    BY <1>0, <2>1 DEF Page
  <2> QED
    BY <1>1, <2>2, SameExact DEF ConsumeGuard
<1>2. CASE ReadOrFetch(a, n, mode)
  <2>1. DOMAIN pages' = DOMAIN pages /\ backings' = backings
    BY <1>2 DEF ReadOrFetch
  <2>2. ASSUME NEW p \in DOMAIN pages
        PROVE  pages'[p].backing = pages[p].backing
    <3>1. pages'[p] \in {pages[p], [pages[p] EXCEPT !.protection.access = Detached(@)]}
      BY <1>2 DEF ReadOrFetch
    <3> QED
      BY <1>0, <3>1 DEF Page
  <2> QED
    BY <2>1, <2>2, SameExact
<1> QED
  BY <1>1, <1>2

\* A second view takes one reference for each of its pages.
LEMMA AliasExact ==
    ASSUME TypeOK, NEW P \in [Backings -> Nat], PinnedExact(P), NEW a \in Nat, NEW s \in Nat, NEW n \in Nat, NEW prot,
           Alias(a, s, n, prot)
    PROVE  PinnedExact(P)'
<1> DEFINE source(b) == {p \in Span(s, n) : pages[p].backing = b}
           view(b) == {p \in Span(a, n) : pages[s + (p - a)].backing = b}
           H(b) == {p \in DOMAIN pages : pages[p].backing = b}
           target == [p \in Span(a, n) |-> pages[s + (p - a)].backing]
<1>1. CASE \E k \in 0 .. n - 1 : OutOfMemory(k)
  BY <1>1, SameExact DEF OutOfMemory
<1>2. CASE /\ pages' = Merge(pages, FreshPages(a, n, target, prot, nextGen))
           /\ backings' = [b \in DOMAIN backings |->
                 [backings[b] EXCEPT !.refs = @ + Cardinality(source(b))]]
  <2>1. Span(a, n) \cap DOMAIN pages = {} /\ Span(s, n) \subseteq DOMAIN pages
        /\ \A p \in Span(s, n) : pages[p].backing # NoBacking
    BY DEF Alias, Unmapped, Committed, Reserved
  <2>2. /\ DOMAIN pages' = DOMAIN pages \cup Span(a, n)
        /\ \A p \in Span(a, n) : pages'[p].backing = pages[s + (p - a)].backing
        /\ \A p \in DOMAIN pages \ Span(a, n) : pages'[p] = pages[p]
    BY <1>2 DEF Merge, FreshPages
  <2>3. ASSUME NEW b
        PROVE  {p \in DOMAIN pages' : pages'[p].backing = b} = H(b) \cup view(b)
    BY <2>1, <2>2
  <2>4. ASSUME NEW b
        PROVE  IsFiniteSet(view(b)) /\ Cardinality(view(b)) = Cardinality(source(b))
    <3> DEFINE shift == [p \in source(b) |-> a + (p - s)]
    <3>1. IsFiniteSet(source(b))
      <4>1. IsFiniteSet(Span(s, n))
        BY FS_Interval DEF Span
      <4>2. source(b) \subseteq Span(s, n)
        OBVIOUS
      <4> HIDE DEF source
      <4> QED
        BY <4>1, <4>2, FS_Subset
    <3>2. shift \in [source(b) -> view(b)]
      BY DEF Span
    <3>3. \A p, q \in source(b) : shift[p] = shift[q] => p = q
      BY DEF Span
    <3>4. \A q \in view(b) : \E p \in source(b) : shift[p] = q
      <4> SUFFICES ASSUME NEW q \in view(b) PROVE \E p \in source(b) : shift[p] = q
        OBVIOUS
      <4>1. s + (q - a) \in source(b)
        BY DEF Span
      <4>2. shift[s + (q - a)] = q
        BY <4>1 DEF Span
      <4> QED
        BY <4>1, <4>2
    <3> HIDE DEF shift, source, view
    <3>5. shift \in Bijection(source(b), view(b))
      BY <3>2, <3>3, <3>4 DEF Bijection, Injection, Surjection, IsInjective
    <3>6. ExistsBijection(source(b), view(b))
      BY <3>5 DEF ExistsBijection
    <3> QED
      BY <3>1, <3>6, FS_Bijection
  <2>5. ASSUME NEW b \in DOMAIN backings
        PROVE  /\ backings'[b].refs = Cardinality(H(b) \cup view(b)) + P[b]
               /\ backings'[b].refs > 0
    <3>1. backings[b].refs = Cardinality(H(b)) + P[b] /\ backings[b].refs > 0
          /\ backings[b] \in Backing /\ P[b] \in Nat
      BY DEF PinnedExact, TypeOK
    <3>2. IsFiniteSet(H(b))
      <4>1. IsFiniteSet(Address)
        BY FS_Interval, AddressAssumption DEF Address
      <4>2. H(b) \subseteq Address
        BY DEF TypeOK
      <4> HIDE DEF H
      <4> QED
        BY <4>1, <4>2, FS_Subset
    <3>3. H(b) \cap view(b) = {}
      BY <2>1
    <3>4. backings'[b] = [backings[b] EXCEPT !.refs = backings[b].refs + Cardinality(source(b))]
      BY <1>2
    <3> HIDE DEF H, view, source
    <3>5. Cardinality(H(b) \cup view(b)) = Cardinality(H(b)) + Cardinality(view(b)) - 0
      <4>1. Cardinality({}) = 0
        BY FS_EmptySet
      <4> QED
        BY <2>4, <3>2, <3>3, <4>1, FS_Union
    <3>6. Cardinality(view(b)) \in Nat /\ Cardinality(view(b)) = Cardinality(source(b))
      BY <2>4, FS_CardinalityType
    <3>7. backings'[b].refs = backings[b].refs + Cardinality(source(b))
      BY <3>1, <3>4 DEF Backing
    <3>8. backings[b].refs \in Nat /\ Cardinality(H(b)) \in Nat
      BY <3>1, <3>2, FS_CardinalityType DEF Backing
    <3> QED
      BY <3>1, <3>5, <3>6, <3>7, <3>8
  <2>6. \A p \in DOMAIN pages' :
           pages'[p].backing # NoBacking => pages'[p].backing \in DOMAIN backings'
    <3>1. DOMAIN backings' = DOMAIN backings
      BY <1>2
    <3>2. ASSUME NEW p \in Span(a, n) PROVE s + (p - a) \in DOMAIN pages
      BY <2>1 DEF Span
    <3> QED
      BY <2>2, <3>1, <3>2 DEF PinnedExact
  <2>7. DOMAIN backings' = DOMAIN backings
    BY <1>2
  <2> HIDE DEF H, view
  <2> QED
    BY <2>3, <2>5, <2>6, <2>7 DEF PinnedExact
<1> QED
  BY <1>1, <1>2 DEF Alias

\* Who points to what once the pages in S have been given up.
GivenUp(S) == [p \in DOMAIN pages |-> IF p \in S THEN NoBacking ELSE pages[p].backing]

\* The counts are exact between giving up the pages in S and reusing them.
LEMMA WithoutExact ==
    ASSUME TypeOK, NEW P \in [Backings -> Nat], PinnedExact(P), NEW S, S \subseteq DOMAIN pages
    PROVE  /\ CountsExact(GivenUp(S), DropPages(S), P)
           /\ DOMAIN GivenUp(S) = DOMAIN pages
           /\ \A p \in DOMAIN pages :
                 GivenUp(S)[p] = IF p \in S THEN NoBacking ELSE pages[p].backing
           /\ DOMAIN DropPages(S) \subseteq DOMAIN backings
           /\ NoBacking \notin DOMAIN DropPages(S)
<1> DEFINE O == GivenUp(S)
<1>1. DOMAIN O = DOMAIN pages
      /\ \A p \in DOMAIN pages : O[p] = IF p \in S THEN NoBacking ELSE pages[p].backing
  BY DEF GivenUp
<1>2. DOMAIN DropPages(S) \subseteq DOMAIN backings
  BY DEF DropPages
<1>3. NoBacking \notin DOMAIN DropPages(S)
  BY <1>2, BackingAssumption DEF TypeOK
<1> HIDE DEF O
<1>4. CountsExact(O, DropPages(S), P)
  BY <1>1, DropExact
<1> QED
  BY <1>1, <1>2, <1>3, <1>4 DEF O

\* Both KUSER pages give up the old backing and share the new one.
LEMMA BindKuserExact ==
    ASSUME TypeOK, NEW P \in [Backings -> Nat], PinnedExact(P), NEW h, BindKuser(h)
    PROVE  PinnedExact(P)'
<1> DEFINE K == {KuserCanonical, KuserShared}
           new(e, j) == [b \in {e} |-> [refs |-> 2, generation |-> j, host |-> h,
                                       data |-> Zero]]
<1>1. PICK e \in Backings \ DOMAIN backings, j \in Garbage :
        /\ backings' = Merge(DropPages(K), new(e, j))
        /\ pages' = [pages EXCEPT
                 ![KuserCanonical].backing = e,
                 ![KuserCanonical].generation = nextGen + 1,
                 ![KuserShared].backing = e,
                 ![KuserShared].generation = nextGen + 2]
  BY DEF BindKuser
<1>2. K \subseteq DOMAIN pages
  BY DEF BindKuser
<1> DEFINE f == [p \in K |-> e]
<1>3. /\ DOMAIN Owners' = DOMAIN pages
      /\ \A p \in DOMAIN pages : Owners'[p] = IF p \in K THEN e ELSE pages[p].backing
  <2>1. DOMAIN pages' = DOMAIN pages
    BY <1>1
  <2>2. ASSUME NEW p \in DOMAIN pages
        PROVE  pages'[p].backing = IF p \in K THEN e ELSE pages[p].backing
    <3>1. pages[p] \in Page
      BY DEF TypeOK
    <3>2. CASE p = KuserShared
      <4>1. pages'[p] = [pages[p] EXCEPT !.backing = e, !.generation = nextGen + 2]
        BY <1>1, <3>2, AddressAssumption
      <4> QED
        BY <3>1, <3>2, <4>1 DEF Page
    <3>3. CASE p = KuserCanonical
      <4>1. pages'[p] = [pages[p] EXCEPT !.backing = e, !.generation = nextGen + 1]
        BY <1>1, <3>3, AddressAssumption
      <4> QED
        BY <3>1, <3>3, <4>1 DEF Page
    <3>4. CASE p \notin K
      BY <1>1, <3>4
    <3> QED
      BY <3>2, <3>3, <3>4
  <2> QED
    BY <2>1, <2>2 DEF Owners
<1>4. Cardinality(Sharing(f, K, e)) = 2
  <2>1. Sharing(f, K, e) = {KuserCanonical} \cup {KuserShared}
    BY DEF Sharing
  <2>2. IsFiniteSet({KuserCanonical}) /\ Cardinality({KuserCanonical}) = 1
    BY FS_Singleton
  <2>3. KuserShared \notin {KuserCanonical}
    BY AddressAssumption
  <2> DEFINE T == {KuserCanonical}
  <2>4. IsFiniteSet(T) /\ Cardinality(T) = 1 /\ KuserShared \notin T
    BY <2>2, <2>3
  <2> HIDE DEF T
  <2>5. Cardinality(T \cup {KuserShared})
          = IF KuserShared \in T THEN Cardinality(T) ELSE Cardinality(T) + 1
    BY <2>4, FS_AddElement
  <2> QED
    BY <2>1, <2>4, <2>5 DEF T
<1>5. e \in Backings /\ \A p \in K : f[p] = e
  OBVIOUS
<1>6. K # {} /\ DOMAIN new(e, j) = {e} /\ new(e, j)[e].refs = 2
  OBVIOUS
<1> HIDE DEF K, f, new
<1>7. /\ CountsExact(GivenUp(K), DropPages(K), P)
      /\ DOMAIN GivenUp(K) = DOMAIN pages
      /\ \A p \in DOMAIN pages :
            GivenUp(K)[p] = IF p \in K THEN NoBacking ELSE pages[p].backing
      /\ DOMAIN DropPages(K) \subseteq DOMAIN backings
      /\ NoBacking \notin DOMAIN DropPages(K)
  BY <1>2, WithoutExact
<1>8. /\ DOMAIN backings' = DOMAIN DropPages(K) \cup {e}
      /\ backings'[e] = new(e, j)[e]
      /\ \A b \in DOMAIN DropPages(K) : b # e /\ backings'[b] = DropPages(K)[b]
  BY <1>1, <1>6, <1>7 DEF Merge
<1>9. GivesNew(GivenUp(K), DropPages(K), K, f, Owners', backings')
  <2>1. {f[p] : p \in K} = {e}
    BY <1>5, <1>6
  <2>2. /\ \A p \in K : f[p] \notin DOMAIN DropPages(K) /\ f[p] \in Backings
        /\ \A p \in K : backings'[f[p]].refs = 2
                        /\ backings'[f[p]].refs = Cardinality(Sharing(f, K, f[p]))
    BY <1>4, <1>5, <1>6, <1>8
  <2>3. /\ \A p \in K \cap DOMAIN GivenUp(K) : GivenUp(K)[p] = NoBacking
        /\ DOMAIN Owners' = DOMAIN GivenUp(K) \cup K
        /\ \A p \in DOMAIN GivenUp(K) \ K : Owners'[p] = GivenUp(K)[p]
        /\ \A p \in K : Owners'[p] = f[p]
    BY <1>2, <1>3, <1>5, <1>7
  <2>4. DOMAIN backings' = DOMAIN DropPages(K) \cup {f[p] : p \in K}
        /\ \A b \in DOMAIN DropPages(K) : backings'[b].refs = DropPages(K)[b].refs
    BY <1>8, <2>1
  <2> QED
    BY <2>2, <2>3, <2>4 DEF GivesNew
<1>10. CountsExact(Owners', backings', P)
  BY <1>7, <1>9, NewExact
<1> QED
  BY <1>10, ExactByOwnersNext

\* A write-copy page gives up the shared backing for one of its own.
LEMMA WriteExact ==
    ASSUME TypeOK, NEW P \in [Backings -> Nat], PinnedExact(P), NEW a \in Nat, NEW n \in Nat,
           NEW v \in [Span(a, n) -> Contents], Write(a, n, v)
    PROVE  PinnedExact(P)'
<1> DEFINE S == Span(a, n)
           C == CopyOnWrite(a, n)
           gen == nextGen + Cardinality(C)
           target(f) == [p \in S |-> IF p \in C THEN f[p] ELSE pages[p].backing]
           h == [p \in C |-> NoHost]
           junk == [p \in C |-> 0]
           before(f) == Merge(DropPages(C), NewBackings(f, C, h, junk))
<1>1. PICK f \in Allocations(C) :
        /\ \E last :
              backings' =
                 [b \in DOMAIN before(f) |->
                    IF b \in DOMAIN last
                    THEN Stored(before(f)[b], v[last[b]], gen + 2 * (last[b] - a) + 1)
                    ELSE before(f)[b]]
        /\ pages' =
              [p \in DOMAIN pages |->
                 IF p \in S
                 THEN [pages[p] EXCEPT
                          !.backing = target(f)[p],
                          !.protection.access = Detached(@),
                          !.generation = gen + 2 * (p - a) + 2]
                 ELSE pages[p]]
  BY DEF Write
<1>2. C \subseteq S /\ S \subseteq DOMAIN pages
  BY DEF CopyOnWrite, Write, Accessible, Committed, Reserved
<1>3. \A p \in S : target(f)[p] = IF p \in C THEN f[p] ELSE pages[p].backing
  OBVIOUS
<1>4. \A b \in DOMAIN before(f) : before(f)[b] \in Backing
  <2> DEFINE drop == DropPages(C)
             fresh == NewBackings(f, C, h, junk)
  <2>1. DOMAIN drop \subseteq DOMAIN backings /\ \A b \in DOMAIN drop : drop[b] \in Backing
    BY <1>2, DropTyped
  <2>2. DOMAIN fresh \subseteq Backings /\ \A b \in DOMAIN fresh : fresh[b] \in Backing
    BY NewTyped
  <2> HIDE DEF drop, fresh
  <2>3. \A b \in DOMAIN Merge(drop, fresh) : Merge(drop, fresh)[b] \in Backing
    BY <2>1, <2>2, MergeBackings DEF TypeOK
  <2> QED
    BY <2>3 DEF drop, fresh
<1> HIDE DEF target, gen, C, h, junk
<1>5. /\ DOMAIN Owners' = DOMAIN pages
      /\ \A p \in DOMAIN pages : Owners'[p] = IF p \in C THEN f[p] ELSE pages[p].backing
  <2>1. DOMAIN pages' = DOMAIN pages
    BY <1>1
  <2>2. ASSUME NEW p \in DOMAIN pages
        PROVE  pages'[p].backing = IF p \in C THEN f[p] ELSE pages[p].backing
    <3>1. pages[p] \in Page
      BY DEF TypeOK
    <3>2. CASE p \notin S
      BY <1>1, <1>2, <3>2
    <3>3. CASE p \in S
      <4>1. pages'[p].backing = target(f)[p]
        BY <1>1, <3>1, <3>3 DEF Page
      <4> QED
        BY <1>3, <3>3, <4>1
    <3> QED
      BY <3>2, <3>3
  <2> QED
    BY <2>1, <2>2 DEF Owners
<1>6. /\ DOMAIN backings' = DOMAIN before(f)
      /\ \A b \in DOMAIN before(f) : backings'[b].refs = before(f)[b].refs
  <2> DEFINE B == before(f)
  <2> HIDE DEF B
  <2>1. PICK last :
              backings' =
                 [b \in DOMAIN B |->
                    IF b \in DOMAIN last
                    THEN Stored(B[b], v[last[b]], gen + 2 * (last[b] - a) + 1)
                    ELSE B[b]]
    BY <1>1 DEF B
  <2>2. \A b \in DOMAIN B : B[b] \in Backing
    BY <1>4 DEF B
  <2>3. \A b \in DOMAIN B : backings'[b].refs = B[b].refs
    BY <2>1, <2>2 DEF Stored, Backing
  <2> QED
    BY <2>1, <2>3 DEF B
<1>7. /\ CountsExact(GivenUp(C), DropPages(C), P)
      /\ DOMAIN GivenUp(C) = DOMAIN pages
      /\ \A p \in DOMAIN pages :
            GivenUp(C)[p] = IF p \in C THEN NoBacking ELSE pages[p].backing
      /\ DOMAIN DropPages(C) \subseteq DOMAIN backings
      /\ NoBacking \notin DOMAIN DropPages(C)
  BY <1>2, WithoutExact
<1>8. GivesOwn(GivenUp(C), DropPages(C), C, f, Owners', backings')
  <2>1. /\ \A p \in C \cap DOMAIN GivenUp(C) : GivenUp(C)[p] = NoBacking
        /\ DOMAIN Owners' = DOMAIN GivenUp(C) \cup C
        /\ \A p \in DOMAIN GivenUp(C) \ C : Owners'[p] = GivenUp(C)[p]
        /\ \A p \in C : Owners'[p] = f[p]
    BY <1>2, <1>5, <1>7
  <2> QED
    BY <1>6, <2>1 DEF GivesOwn
<1>9. CountsExact(Owners', backings', P)
  BY <1>7, <1>8, NewBackingsExact
<1> QED
  BY <1>9, ExactByOwnersNext

\* gem_memory_create gives both KUSER pages the one backing.
LEMMA InitExact ==
    ASSUME Init
    PROVE  RefsExact
<1>1. PICK b \in Backings, junk \in Garbage :
        /\ backings = [c \in {b} |-> [refs |-> 2, generation |-> junk,
                                      host |-> NoHost, data |-> Zero]]
        /\ pages = [p \in {KuserCanonical, KuserShared} |->
                      [base |-> p, size |-> 1, backing |-> b,
                       protection |-> [access |-> "READWRITE", guard |-> FALSE],
                       generation |-> IF p = KuserCanonical THEN 2 ELSE 3]]
  BY DEF Init
<1>2. /\ DOMAIN backings = {b} /\ backings[b].refs = 2
      /\ DOMAIN pages = {KuserCanonical, KuserShared}
      /\ \A p \in DOMAIN pages : pages[p].backing = b
  BY <1>1
<1> DEFINE T == {KuserCanonical}
<1>3. IsFiniteSet(T) /\ Cardinality(T) = 1 /\ KuserShared \notin T
  BY FS_Singleton, AddressAssumption
<1>4. {p \in DOMAIN pages : pages[p].backing = b} = T \cup {KuserShared}
  BY <1>2
<1> HIDE DEF T
<1>5. Cardinality(T \cup {KuserShared}) = 2
  <2>1. Cardinality(T \cup {KuserShared})
          = IF KuserShared \in T THEN Cardinality(T) ELSE Cardinality(T) + 1
    BY <1>3, FS_AddElement
  <2> QED
    BY <1>3, <2>1
<1> QED
  BY <1>2, <1>4, <1>5 DEF RefsExact

\* Every step of the specification keeps the counts exact.
LEMMA NextExact ==
    ASSUME TypeOK, NEW P \in [Backings -> Nat], PinnedExact(P), [Next]_memoryVars
    PROVE  PinnedExact(P)'
<1>1. CASE UNCHANGED <<pages, backings>>
  BY <1>1, SameExact
<1>2. CASE Next
  <2> USE AddressAssumption, BackingAssumption
  <2>1. ASSUME NEW r \in Ranges, \/ Reserve(r[1], r[2]) \/ Release(r[1], r[2])
                                 \/ Unmap(r[1], r[2]) \/ Decommit(r[1], r[2])
        PROVE  PinnedExact(P)'
    BY <2>1, ReserveExact, ReleaseExact, UnmapExact, DecommitExact
  <2>2. ASSUME NEW r \in Ranges, NEW prot \in Protections,
               \/ Commit(r[1], r[2], prot)
               \/ Protect(r[1], r[2], prot)
               \/ \E s \in Address : Alias(r[1], s, r[2], prot)
               \/ MapIdentity(r[1], r[2], prot)
               \/ \E h \in HostPages : CommitExternal(r[1], h, r[2], prot)
        PROVE  PinnedExact(P)'
    <3>1. r[1] \in Nat /\ r[2] \in Nat
      OBVIOUS
    <3>2. \A s \in Address : s \in Nat
      BY DEF Address
    <3> QED
      BY <2>2, <3>1, <3>2, CommitExact, ProtectExact, AliasExact, MapIdentityExact,
         CommitExternalExact
  <2>3. ASSUME NEW r \in Ranges, \/ \E mode : ConsumeGuard(r[1], r[2], mode)
                                 \/ \E mode : ReadOrFetch(r[1], r[2], mode)
                                 \/ \E v \in [Span(r[1], r[2]) -> Contents] :
                                       Write(r[1], r[2], v)
        PROVE  PinnedExact(P)'
    BY <2>3, GuardExact, WriteExact
  <2>4. ASSUME \/ \E h \in HostPages : BindKuser(h)
               \/ Destroy
        PROVE  PinnedExact(P)'
    BY <2>4, BindKuserExact, DestroyExact
  <2>5. CASE \E h \in HostPages, v \in Contents : HostWrite(h, v)
    BY <1>1, <2>5 DEF HostWrite
  <2> QED
    BY <1>2, <2>1, <2>2, <2>3, <2>4, <2>5 DEF Next, Operation
<1> QED
  BY <1>1, <1>2 DEF memoryVars

\* With no other references this is RefsExact.
LEMMA UnpinnedExact ==
    ASSUME TypeOK
    PROVE  RefsExact <=> PinnedExact([b \in Backings |-> 0])
<1> DEFINE held(b) == {p \in DOMAIN pages : pages[p].backing = b}
<1>1. ASSUME NEW b PROVE Cardinality(held(b)) \in Nat
  <2>1. IsFiniteSet(Address)
    BY FS_Interval, AddressAssumption DEF Address
  <2>2. held(b) \subseteq Address
    BY DEF TypeOK
  <2> HIDE DEF held
  <2> QED
    BY <2>1, <2>2, FS_Subset, FS_CardinalityType
<1>2. ASSUME NEW b \in DOMAIN backings
      PROVE  Cardinality(held(b)) + [c \in Backings |-> 0][b] = Cardinality(held(b))
  <2>1. [c \in Backings |-> 0][b] = 0
    BY DEF TypeOK
  <2> HIDE DEF held
  <2> QED
    BY <1>1, <2>1
<1>3. \A b \in Backings : ~([c \in Backings |-> 0][b] > 0)
  OBVIOUS
<1> QED
  BY <1>2, <1>3 DEF RefsExact, PinnedExact

\* The same after a step.
LEMMA UnpinnedExactNext ==
    ASSUME TypeOK', PinnedExact([b \in Backings |-> 0])'
    PROVE  RefsExact'
<1> DEFINE held(b) == {p \in DOMAIN pages' : pages'[p].backing = b}
<1>1. ASSUME NEW b PROVE Cardinality(held(b)) \in Nat
  <2>1. IsFiniteSet(Address)
    BY FS_Interval, AddressAssumption DEF Address
  <2>2. held(b) \subseteq Address
    BY DEF TypeOK
  <2> HIDE DEF held
  <2> QED
    BY <2>1, <2>2, FS_Subset, FS_CardinalityType
<1>2. ASSUME NEW b \in DOMAIN backings'
      PROVE  Cardinality(held(b)) + [c \in Backings |-> 0][b] = Cardinality(held(b))
  <2>1. [c \in Backings |-> 0][b] = 0
    BY DEF TypeOK
  <2> HIDE DEF held
  <2> QED
    BY <1>1, <2>1
<1>3. \A b \in Backings : ~([c \in Backings |-> 0][b] > 0)
  OBVIOUS
<1> QED
  BY <1>2, <1>3 DEF RefsExact, PinnedExact

\* Backings are freed with the last page that points to them and no earlier,
\* whatever sequence of aliases, copies, splits, releases and rebindings led
\* there, for an address space and a backing pool of any size.
THEOREM RefsStayExact == Spec => []RefsExact
<1>1. Init => RefsExact
  BY InitExact
<1>2. TypeOK /\ RefsExact /\ [Next]_memoryVars => RefsExact'
  <2> DEFINE none == [b \in Backings |-> 0]
  <2> SUFFICES ASSUME TypeOK, RefsExact, [Next]_memoryVars PROVE RefsExact'
    OBVIOUS
  <2>1. TypeOK'
    BY NextTyped
  <2>2. none \in [Backings -> Nat]
    OBVIOUS
  <2>3. PinnedExact(none)
    BY UnpinnedExact
  <2> HIDE DEF none
  <2>4. PinnedExact(none)'
    BY <2>2, <2>3, NextExact
  <2> QED
    BY <2>1, <2>4, UnpinnedExactNext DEF none
<1> QED
  BY <1>1, <1>2, TypeCorrect, PTL DEF Spec
-----------------------------------------------------------------------------
(* Stamps.  What a step may do to a page and to a backing that exists       *)
(* before and after it.                                                     *)

\* The step leaves page p alone, but for the unstamped upgrade of a write-copy
\* view of caller-owned storage.
PageKept(p) ==
    /\ p \in DOMAIN pages
    /\ pages'[p].generation = pages[p].generation
    /\ pages'[p].backing = pages[p].backing
    /\ \/ pages'[p].protection = pages[p].protection
       \/ /\ External(pages[p].backing)
          /\ pages'[p].protection.access = Detached(pages[p].protection.access)
          /\ pages'[p].protection.guard = pages[p].protection.guard

\* Every page is left alone or touched by this step.
PagesTouched ==
    /\ nextGen' \in Nat /\ nextGen <= nextGen'
    /\ \A p \in DOMAIN pages' :
          PageKept(p) \/ pages'[p].generation \in nextGen + 1 .. nextGen'

\* A step that leaves the page table alone.
LEMMA SamePagesTouched ==
    ASSUME TypeOK, pages' = pages, nextGen' \in Nat, nextGen <= nextGen'
    PROVE  PagesTouched
BY DEF PagesTouched, PageKept

\* A fresh reservation is stamped.
LEMMA FreshTouched ==
    ASSUME TypeOK, NEW a \in Nat, NEW n \in Nat, Unmapped(a, n), NEW backing, NEW prot,
           NEW k \in Nat, nextGen' = nextGen + k + n,
           pages' = Merge(pages, FreshPages(a, n, backing, prot, nextGen + k))
    PROVE  PagesTouched
<1>1. /\ DOMAIN pages' = DOMAIN pages \cup Span(a, n)
      /\ \A p \in Span(a, n) : pages'[p].generation = nextGen + k + (p - a) + 1
      /\ \A p \in DOMAIN pages \ Span(a, n) : pages'[p] = pages[p]
  BY DEF Merge, FreshPages
<1>2. \A p \in Span(a, n) : pages'[p].generation \in nextGen + 1 .. nextGen'
  BY <1>1 DEF TypeOK, Span
<1>3. \A p \in DOMAIN pages \ Span(a, n) : PageKept(p)
  BY <1>1 DEF PageKept
<1>4. nextGen' \in Nat /\ nextGen <= nextGen'
  BY DEF TypeOK
<1> QED
  BY <1>1, <1>2, <1>3, <1>4 DEF PagesTouched

\* Pages that get backings or a protection are stamped.
LEMMA WithBackingsTouched ==
    ASSUME TypeOK, NEW a \in Nat, NEW n \in Nat, NEW f, NEW prot,
           nextGen' = nextGen + n, pages' = WithBackings(a, n, f, prot, nextGen)
    PROVE  PagesTouched
<1>1. DOMAIN pages' = DOMAIN pages
  BY DEF WithBackings
<1>2. ASSUME NEW p \in DOMAIN pages, p \notin Span(a, n)
      PROVE  PageKept(p)
  BY <1>2 DEF WithBackings, PageKept
<1>3. ASSUME NEW p \in DOMAIN pages, p \in Span(a, n)
      PROVE  pages'[p].generation \in nextGen + 1 .. nextGen'
  <2>1. pages[p] \in Page
    BY DEF TypeOK
  <2>2. pages'[p].generation = nextGen + (p - a) + 1
    BY <1>3, <2>1 DEF WithBackings, Page
  <2> QED
    BY <1>3, <2>2 DEF TypeOK, Span
<1>4. nextGen' \in Nat /\ nextGen <= nextGen'
  BY DEF TypeOK
<1> QED
  BY <1>1, <1>2, <1>3, <1>4 DEF PagesTouched

\* A failed allocation burns generations only.
LEMMA OutOfMemoryTouched ==
    ASSUME TypeOK, NEW k \in Nat, OutOfMemory(k)
    PROVE  PagesTouched
BY SamePagesTouched DEF OutOfMemory, TypeOK

\* Reserve, alias and identity map stamp their pages.
LEMMA MappingTouched ==
    ASSUME TypeOK, NEW a \in Nat, NEW s \in Nat, NEW n \in Nat, NEW prot,
           Reserve(a, n) \/ Alias(a, s, n, prot) \/ MapIdentity(a, n, prot)
    PROVE  PagesTouched
<1>1. CASE \E k \in Nat : OutOfMemory(k)
  BY <1>1, OutOfMemoryTouched
<1>2. CASE \E b \in Nat, backing, q, k \in Nat :
              /\ Unmapped(b, n) /\ nextGen' = nextGen + k + n
              /\ pages' = Merge(pages, FreshPages(b, n, backing, q, nextGen + k))
  BY <1>2, FreshTouched
<1>3. CASE Reserve(a, n)
  <2>1. PICK b \in ReserveAt(a, n) :
          /\ CanReserve(b, n)
          /\ \/ /\ pages' = Merge(pages, FreshPages(b, n, [p \in Span(b, n) |-> NoBacking],
                                                    NoProtection, nextGen))
                /\ nextGen' = nextGen + n
             \/ \E k \in 0 .. n - 1 : OutOfMemory(k)
    BY <1>3 DEF Reserve
  <2>2. b \in Nat /\ Unmapped(b, n)
    BY <2>1, AddressAssumption DEF ReserveAt, SearchResult, CanReserve
  <2>3. nextGen + 0 = nextGen /\ nextGen + 0 + n = nextGen + n
    BY DEF TypeOK
  <2> QED
    BY <1>1, <2>1, <2>2, <2>3, FreshTouched
<1>4. CASE Alias(a, s, n, prot)
  <2> DEFINE target == [p \in Span(a, n) |-> pages[s + (p - a)].backing]
  <2>1. /\ Unmapped(a, n)
        /\ \/ /\ pages' = Merge(pages, FreshPages(a, n, target, prot, nextGen))
              /\ nextGen' = nextGen + n
           \/ \E k \in 0 .. n - 1 : OutOfMemory(k)
    BY <1>4 DEF Alias
  <2>2. nextGen + 0 = nextGen /\ nextGen + 0 + n = nextGen + n
    BY DEF TypeOK
  <2> HIDE DEF target
  <2> QED
    BY <1>1, <2>1, <2>2, FreshTouched
<1>5. CASE MapIdentity(a, n, prot)
  <2>1. /\ Unmapped(a, n)
        /\ \/ /\ \E f : pages' = Merge(pages, FreshPages(a, n, f, prot, nextGen + n))
              /\ nextGen' = nextGen + 2 * n
           \/ \E k \in 0 .. 2 * n - 1 : OutOfMemory(k)
    BY <1>5 DEF MapIdentity, CanReserve
  <2>2. nextGen + 2 * n = nextGen + n + n
    BY DEF TypeOK
  <2>3. CASE \E k \in 0 .. 2 * n - 1 : OutOfMemory(k)
    BY <1>1, <2>3
  <2>4. CASE /\ \E f : pages' = Merge(pages, FreshPages(a, n, f, prot, nextGen + n))
             /\ nextGen' = nextGen + 2 * n
    BY <2>1, <2>2, <2>4, FreshTouched
  <2> QED
    BY <2>1, <2>3, <2>4
<1> QED
  BY <1>3, <1>4, <1>5

\* Release and unmap leave the surviving pages alone.
LEMMA UnmapTouched ==
    ASSUME TypeOK, NEW a \in Nat, NEW n \in Nat, Release(a, n) \/ Unmap(a, n)
    PROVE  PagesTouched
<1>0. nextGen' \in Nat /\ nextGen <= nextGen'
  <2>1. nextGen' = nextGen
    <3>1. CASE Release(a, n)
      BY <3>1 DEF Release
    <3>2. CASE Unmap(a, n)
      BY <3>2, Zenon DEF Unmap
    <3> QED
      BY <3>1, <3>2
  <2> QED
    BY <2>1 DEF TypeOK
<1>1. CASE Release(a, n)
  <2>1. pages' = [p \in DOMAIN pages \ Span(a, n) |-> pages[p]]
    BY <1>1 DEF Release
  <2>2. \A p \in DOMAIN pages' : p \in DOMAIN pages /\ pages'[p] = pages[p]
    BY <2>1
  <2> QED
    BY <1>0, <2>2 DEF PagesTouched, PageKept
<1>2. CASE Unmap(a, n)
  <2> DEFINE base == pages[a].base
             end == base + pages[a].size
  <2>1. pages' = [p \in DOMAIN pages \ Span(a, n) |->
                    IF p \in base .. a - 1 THEN [pages[p] EXCEPT !.size = a - base]
                    ELSE IF p \in a + n .. end - 1
                    THEN [pages[p] EXCEPT !.base = a + n, !.size = end - (a + n)]
                    ELSE pages[p]]
    BY <1>2 DEF Unmap
  <2> HIDE DEF base, end
  <2>2. ASSUME NEW p \in DOMAIN pages'
        PROVE  PageKept(p)
    <3>1. p \in DOMAIN pages \ Span(a, n)
      BY <2>1
    <3>2. pages[p] \in Page
      BY <3>1 DEF TypeOK
    <3>3. /\ pages'[p].generation = pages[p].generation
          /\ pages'[p].backing = pages[p].backing
          /\ pages'[p].protection = pages[p].protection
      BY <2>1, <3>1, <3>2 DEF Page
    <3> QED
      BY <3>1, <3>3 DEF PageKept
  <2> QED
    BY <1>0, <2>2 DEF PagesTouched
<1> QED
  BY <1>1, <1>2

\* Binding the KUSER pages stamps both.
LEMMA BindKuserTouched ==
    ASSUME TypeOK, NEW h, BindKuser(h)
    PROVE  PagesTouched
<1>1. PICK e : pages' = [pages EXCEPT
                 ![KuserCanonical].backing = e,
                 ![KuserCanonical].generation = nextGen + 1,
                 ![KuserShared].backing = e,
                 ![KuserShared].generation = nextGen + 2]
  BY DEF BindKuser
<1>2. nextGen' = nextGen + 2 /\ nextGen \in Nat
  BY DEF BindKuser, TypeOK
<1>3. DOMAIN pages' = DOMAIN pages
  BY <1>1
<1>4. ASSUME NEW p \in DOMAIN pages
      PROVE  PageKept(p) \/ pages'[p].generation \in nextGen + 1 .. nextGen'
  <2>1. pages[p] \in Page
    BY DEF TypeOK
  <2>2. CASE p = KuserShared
    <3>1. pages'[p] = [pages[p] EXCEPT !.backing = e, !.generation = nextGen + 2]
      BY <1>1, <2>2, AddressAssumption
    <3>2. pages'[p].generation = nextGen + 2
      BY <2>1, <3>1 DEF Page
    <3> QED
      BY <1>2, <3>2
  <2>3. CASE p = KuserCanonical
    <3>1. pages'[p] = [pages[p] EXCEPT !.backing = e, !.generation = nextGen + 1]
      BY <1>1, <2>3, AddressAssumption
    <3>2. pages'[p].generation = nextGen + 1
      BY <2>1, <3>1 DEF Page
    <3> QED
      BY <1>2, <3>2
  <2>4. CASE p \notin {KuserCanonical, KuserShared}
    BY <1>1, <2>4 DEF PageKept
  <2> QED
    BY <2>2, <2>3, <2>4
<1> QED
  BY <1>2, <1>3, <1>4 DEF PagesTouched

\* A consumed guard is stamped; reads and fetches only detach.
LEMMA AccessTouched ==
    ASSUME TypeOK, NEW a \in Nat, NEW n \in Nat, NEW mode,
           ConsumeGuard(a, n, mode) \/ ReadOrFetch(a, n, mode)
    PROVE  PagesTouched
<1>0. nextGen \in Nat /\ \A p \in DOMAIN pages : pages[p] \in Page
  BY DEF TypeOK
<1>1. CASE ConsumeGuard(a, n, mode)
  <2>1. PICK g : pages' = [pages EXCEPT ![g].protection.guard = FALSE,
                                        ![g].generation = nextGen + 1]
    BY <1>1 DEF ConsumeGuard
  <2>2. DOMAIN pages' = DOMAIN pages /\ nextGen' = nextGen + 1
    BY <1>1, <2>1 DEF ConsumeGuard
  <2>3. ASSUME NEW p \in DOMAIN pages, p # g
        PROVE  PageKept(p)
    BY <2>1, <2>3 DEF PageKept
  <2>4. ASSUME NEW p \in DOMAIN pages, p = g
        PROVE  pages'[p].generation = nextGen + 1
    BY <1>0, <2>1, <2>4 DEF Page
  <2> QED
    BY <1>0, <2>2, <2>3, <2>4 DEF PagesTouched
<1>2. CASE ReadOrFetch(a, n, mode)
  <2>1. DOMAIN pages' = DOMAIN pages /\ nextGen' = nextGen
    BY <1>2 DEF ReadOrFetch
  <2>2. ASSUME NEW p \in DOMAIN pages
        PROVE  PageKept(p)
    <3>1. CASE pages'[p] = pages[p]
      BY <3>1 DEF PageKept
    <3>2. CASE /\ External(pages[p].backing)
               /\ pages'[p] = [pages[p] EXCEPT !.protection.access = Detached(@)]
      <4> DEFINE prot == [pages[p].protection EXCEPT !.access = Detached(@)]
      <4>1. pages'[p] = [pages[p] EXCEPT !.protection = prot]
        BY <3>2
      <4>2. /\ prot.access = Detached(pages[p].protection.access)
            /\ prot.guard = pages[p].protection.guard
        BY <1>0 DEF Page, Protection
      <4> HIDE DEF prot
      <4>3. /\ pages'[p].protection = prot
            /\ pages'[p].generation = pages[p].generation
            /\ pages'[p].backing = pages[p].backing
        BY <1>0, <4>1 DEF Page
      <4> QED
        BY <3>2, <4>2, <4>3 DEF PageKept
    <3> QED
      BY <1>2, <3>1, <3>2 DEF ReadOrFetch
  <2> QED
    BY <1>0, <2>1, <2>2 DEF PagesTouched
<1> QED
  BY <1>1, <1>2

\* A write stamps every page of its range.
LEMMA WriteTouched ==
    ASSUME TypeOK, NEW a \in Nat, NEW n \in Nat, NEW v, Write(a, n, v)
    PROVE  PagesTouched
<1> DEFINE S == Span(a, n)
           C == CopyOnWrite(a, n)
           gen == nextGen + Cardinality(C)
           target(f) == [p \in S |-> IF p \in C THEN f[p] ELSE pages[p].backing]
<1>1. PICK f : pages' =
              [p \in DOMAIN pages |->
                 IF p \in S
                 THEN [pages[p] EXCEPT
                          !.backing = target(f)[p],
                          !.protection.access = Detached(@),
                          !.generation = gen + 2 * (p - a) + 2]
                 ELSE pages[p]]
  BY DEF Write
<1>2. nextGen' = gen + 2 * n
  BY DEF Write
<1>3. gen \in Nat /\ gen >= nextGen /\ nextGen \in Nat
  <2>1. Cardinality(C) \in Nat
    BY SpanCount DEF CopyOnWrite
  <2> QED
    BY <2>1 DEF TypeOK
<1> HIDE DEF target, gen, C
<1>4. DOMAIN pages' = DOMAIN pages
  BY <1>1
<1>5. ASSUME NEW p \in DOMAIN pages, p \notin S
      PROVE  PageKept(p)
  BY <1>1, <1>5 DEF PageKept
<1>6. ASSUME NEW p \in DOMAIN pages, p \in S
      PROVE  pages'[p].generation \in nextGen + 1 .. nextGen'
  <2>1. pages[p] \in Page
    BY DEF TypeOK
  <2>2. pages'[p].generation = gen + 2 * (p - a) + 2
    BY <1>1, <1>6, <2>1 DEF Page
  <2>3. p \in Int /\ p >= a /\ p <= a + n - 1
    BY <1>6 DEF Span
  <2> QED
    BY <1>2, <1>3, <2>2, <2>3
<1> QED
  BY <1>2, <1>3, <1>4, <1>5, <1>6 DEF PagesTouched

\* Every step of the specification leaves a page alone or touches it.
LEMMA NextTouched ==
    ASSUME TypeOK, [Next]_memoryVars
    PROVE  PagesTouched
<1>1. CASE UNCHANGED <<pages, nextGen>>
  BY <1>1, SamePagesTouched DEF TypeOK
<1>2. CASE Next
  <2> USE AddressAssumption, BackingAssumption
  <2>1. ASSUME NEW r \in Ranges, \/ Reserve(r[1], r[2]) \/ Release(r[1], r[2])
                                 \/ Unmap(r[1], r[2])
        PROVE  PagesTouched
    BY <2>1, MappingTouched, UnmapTouched
  <2>2. ASSUME NEW r \in Ranges, NEW prot \in Protections,
               \/ \E s \in Address : Alias(r[1], s, r[2], prot)
               \/ MapIdentity(r[1], r[2], prot)
        PROVE  PagesTouched
    <3>1. r[1] \in Nat /\ r[2] \in Nat /\ 0 \in Nat
      OBVIOUS
    <3>2. \A s \in Address : s \in Nat
      BY DEF Address
    <3> QED
      BY <2>2, <3>1, <3>2, MappingTouched
  <2>3. ASSUME NEW r \in Ranges, NEW prot, NEW h,
               \/ Commit(r[1], r[2], prot) \/ Decommit(r[1], r[2])
               \/ Protect(r[1], r[2], prot) \/ CommitExternal(r[1], h, r[2], prot)
        PROVE  PagesTouched
    <3>1. nextGen' = nextGen + r[2]
          /\ \E f, q : pages' = WithBackings(r[1], r[2], f, q, nextGen)
      BY <2>3 DEF Commit, Decommit, Protect, CommitExternal
    <3> QED
      BY <3>1, WithBackingsTouched
  <2>4. ASSUME NEW r \in Ranges, \/ \E mode : ConsumeGuard(r[1], r[2], mode)
                                 \/ \E mode : ReadOrFetch(r[1], r[2], mode)
                                 \/ \E v : Write(r[1], r[2], v)
        PROVE  PagesTouched
    BY <2>4, AccessTouched, WriteTouched
  <2>5. ASSUME NEW h, BindKuser(h) PROVE PagesTouched
    BY <2>5, BindKuserTouched
  <2>6. CASE Destroy
    <3>1. DOMAIN pages' = {} /\ nextGen' = nextGen
      <4>1. pages' = << >> /\ nextGen' = nextGen
        BY <2>6 DEF Destroy
      <4>2. DOMAIN << >> = {}
        BY SMT
      <4> QED
        BY <4>1, <4>2
    <3> QED
      BY <3>1 DEF PagesTouched, TypeOK
  <2>7. CASE \E h \in HostPages, v \in Contents : HostWrite(h, v)
    BY <1>1, <2>7 DEF HostWrite
  <2> QED
    BY <1>2, <2>1, <2>2, <2>3, <2>4, <2>5, <2>6, <2>7 DEF Next, Operation
<1> QED
  BY <1>1, <1>2 DEF memoryVars

\* A page that appears, changes its backing or protection, or loses its guard
\* gets a generation above every generation given out before: what a
\* transaction recorded about an address cannot match a later mapping of it.
THEOREM RemapsAreFresh == Spec => RemapIsFresh
<1>1. TypeOK /\ [Next]_memoryVars
        => [\A p \in DOMAIN pages' :
              \/ pages'[p].generation > nextGen
              \/ /\ p \in DOMAIN pages
                 /\ pages'[p].generation = pages[p].generation
                 /\ pages'[p].backing = pages[p].backing
                 /\ \/ pages'[p].protection = pages[p].protection
                    \/ /\ External(pages[p].backing)
                       /\ pages'[p].protection.access
                            = Detached(pages[p].protection.access)
                       /\ pages'[p].protection.guard = pages[p].protection.guard]_memoryVars
  <2> SUFFICES ASSUME TypeOK, [Next]_memoryVars, NEW p \in DOMAIN pages'
               PROVE  PageKept(p) \/ pages'[p].generation > nextGen
    BY DEF PageKept
  <2>1. PagesTouched /\ nextGen \in Nat
    BY NextTouched DEF TypeOK
  <2> QED
    BY <2>1 DEF PagesTouched
<1> QED
  BY <1>1, TypeCorrect, PTL DEF Spec, RemapIsFresh
-----------------------------------------------------------------------------
(* Contents.                                                                *)

\* The step leaves the bytes of backing b and their stamp alone.
BackingKept(b) ==
    /\ backings'[b].host = backings[b].host
    /\ backings'[b].data = backings[b].data
    /\ backings'[b].generation = backings[b].generation

\* Backings that exist before and after the step are kept, and new ones have
\* the generation their storage held before.
BackingsKept ==
    /\ \A b \in DOMAIN backings \cap DOMAIN backings' : BackingKept(b)
    /\ \A b \in DOMAIN backings' \ DOMAIN backings : backings'[b].generation \in Garbage

\* Dropping references leaves the bytes of what remains alone.
LEMMA DropKeeps ==
    ASSUME TypeOK, NEW S
    PROVE  /\ DOMAIN DropPages(S) \subseteq DOMAIN backings
           /\ \A b \in DOMAIN DropPages(S) :
                 /\ DropPages(S)[b].host = backings[b].host
                 /\ DropPages(S)[b].data = backings[b].data
                 /\ DropPages(S)[b].generation = backings[b].generation
<1> DEFINE left(b) == backings[b].refs - Cardinality({p \in S : pages[p].backing = b})
           D == {c \in DOMAIN backings : left(c) > 0}
<1>1. DropPages(S) = [b \in D |-> [backings[b] EXCEPT !.refs = left(b)]]
  BY DEF DropPages
<1>2. \A b \in D : b \in DOMAIN backings /\ backings[b] \in Backing
  BY DEF TypeOK
<1> HIDE DEF left, D
<1> QED
  BY <1>1, <1>2 DEF Backing, D

\* A step that only drops references keeps every byte.
LEMMA DropsKept ==
    ASSUME TypeOK, NEW S, backings' = DropPages(S)
    PROVE  BackingsKept
BY DropKeeps DEF BackingsKept, BackingKept

\* Backings added by new_backing.
LEMMA NewKept ==
    ASSUME NEW B, DOMAIN B \subseteq DOMAIN backings,
           \A b \in DOMAIN B : /\ B[b].host = backings[b].host
                               /\ B[b].data = backings[b].data
                               /\ B[b].generation = backings[b].generation,
           NEW g, DOMAIN g \cap DOMAIN backings = {},
           \A b \in DOMAIN g : g[b].generation \in Garbage,
           backings' = Merge(B, g)
    PROVE  BackingsKept
<1>1. /\ DOMAIN backings' = DOMAIN B \cup DOMAIN g
      /\ \A b \in DOMAIN g : backings'[b] = g[b]
      /\ \A b \in DOMAIN B \ DOMAIN g : backings'[b] = B[b]
  BY DEF Merge
<1> QED
  BY <1>1 DEF BackingsKept, BackingKept

\* The backings g are new and their generations are among junk.
Unseen(g, S, junk) ==
    /\ DOMAIN g \cap DOMAIN backings = {}
    /\ \A b \in DOMAIN g : \E p \in S : g[b].generation = junk[p]

\* What new_backing returns is new.
LEMMA NewJunk ==
    ASSUME NEW S, NEW f \in Allocations(S), NEW h, NEW junk
    PROVE  Unseen(NewBackings(f, S, h, junk), S, junk)
<1> DEFINE D == {f[p] : p \in S}
           page(b) == CHOOSE q \in S : f[q] = b
<1>1. NewBackings(f, S, h, junk) =
        [b \in D |-> [refs |-> 1, generation |-> junk[page(b)],
                      host |-> h[page(b)], data |-> Zero]]
  BY DEF NewBackings
<1>2. \A b \in D : page(b) \in S
  OBVIOUS
<1>3. D \cap DOMAIN backings = {}
  BY DEF Allocations
<1> HIDE DEF page
<1> QED
  BY <1>1, <1>2, <1>3 DEF Unseen

\* commit_locked, commit_external_locked and map_identity_locked.
LEMMA CommitsKept ==
    ASSUME TypeOK, NEW S, NEW f \in Allocations(S), NEW h, NEW junk \in [S -> Garbage],
           backings' = Merge(backings, NewBackings(f, S, h, junk))
    PROVE  BackingsKept
<1> DEFINE g == NewBackings(f, S, h, junk)
<1>1. Unseen(g, S, junk)
  BY NewJunk
<1> HIDE DEF g
<1>2. DOMAIN g \cap DOMAIN backings = {} /\ \A b \in DOMAIN g : g[b].generation \in Garbage
  BY <1>1 DEF Unseen
<1> QED
  BY <1>2, NewKept DEF g

\* An alias keeps every byte.
LEMMA AliasKept ==
    ASSUME TypeOK, NEW a, NEW s, NEW n, NEW prot, Alias(a, s, n, prot)
    PROVE  BackingsKept
<1> DEFINE source(b) == {p \in Span(s, n) : pages[p].backing = b}
<1>1. CASE backings' = backings
  BY <1>1 DEF BackingsKept, BackingKept
<1>2. CASE backings' = [b \in DOMAIN backings |->
                 [backings[b] EXCEPT !.refs = @ + Cardinality(source(b))]]
  <2>1. \A b \in DOMAIN backings : backings[b] \in Backing
    BY DEF TypeOK
  <2> HIDE DEF source
  <2> QED
    BY <1>2, <2>1 DEF BackingsKept, BackingKept, Backing
<1> QED
  BY <1>1, <1>2 DEF Alias, OutOfMemory

\* Binding the KUSER pages keeps every byte of the other backings.
LEMMA BindKuserKept ==
    ASSUME TypeOK, NEW h, BindKuser(h)
    PROVE  BackingsKept
<1> DEFINE K == {KuserCanonical, KuserShared}
           new(e, j) == [b \in {e} |-> [refs |-> 2, generation |-> j, host |-> h,
                                       data |-> Zero]]
<1>1. PICK e \in Backings \ DOMAIN backings, j \in Garbage :
        backings' = Merge(DropPages(K), new(e, j))
  BY DEF BindKuser
<1>2. DOMAIN new(e, j) \cap DOMAIN backings = {}
      /\ \A b \in DOMAIN new(e, j) : new(e, j)[b].generation \in Garbage
  OBVIOUS
<1> HIDE DEF K, new
<1> QED
  BY <1>1, <1>2, DropKeeps, NewKept

\* The write: a backing that survives it keeps its bytes and their stamp, or
\* is stamped anew and one of the written pages points to it before and after.
LEMMA WriteContents ==
    ASSUME TypeOK, NEW a \in Nat, NEW n \in Nat, NEW v, Write(a, n, v)
    PROVE  /\ \A b \in DOMAIN backings' \ DOMAIN backings :
                 \/ backings'[b].generation = 0
                 \/ backings'[b].generation \in nextGen + 1 .. nextGen'
           /\ \A b \in DOMAIN backings \cap DOMAIN backings' :
                 /\ backings'[b].host = backings[b].host
                 /\ \/ BackingKept(b)
                    \/ /\ backings'[b].generation \in nextGen + 1 .. nextGen'
                       /\ \E p \in Span(a, n) \ CopyOnWrite(a, n) :
                             /\ pages[p].backing = b
                             /\ p \in DOMAIN pages /\ p \in DOMAIN pages'
                             /\ pages'[p].backing = b
                             /\ pages'[p].generation > nextGen
<1> DEFINE S == Span(a, n)
           C == CopyOnWrite(a, n)
           gen == nextGen + Cardinality(C)
           target(f) == [p \in S |-> IF p \in C THEN f[p] ELSE pages[p].backing]
           h == [p \in C |-> NoHost]
           junk == [p \in C |-> 0]
           before(f) == Merge(DropPages(C), NewBackings(f, C, h, junk))
<1>1. PICK f \in Allocations(C) :
        /\ \E last \in LastPages(target(f), S) :
              backings' =
                 [b \in DOMAIN before(f) |->
                    IF b \in DOMAIN last
                    THEN Stored(before(f)[b], v[last[b]], gen + 2 * (last[b] - a) + 1)
                    ELSE before(f)[b]]
        /\ pages' =
              [p \in DOMAIN pages |->
                 IF p \in S
                 THEN [pages[p] EXCEPT
                          !.backing = target(f)[p],
                          !.protection.access = Detached(@),
                          !.generation = gen + 2 * (p - a) + 2]
                 ELSE pages[p]]
  BY DEF Write
<1>2. C \subseteq S /\ S \subseteq DOMAIN pages
  BY DEF CopyOnWrite, Write, Accessible, Committed, Reserved
<1>3. nextGen' = gen + 2 * n /\ gen \in Nat /\ gen >= nextGen /\ nextGen \in Nat
  <2>1. Cardinality(C) \in Nat
    BY SpanCount DEF CopyOnWrite
  <2>2. nextGen' = gen + 2 * n
    BY DEF Write
  <2> QED
    BY <2>1, <2>2 DEF TypeOK
<1> DEFINE T == target(f)
           B == before(f)
<1>4. \A p \in S : T[p] = IF p \in C THEN f[p] ELSE pages[p].backing
  OBVIOUS
<1>5. \A p \in C : f[p] \notin DOMAIN backings
  BY DEF Allocations
<1>6. /\ \A b \in DOMAIN B : B[b] \in Backing
      /\ \A b \in DOMAIN B \cap DOMAIN backings :
            /\ B[b].host = backings[b].host /\ B[b].data = backings[b].data
            /\ B[b].generation = backings[b].generation
      /\ \A b \in DOMAIN B \ DOMAIN backings : B[b].generation = 0
  <2> DEFINE drop == DropPages(C)
             fresh == NewBackings(f, C, h, junk)
  <2>1. /\ DOMAIN drop \subseteq DOMAIN backings
        /\ \A b \in DOMAIN drop : drop[b] \in Backing
    BY <1>2, DropTyped
  <2>2. /\ DOMAIN drop \subseteq DOMAIN backings
        /\ \A b \in DOMAIN drop :
            /\ drop[b].host = backings[b].host /\ drop[b].data = backings[b].data
            /\ drop[b].generation = backings[b].generation
    BY DropKeeps
  <2>3. DOMAIN fresh \subseteq Backings /\ \A b \in DOMAIN fresh : fresh[b] \in Backing
    BY NewTyped
  <2>4. /\ DOMAIN fresh \cap DOMAIN backings = {}
        /\ \A b \in DOMAIN fresh : fresh[b].generation = 0
    <3>1. \A p \in C : junk[p] = 0
      OBVIOUS
    <3> HIDE DEF h, junk, C
    <3>2. Unseen(fresh, C, junk)
      BY NewJunk
    <3> HIDE DEF fresh
    <3> QED
      BY <3>1, <3>2 DEF Unseen
  <2>5. B = Merge(drop, fresh)
    OBVIOUS
  <2> HIDE DEF drop, fresh, B
  <2>6. /\ DOMAIN B = DOMAIN drop \cup DOMAIN fresh
        /\ \A b \in DOMAIN fresh : B[b] = fresh[b]
        /\ \A b \in DOMAIN drop \ DOMAIN fresh : B[b] = drop[b]
    BY <2>5 DEF Merge
  <2> QED
    BY <2>1, <2>2, <2>3, <2>4, <2>6
<1>7. PICK last \in LastPages(T, S) :
        backings' =
           [b \in DOMAIN B |->
              IF b \in DOMAIN last
              THEN Stored(B[b], v[last[b]], gen + 2 * (last[b] - a) + 1)
              ELSE B[b]]
  BY <1>1
<1>8. pages' =
        [p \in DOMAIN pages |->
           IF p \in S
           THEN [pages[p] EXCEPT !.backing = T[p],
                                 !.protection.access = Detached(@),
                                 !.generation = gen + 2 * (p - a) + 2]
           ELSE pages[p]]
  BY <1>1
<1> HIDE DEF target, gen, C, h, junk, before, T, B
<1>9. DOMAIN last = {T[p] : p \in S} /\ \A b \in DOMAIN last : last[b] \in S
  BY DEF LastPages
<1>10. ASSUME NEW b \in DOMAIN B, b \in DOMAIN last
       PROVE  /\ backings'[b].host = B[b].host
              /\ backings'[b].generation \in nextGen + 1 .. nextGen'
  <2>1. B[b] \in Backing
    BY <1>6
  <2>2. backings'[b] = Stored(B[b], v[last[b]], gen + 2 * (last[b] - a) + 1)
    BY <1>7, <1>10
  <2>3. backings'[b].host = B[b].host
    BY <2>1, <2>2 DEF Stored, Backing
  <2>4. backings'[b].generation = gen + 2 * (last[b] - a) + 1
    BY <2>1, <2>2 DEF Stored, Backing
  <2>5. last[b] \in S
    BY <1>9, <1>10
  <2>6. last[b] \in Int /\ last[b] >= a /\ last[b] <= a + n - 1
    BY <2>5 DEF Span
  <2>7. backings'[b].generation \in nextGen + 1 .. nextGen'
    BY <1>3, <2>4, <2>6
  <2> QED
    BY <2>3, <2>7
<1>11. DOMAIN backings' = DOMAIN B /\ \A b \in DOMAIN B \ DOMAIN last : backings'[b] = B[b]
  BY <1>7
<1>12. ASSUME NEW b \in DOMAIN backings, b \in DOMAIN last
       PROVE  \E p \in S \ C : /\ pages[p].backing = b
                               /\ p \in DOMAIN pages /\ p \in DOMAIN pages'
                               /\ pages'[p].backing = b
                               /\ pages'[p].generation > nextGen
  <2>1. PICK p \in S : T[p] = b
    BY <1>9, <1>12
  <2>2. p \notin C /\ pages[p].backing = b /\ p \in DOMAIN pages
    BY <1>2, <1>4, <1>5, <2>1
  <2>3. pages[p] \in Page
    BY <2>2 DEF TypeOK
  <2>4. /\ p \in DOMAIN pages'
        /\ pages'[p].backing = T[p]
        /\ pages'[p].generation = gen + 2 * (p - a) + 2
    BY <1>8, <2>2, <2>3 DEF Page
  <2>5. p \in Int /\ p >= a
    BY DEF Span
  <2>6. pages'[p].generation > nextGen
    BY <1>3, <2>4, <2>5
  <2> QED
    BY <2>1, <2>2, <2>4, <2>6
<1>13. \A b \in DOMAIN backings' \ DOMAIN backings :
          \/ backings'[b].generation = 0
          \/ backings'[b].generation \in nextGen + 1 .. nextGen'
  BY <1>6, <1>10, <1>11
<1>14. ASSUME NEW b \in DOMAIN backings \cap DOMAIN backings'
       PROVE  /\ backings'[b].host = backings[b].host
              /\ \/ BackingKept(b)
                 \/ /\ backings'[b].generation \in nextGen + 1 .. nextGen'
                    /\ \E p \in S \ C : /\ pages[p].backing = b
                                        /\ p \in DOMAIN pages /\ p \in DOMAIN pages'
                                        /\ pages'[p].backing = b
                                        /\ pages'[p].generation > nextGen
  <2>1. CASE b \in DOMAIN last
    BY <1>6, <1>10, <1>11, <1>12, <2>1
  <2>2. CASE b \notin DOMAIN last
    BY <1>6, <1>11, <2>2 DEF BackingKept
  <2> QED
    BY <2>1, <2>2
<1> QED
  BY <1>13, <1>14 DEF C

\* Every operation but the write.
NonWrite ==
    \/ \E r \in Ranges :
          \/ Reserve(r[1], r[2]) \/ Release(r[1], r[2]) \/ Unmap(r[1], r[2])
          \/ Decommit(r[1], r[2])
          \/ \E prot \in Protections :
                \/ Commit(r[1], r[2], prot) \/ Protect(r[1], r[2], prot)
                \/ \E s \in Address : Alias(r[1], s, r[2], prot)
                \/ MapIdentity(r[1], r[2], prot)
                \/ \E h \in HostPages : CommitExternal(r[1], h, r[2], prot)
          \/ \E mode \in {"read", "write", "fetch"} : ConsumeGuard(r[1], r[2], mode)
          \/ \E mode \in {"read", "fetch"} : ReadOrFetch(r[1], r[2], mode)
    \/ \E h \in HostPages : BindKuser(h)
    \/ \E h \in HostPages, v \in Contents : HostWrite(h, v)
    \/ Destroy

\* None of them changes bytes that GEM keeps.
LEMMA NonWriteKept ==
    ASSUME TypeOK, NonWrite
    PROVE  BackingsKept
<1>0. ASSUME backings' = backings PROVE BackingsKept
  BY <1>0 DEF BackingsKept, BackingKept
<1>1. ASSUME NEW r \in Ranges, \/ Release(r[1], r[2]) \/ Unmap(r[1], r[2])
                               \/ Decommit(r[1], r[2])
      PROVE  BackingsKept
  <2>1. backings' = DropPages(Span(r[1], r[2]))
    <3>1. CASE Unmap(r[1], r[2])
      BY <3>1, Zenon DEF Unmap
    <3> QED
      BY <1>1, <3>1 DEF Release, Decommit
  <2> QED
    BY <2>1, DropsKept
<1>2. ASSUME NEW r \in Ranges, NEW prot, Commit(r[1], r[2], prot)
      PROVE  BackingsKept
  <2> DEFINE S == {p \in Span(r[1], r[2]) : pages[p].backing = NoBacking}
             h == [p \in S |-> NoHost]
  <2>1. PICK f \in Allocations(S), junk \in [S -> Garbage] :
          backings' = Merge(backings, NewBackings(f, S, h, junk))
    BY <1>2 DEF Commit
  <2> HIDE DEF S, h
  <2> QED
    BY <2>1, CommitsKept
<1>3. ASSUME NEW r \in Ranges, NEW prot, NEW x, CommitExternal(r[1], x, r[2], prot)
      PROVE  BackingsKept
  <2> DEFINE S == {p \in Span(r[1], r[2]) : pages[p].backing = NoBacking}
             h == [p \in S |-> x + (p - r[1])]
  <2>1. PICK f \in Allocations(S), junk \in [S -> Garbage] :
          backings' = Merge(backings, NewBackings(f, S, h, junk))
    BY <1>3 DEF CommitExternal
  <2> HIDE DEF S, h
  <2> QED
    BY <2>1, CommitsKept
<1>4. ASSUME NEW r \in Ranges, NEW prot, MapIdentity(r[1], r[2], prot)
      PROVE  BackingsKept
  <2> DEFINE S == Span(r[1], r[2])
             h == [p \in S |-> p]
  <2>1. CASE \E k \in 0 .. 2 * r[2] - 1 : OutOfMemory(k)
    BY <1>0, <2>1 DEF OutOfMemory
  <2>2. CASE \E f \in Allocations(S), junk \in [S -> Garbage] :
                backings' = Merge(backings, NewBackings(f, S, h, junk))
    <3>1. PICK f \in Allocations(S), junk \in [S -> Garbage] :
            backings' = Merge(backings, NewBackings(f, S, h, junk))
      BY <2>2
    <3> HIDE DEF S, h
    <3> QED
      BY <3>1, CommitsKept
  <2> QED
    BY <1>4, <2>1, <2>2 DEF MapIdentity
<1>5. ASSUME NEW r \in Ranges, NEW prot, NEW s, NEW mode,
             \/ Reserve(r[1], r[2]) \/ Protect(r[1], r[2], prot)
             \/ ConsumeGuard(r[1], r[2], mode) \/ ReadOrFetch(r[1], r[2], mode)
             \/ Alias(r[1], s, r[2], prot)
      PROVE  BackingsKept
  <2>1. CASE Alias(r[1], s, r[2], prot)
    BY <2>1, AliasKept
  <2> QED
    BY <1>0, <1>5, <2>1 DEF Reserve, OutOfMemory, Protect, ConsumeGuard, ReadOrFetch
<1>6. ASSUME NEW h, BindKuser(h)
      PROVE  BackingsKept
  BY <1>6, BindKuserKept
<1>7. CASE Destroy
  BY <1>7, DropsKept DEF Destroy
<1>8. CASE \E h \in HostPages, v \in Contents : HostWrite(h, v)
  BY <1>0, <1>8 DEF HostWrite
<1> QED
  BY <1>1, <1>2, <1>3, <1>4, <1>5, <1>6, <1>7, <1>8 DEF NonWrite

\* Only a write changes bytes that GEM keeps.
LEMMA NextKept ==
    ASSUME TypeOK, [Next]_memoryVars
    PROVE  BackingsKept \/ \E r \in Ranges : \E v : Write(r[1], r[2], v)
<1>1. CASE UNCHANGED memoryVars
  BY <1>1 DEF BackingsKept, BackingKept, memoryVars
<1>2. Next => NonWrite \/ \E r \in Ranges : \E v : Write(r[1], r[2], v)
  BY Zenon DEF Next, Operation, NonWrite
<1> QED
  BY <1>1, <1>2, NonWriteKept

\* No page has a generation the counter has not reached.
PagesStamped ==
    /\ nextGen >= 3
    /\ \A p \in DOMAIN pages : pages[p].generation <= nextGen

\* It holds in every reachable state, because steps only touch or keep pages.
LEMMA PagesStayStamped == Spec => []PagesStamped
<1>1. Init => PagesStamped
  <2> SUFFICES ASSUME Init PROVE PagesStamped
    OBVIOUS
  <2>1. PICK b : pages = [p \in {KuserCanonical, KuserShared} |->
                        [base |-> p, size |-> 1, backing |-> b,
                         protection |-> [access |-> "READWRITE", guard |-> FALSE],
                         generation |-> IF p = KuserCanonical THEN 2 ELSE 3]]
    BY DEF Init
  <2>2. \A p \in DOMAIN pages : pages[p].generation \in {2, 3}
    BY <2>1
  <2> QED
    BY <2>2 DEF Init, PagesStamped
<1>2. TypeOK /\ PagesStamped /\ [Next]_memoryVars => PagesStamped'
  <2> SUFFICES ASSUME TypeOK, PagesStamped, [Next]_memoryVars PROVE PagesStamped'
    OBVIOUS
  <2>1. PagesTouched /\ nextGen \in Nat
    BY NextTouched DEF TypeOK
  <2>2. ASSUME NEW p \in DOMAIN pages' PROVE pages'[p].generation <= nextGen'
    <3>1. CASE PageKept(p)
      <4>1. pages[p] \in Page /\ pages[p].generation <= nextGen
        BY <3>1 DEF PageKept, TypeOK, PagesStamped
      <4>2. pages[p].generation \in Nat /\ pages'[p].generation = pages[p].generation
        BY <3>1, <4>1 DEF Page, PageKept
      <4> QED
        BY <2>1, <4>1, <4>2 DEF PagesTouched
    <3>2. CASE pages'[p].generation \in nextGen + 1 .. nextGen'
      BY <2>1, <3>2 DEF PagesTouched
    <3> QED
      BY <2>1, <3>1, <3>2 DEF PagesTouched
  <2>3. nextGen' >= 3
    BY <2>1 DEF PagesTouched, PagesStamped
  <2> QED
    BY <2>2, <2>3 DEF PagesStamped
<1> QED
  BY <1>1, <1>2, TypeCorrect, PTL DEF Spec

\* A page that a write reaches in place is writable in place.
LEMMA WrittenInPlace ==
    ASSUME TypeOK, NEW a, NEW n, NEW v, Write(a, n, v),
           NEW p \in Span(a, n) \ CopyOnWrite(a, n), ~External(pages[p].backing)
    PROVE  /\ ~pages[p].protection.guard
           /\ pages[p].protection.access \in WriteAccess \ WriteCopyAccess
<1>1. Allowed(pages[p].protection, "write") /\ ~pages[p].protection.guard
  BY DEF Write, Accessible, Guarded
<1>2. pages[p].protection.access \in WriteAccess
  BY <1>1 DEF Allowed
<1>3. pages[p].protection.access \notin WriteCopyAccess
  BY DEF CopyOnWrite
<1> QED
  BY <1>1, <1>2, <1>3

\* A store through a write-copy, guarded, read-only or execute-only view never
\* reaches the bytes the other aliases of its backing see.
THEOREM WriteCopiesAreIsolated == Spec => WriteCopyIsolation
<1>1. TypeOK /\ PagesStamped /\ [Next]_memoryVars
        => [\A b \in DOMAIN backings \cap DOMAIN backings' :
              ~External(b) /\ backings'[b].data # backings[b].data
                => \E p \in DOMAIN pages :
                      pages[p].backing = b /\ StoredInPlace(p)]_memoryVars
  <2> SUFFICES ASSUME TypeOK, PagesStamped, [Next]_memoryVars,
                      NEW b \in DOMAIN backings \cap DOMAIN backings',
                      ~External(b), backings'[b].data # backings[b].data
               PROVE  \E p \in DOMAIN pages : pages[p].backing = b /\ StoredInPlace(p)
    OBVIOUS
  <2>1. PICK r \in Ranges : \E v : Write(r[1], r[2], v)
    BY NextKept DEF BackingsKept, BackingKept
  <2>2. PICK v : Write(r[1], r[2], v)
    BY <2>1
  <2>3. r[1] \in Nat /\ r[2] \in Nat
    BY AddressAssumption
  <2>4. PICK p \in Span(r[1], r[2]) \ CopyOnWrite(r[1], r[2]) :
          /\ pages[p].backing = b
          /\ p \in DOMAIN pages /\ p \in DOMAIN pages'
          /\ pages'[p].backing = b
          /\ pages'[p].generation > nextGen
    BY <2>2, <2>3, WriteContents DEF BackingKept
  <2>5. /\ ~pages[p].protection.guard
        /\ pages[p].protection.access \in WriteAccess \ WriteCopyAccess
    BY <2>2, <2>4, WrittenInPlace
  <2>6. pages'[p].generation # pages[p].generation
    <3>1. pages[p].generation \in Nat /\ pages[p].generation <= nextGen /\ nextGen \in Nat
      BY <2>4 DEF TypeOK, Page, PagesStamped
    <3> QED
      BY <2>4, <3>1
  <2> QED
    BY <2>4, <2>5, <2>6 DEF StoredInPlace
<1> QED
  BY <1>1, TypeCorrect, PagesStayStamped, PTL DEF Spec, WriteCopyIsolation

\* The same for the content generations of backings.  It needs storage from
\* malloc that does not hold a generation ahead of the counter.
BackingsStamped == \A b \in DOMAIN backings : backings[b].generation <= nextGen

\* It holds in every reachable state under that hypothesis.
LEMMA BackingsStayStamped ==
    ASSUME \A g \in Garbage : g <= 3
    PROVE  Spec => []BackingsStamped
<1>1. Init => BackingsStamped
  <2> SUFFICES ASSUME Init PROVE BackingsStamped
    OBVIOUS
  <2>1. PICK b \in Backings, junk \in Garbage :
          backings = [c \in {b} |-> [refs |-> 2, generation |-> junk,
                                     host |-> NoHost, data |-> Zero]]
    BY DEF Init
  <2> QED
    BY <2>1 DEF Init, BackingsStamped
<1>2. TypeOK /\ PagesStamped /\ BackingsStamped /\ [Next]_memoryVars => BackingsStamped'
  <2> SUFFICES ASSUME TypeOK, PagesStamped, BackingsStamped, [Next]_memoryVars,
                      NEW b \in DOMAIN backings'
               PROVE  backings'[b].generation <= nextGen'
    BY DEF BackingsStamped
  <2>1. nextGen \in Nat /\ nextGen' \in Nat /\ nextGen <= nextGen' /\ nextGen >= 3
    BY NextTouched DEF PagesTouched, TypeOK, PagesStamped
  <2>2. b \in DOMAIN backings => backings[b].generation \in Nat
                                 /\ backings[b].generation <= nextGen
    BY DEF TypeOK, Backing, BackingsStamped
  <2>3. CASE BackingsKept
    <3>1. CASE b \in DOMAIN backings
      BY <2>1, <2>2, <2>3, <3>1 DEF BackingsKept, BackingKept
    <3>2. CASE b \notin DOMAIN backings
      <4>1. backings'[b].generation \in Garbage
        BY <2>3, <3>2 DEF BackingsKept
      <4>2. backings'[b].generation \in Nat /\ backings'[b].generation <= 3
        BY <4>1, BackingAssumption
      <4> QED
        BY <2>1, <4>2
    <3> QED
      BY <3>1, <3>2
  <2>4. ASSUME NEW r \in Ranges, NEW v, Write(r[1], r[2], v)
        PROVE  backings'[b].generation <= nextGen'
    <3>1. r[1] \in Nat /\ r[2] \in Nat
      BY AddressAssumption
    <3>2. CASE b \in DOMAIN backings
      <4>1. BackingKept(b) \/ backings'[b].generation \in nextGen + 1 .. nextGen'
        BY <2>4, <3>1, <3>2, WriteContents
      <4> QED
        BY <2>1, <2>2, <3>2, <4>1 DEF BackingKept
    <3>3. CASE b \notin DOMAIN backings
      <4>1. \/ backings'[b].generation = 0
            \/ backings'[b].generation \in nextGen + 1 .. nextGen'
        BY <2>4, <3>1, <3>3, WriteContents
      <4> QED
        BY <2>1, <4>1
    <3> QED
      BY <3>2, <3>3
  <2> QED
    BY <2>3, <2>4, NextKept
<1> QED
  BY <1>1, <1>2, TypeCorrect, PagesStayStamped, PTL DEF Spec

\* The bytes seen through a page of GEM-owned storage never change without its
\* stamp changing, whichever alias stored them, provided that the storage
\* new_backing takes from malloc does not hold a generation the counter has
\* not reached yet: new_backing leaves that field as malloc returned it.
THEOREM ContentsAreStamped ==
    ASSUME \A g \in Garbage : g <= 3
    PROVE  Spec => ContentChangesAreStamped
<1>1. TypeOK /\ RefsExact /\ RefsExact' /\ BackingsStamped /\ [Next]_memoryVars
        => [\A p \in DOMAIN pages \cap DOMAIN pages' :
              /\ pages[p].backing # NoBacking /\ pages'[p].backing # NoBacking
              /\ ~External(pages[p].backing)
              /\ Stamp(p)' = Stamp(p)
              => Content(pages[p].backing)' = Content(pages[p].backing)]_memoryVars
  <2> SUFFICES ASSUME TypeOK, RefsExact, RefsExact', BackingsStamped, [Next]_memoryVars,
                      NEW p \in DOMAIN pages \cap DOMAIN pages',
                      pages[p].backing # NoBacking, pages'[p].backing # NoBacking,
                      ~External(pages[p].backing), Stamp(p)' = Stamp(p)
               PROVE  Content(pages[p].backing)' = Content(pages[p].backing)
    OBVIOUS
  <2> DEFINE b == pages[p].backing
  <2>1. pages'[p].backing = b /\ backings'[b].generation = backings[b].generation
    BY DEF Stamp
  <2>2. b \in DOMAIN backings \cap DOMAIN backings'
    BY <2>1 DEF RefsExact
  <2>3. backings[b].generation \in Nat /\ backings[b].generation <= nextGen /\ nextGen \in Nat
    BY <2>2 DEF TypeOK, Backing, BackingsStamped
  <2> HIDE DEF b
  <2>4. BackingKept(b)
    <3>1. CASE BackingsKept
      BY <2>2, <3>1 DEF BackingsKept
    <3>2. ASSUME NEW r \in Ranges, NEW v, Write(r[1], r[2], v)
          PROVE  BackingKept(b)
      <4>1. r[1] \in Nat /\ r[2] \in Nat
        BY AddressAssumption
      <4>2. BackingKept(b) \/ backings'[b].generation \in nextGen + 1 .. nextGen'
        BY <2>2, <3>2, <4>1, WriteContents
      <4>3. ~(backings[b].generation \in nextGen + 1 .. nextGen')
        BY <2>3
      <4> QED
        BY <2>1, <4>2, <4>3
    <3> QED
      BY <3>1, <3>2, NextKept
  <2>5. Content(pages[p].backing)' = backings'[b].data
    BY <2>1, <2>4 DEF Content, External, BackingKept, b
  <2>6. Content(pages[p].backing) = backings[b].data
    BY DEF Content, b
  <2> QED
    BY <2>4, <2>5, <2>6 DEF BackingKept
<1> QED
  BY <1>1, TypeCorrect, RefsStayExact, BackingsStayStamped, PTL
     DEF Spec, ContentChangesAreStamped
=============================================================================
