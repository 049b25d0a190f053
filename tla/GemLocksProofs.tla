--------------------------- MODULE GemLocksProofs ---------------------------
(***************************************************************************)
(* Proofs about GemLocks for any number of threads, stripes and operations *)
(* and any depth of fault re-entry.                                        *)
(***************************************************************************)
EXTENDS GemLocks, FiniteSetTheorems, WellFoundedInduction, TLAPS

StripeLock == [readers : Nat, waiting : Nat, writer : BOOLEAN, sleepers : SUBSET Threads]

\* The thread runs at level k: what is below waits in its body for a fault
\* handler, and there is nothing above.
Shape(t, k) ==
    /\ \A j \in Levels : j > k => ops[t][j] = Idle
    /\ \A j \in Levels : j < k => ops[t][j].pc = "body"
    /\ k = 1 \/ ops[t][k].pc # "idle"
Nested == \A t \in Threads : \E k \in Levels : Shape(t, k)

\* What an operation may hold where it is.
WellFormed(o) ==
    /\ o.reads \cap o.writes = {} /\ o.held \subseteq o.reads \cup o.writes
    /\ o.pc \in {"idle", "metadata", "unlock", "unpin"} => o.held = {}
    /\ o.announced => o.pc = "stripes"
    /\ o.pc \in {"copy", "unpin"} => o.commit
OpsWellFormed == \A t \in Threads, k \in Levels : WellFormed(ops[t][k])

\* The operation is inside the metadata lock.
Inside(o) == o.pc \in {"stripes", "body", "unlock"} \/ (o.pc = "release" /\ ~o.commit)
InsideOps == {x \in Threads \X Levels : Inside(ops[x[1]][x[2]])}

\* Everyone inside is the owner, once per lock.
Metadata ==
    /\ \A t \in Threads, k \in Levels : Inside(ops[t][k]) => owner = t
    /\ depth = Cardinality(InsideOps)
    /\ owner = NoThread <=> depth = 0

\* The stripes an operation has to acquire, the one that is next, and whether
\* it is where it may have to wait for it.
MissingOf(o) == (o.reads \cup o.writes) \ o.held
LeastOf(o) == CHOOSE s \in MissingOf(o) : \A r \in MissingOf(o) : s <= r
WaitsOn(o, s) == o.pc = "stripes" /\ MissingOf(o) # {} /\ LeastOf(o) = s

\* Who sleeps on a stripe waits for it, and waiting_writers counts the writer
\* that has announced itself.
Queue ==
    /\ \A t \in Threads, s \in Stripes :
          t \in stripe[s].sleepers => \E k \in Levels : WaitsOn(ops[t][k], s)
    /\ \A t \in Threads, k \in Levels :
          ops[t][k].announced => /\ MissingOf(ops[t][k]) # {}
                                 /\ LeastOf(ops[t][k]) \in ops[t][k].writes
    /\ \A s \in Stripes : /\ stripe[s].waiting \in {0, 1}
                          /\ stripe[s].waiting = 1 <=>
                                \E t \in Threads, k \in Levels :
                                    ops[t][k].announced /\ LeastOf(ops[t][k]) = s

\* The inductive invariant.
IInv == TypeOK /\ Nested /\ OpsWellFormed /\ Metadata /\ Queue /\ StripeExclusion

-----------------------------------------------------------------------------
(* Helpers.                                                                 *)

\* There is a next stripe as long as one is missing.
LEMMA LeastIsMissing ==
    ASSUME NEW o \in Operation, MissingOf(o) # {}
    PROVE  LeastOf(o) \in MissingOf(o) /\ LeastOf(o) \in Stripes
<1> DEFINE M == MissingOf(o)
           R == OpToRel(<, Nat)
<1>1. M \subseteq Nat /\ M \subseteq Stripes /\ M # {}
  BY LockAssumption DEF MissingOf, Operation
<1>2. IsWellFoundedOn(R, Nat)
  BY NatLessThanWellFounded
<1>3. \A x, y \in Nat : <<y, x>> \in R <=> y < x
  BY DEF OpToRel
<1> HIDE DEF M, R
<1>4. PICK x \in M : \A y \in M : ~(<<y, x>> \in R)
  BY <1>1, <1>2, WFMin
<1>5. \A y \in M : ~(y < x)
  BY Zenon, <1>1, <1>3, <1>4
<1>6. \A y \in M : x <= y
  BY <1>1, <1>5
<1> QED
  BY <1>1, <1>6 DEF LeastOf, M

\* The innermost operation is where the shape says.
LEMMA LevelIs ==
    ASSUME NEW t \in Threads, NEW k \in Levels, Shape(t, k)
    PROVE  Level(t) = k
<1> DEFINE P(i) == /\ \A j \in Levels : j > i => ops[t][j].pc = "idle"
                   /\ i = 1 \/ ops[t][i].pc # "idle"
<1>1. P(k)
  BY DEF Shape, Idle
<1>2. \A i \in Levels : P(i) => i = k
  <2>1. ASSUME NEW i \in Levels, P(i), i # k
        PROVE  FALSE
    <3>1. CASE i > k
      BY <1>1, <2>1, <3>1, LockAssumption DEF Levels
    <3>2. CASE k > i
      BY <1>1, <2>1, <3>2, LockAssumption DEF Levels
    <3> QED BY <2>1, <3>1, <3>2, LockAssumption DEF Levels
  <2> QED BY <2>1
<1> HIDE DEF P
<1>3. (CHOOSE i \in Levels : P(i)) = k
  BY <1>1, <1>2
<1> QED
  BY <1>3 DEF Level, P

\* The pairs of a thread and a level are finitely many.
LEMMA PairsFinite == IsFiniteSet(Threads \X Levels)
<1>1. IsFiniteSet(Levels)
  BY LockAssumption, FS_Interval DEF Levels
<1> QED
  BY <1>1, LockAssumption, FS_Product

\* Only one operation acquires stripes at a time.
LEMMA OneAcquires ==
    ASSUME Nested, Metadata, NEW t \in Threads, NEW k \in Levels, ops[t][k].pc = "stripes",
           NEW u \in Threads, NEW j \in Levels, ops[u][j].pc = "stripes"
    PROVE  u = t /\ j = k
<1>1. u = t
  BY DEF Metadata, Inside
<1>2. PICK l \in Levels : Shape(t, l)
  BY DEF Nested
<1>3. \A i \in Levels : i # l => ops[t][i].pc # "stripes"
  BY <1>2, LockAssumption DEF Shape, Idle, Levels
<1> QED
  BY <1>1, <1>3

\* The operation at level k of t becomes o.
Moved(t, k, o) ==
    /\ ops' \in [Threads -> [Levels -> Operation]] /\ ops'[t][k] = o
    /\ \A u \in Threads, j \in Levels : u # t \/ j # k => ops'[u][j] = ops[u][j]

\* Become moves one operation and leaves the others alone.
LEMMA BecomeMoves ==
    ASSUME TypeOK, NEW t \in Threads, NEW k \in Levels, Shape(t, k), NEW o \in Operation,
           Become(t, o)
    PROVE  Moved(t, k, o)
<1>1. ops' = [ops EXCEPT ![t][k] = o]
  BY LevelIs DEF Become
<1> QED
  BY <1>1 DEF TypeOK, Moved

\* The operation that moves stays the innermost one.
LEMMA NestedKept ==
    ASSUME Nested, NEW t \in Threads, NEW k \in Levels, Shape(t, k), NEW o \in Operation,
           Moved(t, k, o), k = 1 \/ o.pc # "idle"
    PROVE  Nested'
<1> SUFFICES ASSUME NEW u \in Threads
             PROVE  \E l \in Levels : Shape(u, l)'
  BY DEF Nested
<1>1. CASE u = t
  <2>1. Shape(t, k)'
    BY LockAssumption DEF Shape, Moved, Levels
  <2> QED BY <1>1, <2>1
<1>2. CASE u # t
  <2>1. PICK l \in Levels : Shape(u, l)
    BY DEF Nested
  <2>2. Shape(u, l)'
    BY <1>2, <2>1 DEF Shape, Moved
  <2> QED BY <2>2
<1> QED
  BY <1>1, <1>2

\* Operations of the other threads stay well formed.
LEMMA WellFormedKept ==
    ASSUME OpsWellFormed, NEW t \in Threads, NEW k \in Levels, NEW o, WellFormed(o),
           Moved(t, k, o)
    PROVE  OpsWellFormed'
<1> SUFFICES ASSUME NEW u \in Threads, NEW j \in Levels
             PROVE  WellFormed(ops'[u][j])
  BY DEF OpsWellFormed
<1> QED
  BY DEF OpsWellFormed, Moved

\* Nobody enters or leaves the metadata lock.
LEMMA MetadataKept ==
    ASSUME Metadata, UNCHANGED <<owner, depth>>,
           \A u \in Threads, j \in Levels : Inside(ops'[u][j]) <=> Inside(ops[u][j])
    PROVE  Metadata'
<1>1. InsideOps' = InsideOps
  BY DEF InsideOps
<1> QED
  BY <1>1 DEF Metadata

\* Nobody acquires or releases a stripe.
LEMMA ExclusionKept ==
    ASSUME StripeExclusion,
           \A s \in Stripes : /\ stripe'[s].readers = stripe[s].readers
                              /\ stripe'[s].writer = stripe[s].writer,
           \A u \in Threads, j \in Levels :
               /\ ops'[u][j].held = ops[u][j].held
               /\ ops[u][j].held = {} \/ ops'[u][j].writes = ops[u][j].writes
    PROVE  StripeExclusion'
<1>1. ASSUME NEW s \in Stripes
      PROVE  Holders(s)' = Holders(s)
  BY DEF Holders
<1>2. ASSUME NEW s \in Stripes
      PROVE  WriteHolders(s)' = WriteHolders(s)
  <2>1. \A x \in Holders(s) : s \in ops'[x[1]][x[2]].writes <=> s \in ops[x[1]][x[2]].writes
    BY DEF Holders
  <2> QED BY <1>1, <2>1 DEF WriteHolders
<1> QED
  BY <1>1, <1>2 DEF StripeExclusion

\* Nobody starts or stops to wait, except that sleepers may wake up.
LEMMA QueueKept ==
    ASSUME Queue,
           \A s \in Stripes : /\ stripe'[s].waiting = stripe[s].waiting
                              /\ stripe'[s].sleepers \subseteq stripe[s].sleepers,
           \A u \in Threads, j \in Levels :
               \/ ops'[u][j] = ops[u][j]
               \/ /\ ~ops'[u][j].announced /\ ~ops[u][j].announced
                  /\ \A s \in Stripes : WaitsOn(ops[u][j], s) => u \notin stripe'[s].sleepers
    PROVE  Queue'
<1>1. ASSUME NEW u \in Threads, NEW s \in Stripes, u \in stripe'[s].sleepers
      PROVE  \E j \in Levels : WaitsOn(ops'[u][j], s)
  <2>1. PICK j \in Levels : WaitsOn(ops[u][j], s)
    BY <1>1 DEF Queue
  <2>2. ops'[u][j] = ops[u][j]
    BY <1>1, <2>1
  <2> QED BY <2>1, <2>2
<1>2. \A u \in Threads, j \in Levels :
         ops'[u][j].announced => /\ MissingOf(ops'[u][j]) # {}
                                 /\ LeastOf(ops'[u][j]) \in ops'[u][j].writes
  BY DEF Queue
<1>3. \A u \in Threads, j \in Levels, s \in Stripes :
         ops'[u][j].announced /\ LeastOf(ops'[u][j]) = s <=>
            ops[u][j].announced /\ LeastOf(ops[u][j]) = s
  OBVIOUS
<1> QED
  BY <1>1, <1>2, <1>3 DEF Queue

\* Who is inside the metadata lock, and who holds a stripe, after a move.
LEMMA InsideMoved ==
    ASSUME NEW t \in Threads, NEW k \in Levels, NEW o, Moved(t, k, o)
    PROVE  InsideOps' = (InsideOps \ {<<t, k>>}) \cup (IF Inside(o) THEN {<<t, k>>} ELSE {})
<1>1. ASSUME NEW x \in Threads \X Levels
      PROVE  x \in InsideOps' <=> IF x = <<t, k>> THEN Inside(o) ELSE x \in InsideOps
  <2>1. CASE x = <<t, k>>
    BY <2>1 DEF InsideOps, Moved
  <2>2. CASE x # <<t, k>>
    <3>1. x[1] \in Threads /\ x[2] \in Levels /\ (x[1] # t \/ x[2] # k)
      BY <2>2
    <3> QED BY <2>2, <3>1 DEF InsideOps, Moved
  <2> QED BY <2>1, <2>2
<1>2. InsideOps \subseteq Threads \X Levels /\ InsideOps' \subseteq Threads \X Levels
  BY DEF InsideOps
<1>3. <<t, k>> \in Threads \X Levels
  OBVIOUS
<1> QED
  BY <1>1, <1>2, <1>3

\* Who holds a stripe after one operation moved.
LEMMA HoldersMoved ==
    ASSUME NEW t \in Threads, NEW k \in Levels, NEW o, Moved(t, k, o), NEW s \in Stripes
    PROVE  /\ Holders(s)' = (Holders(s) \ {<<t, k>>}) \cup (IF s \in o.held THEN {<<t, k>>} ELSE {})
           /\ WriteHolders(s)' = (WriteHolders(s) \ {<<t, k>>})
                                   \cup (IF s \in o.held /\ s \in o.writes THEN {<<t, k>>} ELSE {})
<1>1. ASSUME NEW x \in Threads \X Levels
      PROVE  /\ x \in Holders(s)' <=> IF x = <<t, k>> THEN s \in o.held ELSE x \in Holders(s)
             /\ x \in WriteHolders(s)' <=>
                   IF x = <<t, k>> THEN s \in o.held /\ s \in o.writes ELSE x \in WriteHolders(s)
  <2>1. CASE x = <<t, k>>
    BY <2>1 DEF Holders, WriteHolders, Moved
  <2>2. CASE x # <<t, k>>
    <3>1. x[1] \in Threads /\ x[2] \in Levels /\ (x[1] # t \/ x[2] # k)
      BY <2>2
    <3> QED BY <2>2, <3>1 DEF Holders, WriteHolders, Moved
  <2> QED BY <2>1, <2>2
<1>2. /\ Holders(s) \subseteq Threads \X Levels /\ Holders(s)' \subseteq Threads \X Levels
      /\ WriteHolders(s) \subseteq Threads \X Levels /\ WriteHolders(s)' \subseteq Threads \X Levels
  BY DEF Holders, WriteHolders
<1>3. <<t, k>> \in Threads \X Levels
  OBVIOUS
<1> QED
  BY <1>1, <1>2, <1>3

\* The operations that are inside the lock can be counted.
LEMMA InsideFinite == IsFiniteSet(InsideOps) /\ Cardinality(InsideOps) \in Nat
<1>1. InsideOps \subseteq Threads \X Levels
  BY DEF InsideOps
<1> QED
  BY <1>1, PairsFinite, FS_Subset, FS_CardinalityType

\* The operations that hold a stripe can be counted.
LEMMA HoldersFinite ==
    ASSUME NEW s \in Stripes
    PROVE  /\ IsFiniteSet(Holders(s)) /\ WriteHolders(s) \subseteq Holders(s)
           /\ Cardinality(Holders(s)) \in Nat
<1>1. Holders(s) \subseteq Threads \X Levels /\ WriteHolders(s) \subseteq Holders(s)
  BY DEF Holders, WriteHolders
<1> QED
  BY <1>1, PairsFinite, FS_Subset, FS_CardinalityType

\* gem_lock_acquire of the metadata lock.
LEMMA MetadataLocked ==
    ASSUME Metadata, NEW t \in Threads, NEW k \in Levels, NEW o, Moved(t, k, o),
           ~Inside(ops[t][k]), Inside(o), owner \in {NoThread, t},
           owner' = t, depth' = depth + 1
    PROVE  Metadata'
<1>1. InsideOps' = InsideOps \cup {<<t, k>>} /\ <<t, k>> \notin InsideOps
  BY InsideMoved DEF InsideOps
<1>2. IsFiniteSet(InsideOps) /\ Cardinality(InsideOps) \in Nat
  BY InsideFinite
<1>3. Cardinality(InsideOps') = Cardinality(InsideOps) + 1
  BY <1>1, <1>2, FS_AddElement
<1>4. \A u \in Threads, j \in Levels : Inside(ops'[u][j]) => u = t
  <2>1. ASSUME NEW u \in Threads, NEW j \in Levels, Inside(ops[u][j])
        PROVE  u = t
    <3>1. <<u, j>> \in InsideOps
      BY <2>1 DEF InsideOps
    <3>2. Cardinality(InsideOps) # 0
      BY <1>2, <3>1, FS_EmptySet
    <3> QED BY <2>1, <3>2 DEF Metadata
  <2> QED BY <2>1 DEF Moved
<1>5. t # NoThread
  BY LockAssumption
<1> QED
  BY <1>2, <1>3, <1>4, <1>5 DEF Metadata

\* Its release.
LEMMA MetadataUnlocked ==
    ASSUME Metadata, NEW t \in Threads, NEW k \in Levels, NEW o, Moved(t, k, o),
           Inside(ops[t][k]), ~Inside(o), depth' = depth - 1, owner' = OwnerAfterUnlock
    PROVE  Metadata' /\ owner' \in {owner, NoThread}
<1>1. InsideOps' = InsideOps \ {<<t, k>>} /\ <<t, k>> \in InsideOps
  BY InsideMoved DEF InsideOps
<1>2. IsFiniteSet(InsideOps) /\ Cardinality(InsideOps) \in Nat
  BY InsideFinite
<1>3. IsFiniteSet(InsideOps') /\ Cardinality(InsideOps') = Cardinality(InsideOps) - 1
  <2> DEFINE S == InsideOps
             x == <<t, k>>
  <2>1. IsFiniteSet(S) /\ x \in S /\ InsideOps' = S \ {x}
    BY <1>1, <1>2
  <2> HIDE DEF S, x
  <2>2. IsFiniteSet(S \ {x}) /\ Cardinality(S \ {x}) = Cardinality(S) - 1
    BY <2>1, FS_RemoveElement
  <2> QED BY <2>1, <2>2 DEF S
<1>4. owner = t /\ t # NoThread
  BY LockAssumption DEF Metadata
<1>5. \A u \in Threads, j \in Levels : Inside(ops'[u][j]) => Inside(ops[u][j]) /\ <<u, j>> \in InsideOps'
  <2>1. ASSUME NEW u \in Threads, NEW j \in Levels, Inside(ops'[u][j])
        PROVE  Inside(ops[u][j]) /\ <<u, j>> \in InsideOps'
    <3>1. u # t \/ j # k
      BY <2>1 DEF Moved
    <3>2. <<u, j>> \in InsideOps'
      BY <2>1 DEF InsideOps
    <3> QED BY <2>1, <3>1, <3>2 DEF Moved
  <2> QED BY <2>1
<1>6. CASE depth = 1
  <2>1. InsideOps' = {}
    BY <1>2, <1>3, <1>6, FS_EmptySet DEF Metadata
  <2>2. \A u \in Threads, j \in Levels : ~Inside(ops'[u][j])
    BY <1>5, <2>1
  <2>3. owner' = NoThread /\ depth' = 0
    BY <1>6 DEF OwnerAfterUnlock
  <2> QED BY <1>3, <1>6, <2>2, <2>3 DEF Metadata
<1>7. CASE depth # 1
  <2>1. owner' = t
    BY <1>4, <1>7 DEF OwnerAfterUnlock
  <2>2. depth \in Nat /\ depth # 0
    BY <1>2, <1>4 DEF Metadata
  <2>3. depth' # 0 /\ depth' = Cardinality(InsideOps')
    BY <1>3, <1>7, <2>2 DEF Metadata
  <2>4. \A u \in Threads, j \in Levels : Inside(ops'[u][j]) => owner' = u
    BY <1>4, <1>5, <2>1 DEF Metadata
  <2> QED BY <1>4, <2>1, <2>3, <2>4 DEF Metadata
<1> QED
  BY <1>6, <1>7

\* An operation that does not wait moves on without touching a stripe.
LEMMA MoveKeeps ==
    ASSUME IInv, NEW t \in Threads, NEW k \in Levels, NEW o \in Operation, Moved(t, k, o),
           WellFormed(o), Nested', Metadata', owner' \in Threads \cup {NoThread},
           UNCHANGED stripe, o.held = ops[t][k].held,
           ops[t][k].held = {} \/ o.writes = ops[t][k].writes,
           ~o.announced, ops[t][k].pc = "stripes" => MissingOf(ops[t][k]) = {}
    PROVE  IInv'
<1>1. TypeOK'
  <2>1. depth' \in Nat
    <3>1. (Cardinality(InsideOps) \in Nat)'
      BY InsideFinite, PTL
    <3> QED BY <3>1 DEF Metadata
  <2> QED BY <2>1 DEF IInv, TypeOK, Moved
<1>2. OpsWellFormed'
  BY WellFormedKept DEF IInv
<1>3. ~ops[t][k].announced /\ \A s \in Stripes : ~WaitsOn(ops[t][k], s)
  BY DEF IInv, Queue, OpsWellFormed, WellFormed, WaitsOn
<1>4. Queue'
  <2>1. \A u \in Threads, j \in Levels :
           \/ ops'[u][j] = ops[u][j]
           \/ /\ ~ops'[u][j].announced /\ ~ops[u][j].announced
              /\ \A s \in Stripes : WaitsOn(ops[u][j], s) => u \notin stripe'[s].sleepers
    BY <1>3 DEF Moved
  <2> QED BY <2>1, QueueKept DEF IInv
<1>5. StripeExclusion'
  <2>1. \A u \in Threads, j \in Levels :
            /\ ops'[u][j].held = ops[u][j].held
            /\ ops[u][j].held = {} \/ ops'[u][j].writes = ops[u][j].writes
    BY DEF Moved
  <2> QED BY <2>1, ExclusionKept DEF IInv
<1> QED
  BY <1>1, <1>2, <1>4, <1>5 DEF IInv

-----------------------------------------------------------------------------
(* The inductive invariant, action by action.                               *)

\* The innermost operation of a thread.
LEMMA Innermost ==
    ASSUME IInv, NEW t \in Threads
    PROVE  \E k \in Levels : /\ Shape(t, k) /\ Level(t) = k /\ Op(t) = ops[t][k]
                             /\ Op(t) \in Operation /\ WellFormed(Op(t))
<1>1. PICK k \in Levels : Shape(t, k)
  BY DEF IInv, Nested
<1>2. Level(t) = k
  BY <1>1, LevelIs
<1>3. ops[t][k] \in Operation /\ WellFormed(ops[t][k])
  BY DEF IInv, TypeOK, OpsWellFormed
<1> QED
  BY <1>1, <1>2, <1>3 DEF Op

\* A call, and a fault handler's, starts before the metadata lock.
LEMMA NewOperationTyped ==
    ASSUME NEW p \in Plans \cup FaultPlans
    PROVE  /\ NewOperation(p) \in Operation /\ WellFormed(NewOperation(p))
           /\ NewOperation(p).pc = "metadata" /\ NewOperation(p).held = {}
           /\ NewOperation(p).announced = FALSE
           /\ NewOperation(p).reads = p.reads /\ NewOperation(p).writes = p.writes
<1> DEFINE o == NewOperation(p)
<1>1. /\ p.reads \in SUBSET Stripes /\ p.writes \in SUBSET Stripes /\ p.commit \in BOOLEAN
      /\ p.reads \cap p.writes = {}
  BY LockAssumption DEF Plan
<1>2. /\ o.pc = "metadata" /\ o.reads = p.reads /\ o.writes = p.writes
      /\ o.commit = p.commit /\ o.held = {} /\ o.announced = FALSE /\ o.faulted = FALSE
  BY Zenon DEF NewOperation, Idle
<1>3. o \in Operation
  BY Zenon, <1>1 DEF NewOperation, Idle, Operation
<1> HIDE DEF o
<1>4. WellFormed(o)
  BY <1>1, <1>2 DEF WellFormed
<1> QED
  BY <1>2, <1>3, <1>4 DEF o

\* An operation that only changes where it is.
LEMMA PcChanged ==
    ASSUME NEW o \in Operation, WellFormed(o),
           NEW pc \in {"metadata", "stripes", "body", "copy", "release", "unlock", "unpin"},
           NEW q, q = [o EXCEPT !.pc = pc]
    PROVE  /\ q \in Operation /\ q.pc = pc /\ q.held = o.held /\ q.writes = o.writes
           /\ q.reads = o.reads /\ q.commit = o.commit /\ q.announced = o.announced
<1> QED
  BY DEF Operation

\* Starting an operation keeps the invariant.
LEMMA CallKeeps ==
    ASSUME IInv, NEW t \in Threads, NEW p \in Plans, Call(t, p)
    PROVE  IInv'
<1> DEFINE o == NewOperation(p)
<1>1. PICK k \in Levels : /\ Shape(t, k) /\ Level(t) = k /\ Op(t) = ops[t][k]
                          /\ Op(t) \in Operation /\ WellFormed(Op(t))
  BY Innermost
<1>2. k = 1 /\ ops[t][k].pc = "idle" /\ Become(t, o) /\ UNCHANGED <<owner, depth, stripe>>
  BY <1>1 DEF Call
<1>3. /\ o \in Operation /\ WellFormed(o) /\ o.pc = "metadata" /\ o.held = {}
      /\ o.announced = FALSE
  BY NewOperationTyped
<1> HIDE DEF o
<1>4. Moved(t, k, o)
  BY <1>1, <1>2, <1>3, BecomeMoves DEF IInv
<1>5. ops[t][k].held = {}
  BY <1>1, <1>2 DEF WellFormed
<1>6. Metadata'
  <2>1. \A u \in Threads, j \in Levels : Inside(ops'[u][j]) <=> Inside(ops[u][j])
    BY <1>2, <1>3, <1>4 DEF Moved, Inside
  <2> QED BY <1>2, <2>1, MetadataKept DEF IInv
<1>7. Nested'
  BY <1>1, <1>2, <1>3, <1>4, NestedKept DEF IInv
<1>8. owner' \in Threads \cup {NoThread}
  BY <1>2 DEF IInv, TypeOK
<1> QED
  BY <1>2, <1>3, <1>4, <1>5, <1>6, <1>7, <1>8, MoveKeeps

\* Both acquisitions of the metadata lock.
LEMMA LockMetadataKeeps ==
    ASSUME IInv, NEW t \in Threads,
           NEW from \in {"metadata", "unpin"}, NEW to \in {"stripes", "unlock"},
           LockMetadata(t, from, to)
    PROVE  IInv'
<1> DEFINE o == [Op(t) EXCEPT !.pc = to]
<1>1. PICK k \in Levels : /\ Shape(t, k) /\ Level(t) = k /\ Op(t) = ops[t][k]
                          /\ Op(t) \in Operation /\ WellFormed(Op(t))
  BY Innermost
<1>2. /\ ops[t][k].pc = from /\ Become(t, o) /\ UNCHANGED stripe
      /\ owner \in {NoThread, t} /\ owner' = t /\ depth' = depth + 1
  BY <1>1 DEF LockMetadata
<1>3. /\ o \in Operation /\ o.pc = to /\ o.held = Op(t).held /\ o.writes = Op(t).writes
      /\ o.reads = Op(t).reads /\ o.announced = Op(t).announced
  BY <1>1, PcChanged
<1> HIDE DEF o
<1>4. Op(t).held = {} /\ ~Op(t).announced
  BY <1>1, <1>2 DEF WellFormed
<1>5. WellFormed(o)
  BY <1>1, <1>3, <1>4 DEF WellFormed
<1>6. Moved(t, k, o)
  BY <1>1, <1>2, <1>3, BecomeMoves DEF IInv
<1>7. Metadata'
  BY <1>2, <1>3, <1>6, MetadataLocked DEF IInv, Inside
<1>8. Nested'
  BY <1>1, <1>3, <1>6, NestedKept DEF IInv
<1> QED
  BY <1>1, <1>2, <1>3, <1>4, <1>5, <1>6, <1>7, <1>8, MoveKeeps

\* The body starts and ends, a commit's under no metadata lock any more, and the
\* last stripe has been released.
LEMMA PassKeeps ==
    ASSUME IInv, NEW t \in Threads, Enter(t) \/ Leave(t) \/ Released(t)
    PROVE  IInv'
<1>1. PICK k \in Levels : /\ Shape(t, k) /\ Level(t) = k /\ Op(t) = ops[t][k]
                          /\ Op(t) \in Operation /\ WellFormed(Op(t))
  BY Innermost
<1>2. PICK pc \in {"body", "copy", "release", "unlock", "unpin"} :
        /\ Become(t, [Op(t) EXCEPT !.pc = pc]) /\ UNCHANGED stripe
        /\ \/ Op(t).pc = "stripes" /\ Missing(t) = {} /\ pc = "body" /\ UNCHANGED <<owner, depth>>
           \/ ~Op(t).commit /\ Op(t).pc = "body" /\ pc = "release" /\ UNCHANGED <<owner, depth>>
           \/ /\ Op(t).commit /\ Op(t).pc = "body" /\ pc = "copy"
              /\ depth' = depth - 1 /\ owner' = OwnerAfterUnlock
           \/ Op(t).pc = "copy" /\ pc = "release" /\ UNCHANGED <<owner, depth>>
           \/ /\ Op(t).pc = "release" /\ Op(t).held = {} /\ UNCHANGED <<owner, depth>>
              /\ pc = IF Op(t).commit THEN "unpin" ELSE "unlock"
  <2>1. CASE Enter(t)
    BY <2>1 DEF Enter
  <2>2. CASE Leave(t)
    BY <2>2 DEF Leave, UnlockMetadata
  <2>3. CASE Released(t)
    BY <2>3 DEF Released
  <2> QED BY <2>1, <2>2, <2>3
<1> DEFINE o == [Op(t) EXCEPT !.pc = pc]
<1>3. /\ o \in Operation /\ o.pc = pc /\ o.held = Op(t).held /\ o.writes = Op(t).writes
      /\ o.reads = Op(t).reads /\ o.commit = Op(t).commit /\ o.announced = Op(t).announced
  BY <1>1, PcChanged
<1>4. Become(t, o)
  BY <1>2
<1> HIDE DEF o
<1>5. Op(t).pc = "stripes" => MissingOf(Op(t)) = {}
  BY <1>2 DEF Missing, MissingOf
<1>6. ~Op(t).announced
  BY <1>1, <1>5 DEF IInv, Queue, WellFormed
<1>7. WellFormed(o)
  BY <1>1, <1>2, <1>3, <1>6 DEF WellFormed
<1>8. Moved(t, k, o)
  BY <1>1, <1>3, <1>4, BecomeMoves DEF IInv
<1>9. Metadata' /\ owner' \in Threads \cup {NoThread}
  <2>1. CASE Op(t).commit /\ Op(t).pc = "body" /\ pc = "copy"
             /\ depth' = depth - 1 /\ owner' = OwnerAfterUnlock
    BY <1>1, <1>3, <1>8, <2>1, MetadataUnlocked DEF IInv, Inside, TypeOK
  <2>2. CASE UNCHANGED <<owner, depth>> /\ (Inside(o) <=> Inside(Op(t)))
    <3>1. \A u \in Threads, j \in Levels : Inside(ops'[u][j]) <=> Inside(ops[u][j])
      BY <1>1, <1>8, <2>2 DEF Moved
    <3>2. Metadata'
      BY <2>2, <3>1, MetadataKept DEF IInv
    <3> QED BY <2>2, <3>2 DEF IInv, TypeOK
  <2>3. Op(t).pc = "copy" => Op(t).commit
    BY <1>1 DEF WellFormed
  <2> QED BY <1>2, <1>3, <2>1, <2>2, <2>3 DEF Inside
<1>10. Nested'
  BY <1>1, <1>3, <1>8, NestedKept DEF IInv
<1> QED
  BY <1>1, <1>2, <1>3, <1>5, <1>6, <1>7, <1>8, <1>9, <1>10, MoveKeeps

\* The operation returns to its caller, or to the body its fault interrupted.
LEMMA ReturnKeeps ==
    ASSUME IInv, NEW t \in Threads, Return(t)
    PROVE  IInv'
<1>1. PICK k \in Levels : /\ Shape(t, k) /\ Level(t) = k /\ Op(t) = ops[t][k]
                          /\ Op(t) \in Operation /\ WellFormed(Op(t))
  BY Innermost
<1>2. /\ Op(t).pc = "unlock" /\ Become(t, Idle) /\ UNCHANGED stripe
      /\ depth' = depth - 1 /\ owner' = OwnerAfterUnlock
  BY DEF Return
<1>3. Idle \in Operation /\ WellFormed(Idle) /\ Idle.pc = "idle" /\ Idle.held = {} /\ ~Idle.announced
  BY DEF Idle, Operation, WellFormed
<1>4. Moved(t, k, Idle)
  BY <1>1, <1>2, <1>3, BecomeMoves DEF IInv
<1>5. Op(t).held = {}
  BY <1>1, <1>2 DEF WellFormed
<1>6. Metadata' /\ owner' \in Threads \cup {NoThread}
  BY <1>1, <1>2, <1>3, <1>4, MetadataUnlocked DEF IInv, Inside, TypeOK
<1>7. Nested'
  <2>1. CASE k = 1
    BY <1>1, <1>3, <1>4, <2>1, NestedKept DEF IInv
  <2>2. CASE k # 1
    <3>1. k - 1 \in Levels
      BY <2>2, LockAssumption DEF Levels
    <3>2. ops'[t][k - 1].pc = "body"
      BY <1>1, <1>4, <3>1 DEF Shape, Moved, Levels
    <3>3. \A j \in Levels : j > k - 1 => ops'[t][j] = Idle
      BY <1>1, <1>4 DEF Shape, Moved, Levels
    <3>4. \A j \in Levels : j < k - 1 => ops'[t][j].pc = "body"
      BY <1>1, <1>4 DEF Shape, Moved, Levels
    <3>5. Shape(t, k - 1)'
      BY <3>2, <3>3, <3>4 DEF Shape
    <3>6. ASSUME NEW u \in Threads, u # t
          PROVE  \E l \in Levels : Shape(u, l)'
      <4>1. PICK l \in Levels : Shape(u, l)
        BY DEF IInv, Nested
      <4>2. Shape(u, l)'
        BY <1>4, <3>6, <4>1 DEF Shape, Moved
      <4> QED BY <4>2
    <3> QED BY <3>1, <3>5, <3>6 DEF Nested
  <2> QED BY <2>1, <2>2
<1> QED
  BY <1>1, <1>2, <1>3, <1>4, <1>5, <1>6, <1>7, MoveKeeps

\* A protection fault interrupts a body.
LEMMA ReenterMoves ==
    ASSUME TypeOK, NEW t \in Threads, NEW k \in Levels, NEW l \in Levels, l # k,
           NEW n \in Operation, ops' = [ops EXCEPT ![t][k].faulted = TRUE, ![t][l] = n]
    PROVE  /\ ops' \in [Threads -> [Levels -> Operation]]
           /\ ops'[t][k] = [ops[t][k] EXCEPT !.faulted = TRUE] /\ ops'[t][l] = n
           /\ \A u \in Threads, j \in Levels : u # t \/ (j # k /\ j # l) => ops'[u][j] = ops[u][j]
<1> DEFINE f == [ops[t][k] EXCEPT !.faulted = TRUE]
           g == [ops EXCEPT ![t][k] = f]
<1>1. ops \in [Threads -> [Levels -> Operation]] /\ ops[t][k] \in Operation
  BY DEF TypeOK
<1>2. f \in Operation
  BY <1>1 DEF Operation
<1>3. ops' = [g EXCEPT ![t][l] = n]
  BY Zenon DEF f, g
<1> HIDE DEF f
<1>4. /\ g \in [Threads -> [Levels -> Operation]] /\ g[t][k] = f
      /\ \A u \in Threads, j \in Levels : u # t \/ j # k => g[u][j] = ops[u][j]
  BY <1>1, <1>2
<1> HIDE DEF g
<1>5. /\ ops' \in [Threads -> [Levels -> Operation]] /\ ops'[t][l] = n
      /\ \A u \in Threads, j \in Levels : u # t \/ j # l => ops'[u][j] = g[u][j]
  <2> DEFINE row == [g[t] EXCEPT ![l] = n]
  <2>1. row \in [Levels -> Operation] /\ row[l] = n /\ \A j \in Levels : j # l => row[j] = g[t][j]
    BY <1>4
  <2>2. ops' = [g EXCEPT ![t] = row]
    BY <1>3
  <2> HIDE DEF row
  <2> QED BY <1>4, <2>1, <2>2
<1> QED
  BY <1>4, <1>5 DEF f

\* Re-entering from a fault keeps the invariant.
LEMMA ReenterKeeps ==
    ASSUME IInv, NEW t \in Threads, NEW p \in FaultPlans, Reenter(t, p)
    PROVE  IInv'
<1> DEFINE n == NewOperation(p)
           f == [Op(t) EXCEPT !.faulted = TRUE]
<1>1. PICK k \in Levels : /\ Shape(t, k) /\ Level(t) = k /\ Op(t) = ops[t][k]
                          /\ Op(t) \in Operation /\ WellFormed(Op(t))
  BY Innermost
<1>2. /\ k < MaxDepth /\ Op(t).pc = "body" /\ UNCHANGED <<owner, depth, stripe>>
      /\ ops' = [ops EXCEPT ![t][k].faulted = TRUE, ![t][k + 1] = n]
  BY <1>1 DEF Reenter
<1>3. k + 1 \in Levels /\ k + 1 # k
  BY <1>2, LockAssumption DEF Levels
<1>4. n \in Operation /\ WellFormed(n) /\ n.pc = "metadata" /\ n.held = {} /\ n.announced = FALSE
  BY NewOperationTyped
<1>5. /\ f \in Operation /\ f.pc = "body" /\ f.held = Op(t).held /\ f.writes = Op(t).writes
      /\ f.reads = Op(t).reads /\ f.commit = Op(t).commit /\ f.announced = Op(t).announced
  BY <1>1, <1>2 DEF Operation
<1> HIDE DEF n
<1>6. /\ ops' \in [Threads -> [Levels -> Operation]] /\ ops'[t][k] = f /\ ops'[t][k + 1] = n
      /\ \A u \in Threads, j \in Levels :
            u # t \/ (j # k /\ j # k + 1) => ops'[u][j] = ops[u][j]
  <2> DEFINE l == k + 1
  <2>1. l \in Levels /\ l # k /\ ops' = [ops EXCEPT ![t][k].faulted = TRUE, ![t][l] = n]
    BY Zenon, <1>2, <1>3
  <2> HIDE DEF l
  <2>2. /\ ops' \in [Threads -> [Levels -> Operation]]
        /\ ops'[t][k] = [ops[t][k] EXCEPT !.faulted = TRUE] /\ ops'[t][l] = n
        /\ \A u \in Threads, j \in Levels : u # t \/ (j # k /\ j # l) => ops'[u][j] = ops[u][j]
    BY Zenon, <1>4, <2>1, ReenterMoves DEF IInv
  <2> QED BY Zenon, <1>1, <2>2 DEF l, f
<1> HIDE DEF f
<1>7. ops[t][k + 1] = Idle /\ ops[t][k + 1].held = {} /\ ops[t][k + 1].pc = "idle"
      /\ ~ops[t][k + 1].announced
  BY <1>1, <1>3 DEF Shape, Levels, Idle
<1>8. Nested'
  <2>1. Shape(t, k + 1)'
    <3>1. \A j \in Levels : j > k + 1 => ops'[t][j] = Idle
      BY <1>1, <1>6 DEF Shape, Levels
    <3>2. \A j \in Levels : j < k + 1 => ops'[t][j].pc = "body"
      BY <1>1, <1>5, <1>6 DEF Shape, Levels
    <3> QED BY <1>4, <1>6, <3>1, <3>2 DEF Shape
  <2>2. ASSUME NEW u \in Threads, u # t
        PROVE  \E l \in Levels : Shape(u, l)'
    <3>1. PICK l \in Levels : Shape(u, l)
      BY DEF IInv, Nested
    <3>2. Shape(u, l)'
      BY <1>6, <2>2, <3>1 DEF Shape
    <3> QED BY <3>2
  <2> QED BY <1>3, <2>1, <2>2 DEF Nested
<1>9. TypeOK'
  BY <1>2, <1>6 DEF IInv, TypeOK
<1>10. OpsWellFormed'
  <2>1. WellFormed(f)
    BY <1>1, <1>2, <1>5 DEF WellFormed
  <2> QED BY <1>4, <1>6, <2>1 DEF IInv, OpsWellFormed
<1>11. Metadata'
  <2>1. \A u \in Threads, j \in Levels : Inside(ops'[u][j]) <=> Inside(ops[u][j])
    BY <1>1, <1>2, <1>4, <1>5, <1>6, <1>7 DEF Inside
  <2> QED BY <1>2, <2>1, MetadataKept DEF IInv
<1>12. StripeExclusion'
  <2>1. \A u \in Threads, j \in Levels :
            /\ ops'[u][j].held = ops[u][j].held
            /\ ops[u][j].held = {} \/ ops'[u][j].writes = ops[u][j].writes
    BY <1>1, <1>4, <1>5, <1>6, <1>7
  <2> QED BY <1>2, <2>1, ExclusionKept DEF IInv
<1>13. Queue'
  <2>1. ~Op(t).announced
    BY <1>1, <1>2 DEF WellFormed
  <2>2. \A u \in Threads, j \in Levels :
           \/ ops'[u][j] = ops[u][j]
           \/ /\ ~ops'[u][j].announced /\ ~ops[u][j].announced
              /\ \A s \in Stripes : WaitsOn(ops[u][j], s) => u \notin stripe'[s].sleepers
    BY <1>1, <1>2, <1>4, <1>5, <1>6, <1>7, <2>1 DEF WaitsOn
  <2> QED BY <1>2, <2>2, QueueKept DEF IInv
<1> QED
  BY <1>8, <1>9, <1>10, <1>11, <1>12, <1>13 DEF IInv

\* The operation that acquires stripes is the only one that sleeps or announces.
LEMMA Acquirer ==
    ASSUME IInv, NEW t \in Threads, NEW k \in Levels, ops[t][k].pc = "stripes"
    PROVE  /\ \A u \in Threads, j \in Levels : ops[u][j].announced => u = t /\ j = k
           /\ \A r \in Stripes :
                 /\ stripe[r].waiting =
                       IF r = LeastOf(ops[t][k]) /\ ops[t][k].announced THEN 1 ELSE 0
                 /\ \A u \in Threads :
                      u \in stripe[r].sleepers => u = t /\ r = LeastOf(ops[t][k])
<1>1. \A u \in Threads, j \in Levels : ops[u][j].pc = "stripes" => u = t /\ j = k
  BY OneAcquires DEF IInv
<1>2. \A u \in Threads, j \in Levels : ops[u][j].announced => u = t /\ j = k
  BY <1>1 DEF IInv, OpsWellFormed, WellFormed
<1>3. \A u \in Threads, r \in Stripes :
         u \in stripe[r].sleepers => u = t /\ r = LeastOf(ops[t][k])
  BY <1>1 DEF IInv, Queue, WaitsOn
<1>4. ASSUME NEW r \in Stripes
      PROVE  stripe[r].waiting = IF r = LeastOf(ops[t][k]) /\ ops[t][k].announced THEN 1 ELSE 0
  <2>1. (\E u \in Threads, j \in Levels : ops[u][j].announced /\ LeastOf(ops[u][j]) = r) <=>
           r = LeastOf(ops[t][k]) /\ ops[t][k].announced
    BY <1>2
  <2> QED BY <2>1 DEF IInv, Queue
<1> QED
  BY <1>2, <1>3, <1>4

\* How it changes the queue.
LEMMA QueueMoved ==
    ASSUME IInv, NEW t \in Threads, NEW k \in Levels, NEW o, Moved(t, k, o),
           ops[t][k].pc = "stripes", NEW s \in Stripes, s = LeastOf(ops[t][k]),
           o.announced => MissingOf(o) # {} /\ LeastOf(o) = s /\ s \in o.writes,
           \A r \in Stripes : stripe'[r].waiting = IF r = s /\ o.announced THEN 1 ELSE 0,
           \A r \in Stripes, u \in Threads :
               u \in stripe'[r].sleepers => u = t /\ WaitsOn(o, r)
    PROVE  Queue'
<1>1. \A u \in Threads, j \in Levels : ops[u][j].announced => u = t /\ j = k
  BY Acquirer
<1>2. \A u \in Threads, j \in Levels : ops'[u][j].announced => u = t /\ j = k
  BY <1>1 DEF Moved
<1>3. ops'[t][k] = o
  BY DEF Moved
<1>4. \A r \in Stripes :
        (\E u \in Threads, j \in Levels : ops'[u][j].announced /\ LeastOf(ops'[u][j]) = r) <=>
           r = s /\ o.announced
  BY <1>2, <1>3
<1>5. \A r \in Stripes, u \in Threads :
        u \in stripe'[r].sleepers => \E j \in Levels : WaitsOn(ops'[u][j], r)
  BY <1>3
<1>6. \A u \in Threads, j \in Levels :
        ops'[u][j].announced => /\ MissingOf(ops'[u][j]) # {}
                                /\ LeastOf(ops'[u][j]) \in ops'[u][j].writes
  BY <1>2, <1>3
<1>7. \A r \in Stripes :
        /\ stripe'[r].waiting \in {0, 1}
        /\ stripe'[r].waiting = 1 <=>
              \E u \in Threads, j \in Levels : ops'[u][j].announced /\ LeastOf(ops'[u][j]) = r
  BY <1>4
<1> QED
  BY <1>5, <1>6, <1>7 DEF Queue

\* Who holds a stripe that a move does not concern.
LEMMA HoldersKept ==
    ASSUME NEW t \in Threads, NEW k \in Levels, NEW o, Moved(t, k, o), NEW r \in Stripes,
           o.writes = ops[t][k].writes, r \in o.held <=> r \in ops[t][k].held
    PROVE  Holders(r)' = Holders(r) /\ WriteHolders(r)' = WriteHolders(r)
<1>1. <<t, k>> \in Holders(r) <=> r \in ops[t][k].held
  BY DEF Holders
<1>2. <<t, k>> \in WriteHolders(r) <=> r \in ops[t][k].held /\ r \in ops[t][k].writes
  BY DEF WriteHolders, Holders
<1>3. /\ Holders(r)' = (Holders(r) \ {<<t, k>>}) \cup (IF r \in o.held THEN {<<t, k>>} ELSE {})
      /\ WriteHolders(r)' = (WriteHolders(r) \ {<<t, k>>})
                              \cup (IF r \in o.held /\ r \in o.writes THEN {<<t, k>>} ELSE {})
  BY HoldersMoved
<1>4. Holders(r)' = Holders(r)
  BY <1>1, <1>3
<1>5. WriteHolders(r)' = WriteHolders(r)
  BY <1>2, <1>3
<1> QED
  BY <1>4, <1>5

\* gem_stripe_read_acquire takes the stripe.
LEMMA ExclusionRead ==
    ASSUME StripeExclusion, NEW t \in Threads, NEW k \in Levels, NEW o, Moved(t, k, o),
           NEW s \in Stripes, s \notin ops[t][k].held, o.held = ops[t][k].held \cup {s},
           o.writes = ops[t][k].writes, s \notin o.writes, ~stripe[s].writer, ~stripe'[s].writer,
           stripe'[s].readers = stripe[s].readers + 1,
           \A r \in Stripes : r # s => stripe'[r] = stripe[r]
    PROVE  StripeExclusion'
<1>1. \A r \in Stripes : r # s => Holders(r)' = Holders(r) /\ WriteHolders(r)' = WriteHolders(r)
  BY HoldersKept
<1>2. <<t, k>> \notin Holders(s)
  BY DEF Holders
<1>3. Holders(s)' = Holders(s) \cup {<<t, k>>} /\ WriteHolders(s) = {} /\ WriteHolders(s)' = {}
  BY <1>2, HoldersMoved DEF StripeExclusion
<1>4. Cardinality(Holders(s) \cup {<<t, k>>}) = Cardinality(Holders(s)) + 1
  BY <1>2, HoldersFinite, FS_AddElement
<1>5. stripe[s].readers = Cardinality(Holders(s))
  <2>1. Holders(s) \ WriteHolders(s) = Holders(s)
    BY <1>3
  <2> QED BY <2>1 DEF StripeExclusion
<1>6. stripe'[s].readers = Cardinality(Holders(s)' \ WriteHolders(s)')
  <2>1. Holders(s)' \ WriteHolders(s)' = Holders(s) \cup {<<t, k>>}
    BY <1>3
  <2> QED BY <1>4, <1>5, <2>1
<1> QED
  BY <1>1, <1>3, <1>6 DEF StripeExclusion

\* gem_stripe_write_acquire takes it.
LEMMA ExclusionWrite ==
    ASSUME StripeExclusion, NEW t \in Threads, NEW k \in Levels, NEW o, Moved(t, k, o),
           NEW s \in Stripes, o.held = ops[t][k].held \cup {s},
           o.writes = ops[t][k].writes, s \in o.writes, ~stripe[s].writer, stripe'[s].writer,
           stripe[s].readers = 0, stripe'[s].readers = 0,
           \A r \in Stripes : r # s => /\ stripe'[r].readers = stripe[r].readers
                                       /\ stripe'[r].writer = stripe[r].writer
    PROVE  StripeExclusion'
<1>1. \A r \in Stripes : r # s => Holders(r)' = Holders(r) /\ WriteHolders(r)' = WriteHolders(r)
  BY HoldersKept
<1>2. Holders(s) = {}
  <2>1. WriteHolders(s) = {}
    BY DEF StripeExclusion
  <2>2. Holders(s) \ WriteHolders(s) = Holders(s)
    BY <2>1
  <2>3. Cardinality(Holders(s)) = 0
    BY <2>2 DEF StripeExclusion
  <2> QED BY <2>3, HoldersFinite, FS_EmptySet
<1>3. Holders(s)' = {<<t, k>>} /\ WriteHolders(s)' = {<<t, k>>}
  BY <1>2, HoldersFinite, HoldersMoved
<1>4. Cardinality(Holders(s)') = 1
  BY <1>3, FS_Singleton
<1>5. Cardinality(Holders(s)' \ WriteHolders(s)') = 0
  <2>1. Holders(s)' \ WriteHolders(s)' = {}
    BY <1>3
  <2> QED BY <2>1, FS_EmptySet
<1> QED
  BY <1>1, <1>3, <1>4, <1>5 DEF StripeExclusion

\* gem_stripe_read_release gives it back.
LEMMA ExclusionReadReleased ==
    ASSUME StripeExclusion, NEW t \in Threads, NEW k \in Levels, NEW o, Moved(t, k, o),
           NEW s \in Stripes, s \in ops[t][k].held, o.held = ops[t][k].held \ {s},
           o.writes = ops[t][k].writes, s \notin o.writes, stripe'[s].writer = stripe[s].writer,
           stripe'[s].readers = stripe[s].readers - 1,
           \A r \in Stripes : r # s => stripe'[r] = stripe[r]
    PROVE  StripeExclusion' /\ stripe[s].readers # 0
<1>1. \A r \in Stripes : r # s => Holders(r)' = Holders(r) /\ WriteHolders(r)' = WriteHolders(r)
  BY HoldersKept
<1>2. <<t, k>> \in Holders(s) /\ <<t, k>> \notin WriteHolders(s)
  BY DEF Holders, WriteHolders
<1>3. IsFiniteSet(Holders(s)) /\ WriteHolders(s) \subseteq Holders(s) /\ Cardinality(Holders(s)) \in Nat
  BY HoldersFinite
<1>4. WriteHolders(s) = {}
  <2> SUFFICES ASSUME WriteHolders(s) # {}
               PROVE  FALSE
    OBVIOUS
  <2>1. Cardinality(Holders(s)) = 1
    BY DEF StripeExclusion
  <2>2. PICK x : Holders(s) = {x}
    BY <1>3, <2>1, FS_Singleton
  <2> QED BY <1>2, <1>3, <2>2
<1>5. Holders(s)' = Holders(s) \ {<<t, k>>} /\ WriteHolders(s)' = {}
  BY <1>4, HoldersMoved
<1>6. Cardinality(Holders(s) \ {<<t, k>>}) = Cardinality(Holders(s)) - 1
  <2> DEFINE S == Holders(s)
             x == <<t, k>>
  <2>1. IsFiniteSet(S) /\ x \in S
    BY <1>2, <1>3
  <2> HIDE DEF S, x
  <2>2. Cardinality(S \ {x}) = Cardinality(S) - 1
    BY <2>1, FS_RemoveElement
  <2> QED BY <2>2 DEF S, x
<1>7. stripe[s].readers = Cardinality(Holders(s))
  <2>1. Holders(s) \ WriteHolders(s) = Holders(s)
    BY <1>4
  <2> QED BY <2>1 DEF StripeExclusion
<1>8. stripe'[s].readers = Cardinality(Holders(s)' \ WriteHolders(s)')
  <2>1. Holders(s)' \ WriteHolders(s)' = Holders(s) \ {<<t, k>>}
    BY <1>5
  <2> QED BY <1>6, <1>7, <2>1
<1>9. ~stripe[s].writer /\ ~stripe'[s].writer
  BY <1>4 DEF StripeExclusion
<1>10. stripe[s].readers # 0
  BY <1>2, <1>3, <1>7, FS_EmptySet
<1> QED
  BY <1>1, <1>5, <1>8, <1>9, <1>10 DEF StripeExclusion

\* gem_stripe_write_release gives it back.
LEMMA ExclusionWriteReleased ==
    ASSUME StripeExclusion, NEW t \in Threads, NEW k \in Levels, NEW o, Moved(t, k, o),
           NEW s \in Stripes, s \in ops[t][k].held, o.held = ops[t][k].held \ {s},
           o.writes = ops[t][k].writes, s \in o.writes, ~stripe'[s].writer,
           stripe'[s].readers = stripe[s].readers,
           \A r \in Stripes : r # s => stripe'[r] = stripe[r]
    PROVE  StripeExclusion'
<1>1. \A r \in Stripes : r # s => Holders(r)' = Holders(r) /\ WriteHolders(r)' = WriteHolders(r)
  BY HoldersKept
<1>2. <<t, k>> \in WriteHolders(s) /\ <<t, k>> \in Holders(s)
  BY DEF Holders, WriteHolders
<1>3. Cardinality(Holders(s)) = 1 /\ stripe[s].readers = 0
  BY <1>2 DEF StripeExclusion
<1>4. PICK x : Holders(s) = {x}
  BY <1>3, HoldersFinite, FS_Singleton
<1>5. Holders(s) = {<<t, k>>} /\ WriteHolders(s) \subseteq {<<t, k>>}
  BY <1>2, <1>4, HoldersFinite
<1>6. Holders(s)' = {} /\ WriteHolders(s)' = {}
  BY <1>5, HoldersMoved
<1>7. Cardinality(Holders(s)' \ WriteHolders(s)') = 0
  <2>1. Holders(s)' \ WriteHolders(s)' = {}
    BY <1>6
  <2> QED BY <2>1, FS_EmptySet
<1> QED
  BY <1>1, <1>3, <1>6, <1>7 DEF StripeExclusion

\* A sleeper wakes up without a broadcast.
LEMMA WakeKeeps ==
    ASSUME IInv, NEW t \in Threads, WakeSpuriously(t)
    PROVE  IInv'
<1>1. UNCHANGED <<owner, depth, ops>>
  BY DEF WakeSpuriously
<1>2. PICK s \in Stripes : stripe' = [stripe EXCEPT ![s].sleepers = @ \ {t}]
  BY DEF WakeSpuriously
<1>3. stripe \in [Stripes -> StripeLock]
  BY DEF IInv, TypeOK, StripeLock
<1>4. stripe' \in [Stripes -> StripeLock]
  BY <1>2, <1>3 DEF StripeLock
<1>5. \A r \in Stripes :
        /\ stripe'[r].readers = stripe[r].readers /\ stripe'[r].writer = stripe[r].writer
        /\ stripe'[r].waiting = stripe[r].waiting /\ stripe'[r].sleepers \subseteq stripe[r].sleepers
  BY <1>2, <1>3 DEF StripeLock
<1>6. TypeOK'
  BY <1>1, <1>4 DEF IInv, TypeOK, StripeLock
<1>7. Nested' /\ OpsWellFormed'
  BY <1>1 DEF IInv, Nested, OpsWellFormed, Shape
<1>8. Metadata'
  BY <1>1, MetadataKept DEF IInv
<1>9. Queue'
  BY <1>1, <1>5, QueueKept DEF IInv
<1>10. StripeExclusion'
  BY <1>1, <1>5, ExclusionKept DEF IInv
<1> QED
  BY <1>6, <1>7, <1>8, <1>9, <1>10 DEF IInv

\* What an operation at a stripe knows.
LEMMA AtStripe ==
    ASSUME IInv, NEW t \in Threads, Op(t).pc = "stripes", Missing(t) # {}
    PROVE  /\ NextStripe(t) \in Stripes /\ NextStripe(t) \notin Op(t).held
           /\ NextStripe(t) = LeastOf(Op(t)) /\ MissingOf(Op(t)) # {}
           /\ NextStripe(t) \in Op(t).reads \cup Op(t).writes
           /\ NextStripe(t) \in Op(t).reads => NextStripe(t) \notin Op(t).writes /\ ~Op(t).announced
<1>1. PICK k \in Levels : /\ Shape(t, k) /\ Level(t) = k /\ Op(t) = ops[t][k]
                          /\ Op(t) \in Operation /\ WellFormed(Op(t))
  BY Innermost
<1>2. Missing(t) = MissingOf(Op(t)) /\ NextStripe(t) = LeastOf(Op(t))
  BY DEF Missing, MissingOf, NextStripe, LeastOf
<1>3. LeastOf(Op(t)) \in MissingOf(Op(t)) /\ LeastOf(Op(t)) \in Stripes
  BY <1>1, <1>2, LeastIsMissing
<1>4. Op(t).reads \cap Op(t).writes = {}
  BY <1>1 DEF WellFormed
<1>5. Op(t).announced => LeastOf(Op(t)) \in Op(t).writes
  BY <1>1 DEF IInv, Queue
<1> QED
  BY <1>2, <1>3, <1>4, <1>5 DEF MissingOf

\* gem_stripe_read_acquire.
LEMMA ReadAcquireKeeps ==
    ASSUME IInv, NEW t \in Threads, ReadAcquire(t)
    PROVE  IInv'
<1> DEFINE s == NextStripe(t)
           o == [Op(t) EXCEPT !.held = @ \cup {s}]
<1>1. PICK k \in Levels : /\ Shape(t, k) /\ Level(t) = k /\ Op(t) = ops[t][k]
                          /\ Op(t) \in Operation /\ WellFormed(Op(t))
  BY Innermost
<1>2. /\ Op(t).pc = "stripes" /\ Missing(t) # {} /\ s \in Op(t).reads /\ Awake(t, s)
      /\ UNCHANGED <<owner, depth>>
      /\ \/ Sleep(t, s) /\ UNCHANGED ops
         \/ /\ ~ReadBlocked(s) /\ stripe' = [stripe EXCEPT ![s].readers = @ + 1] /\ Become(t, o)
  BY DEF ReadAcquire
<1>3. /\ s \in Stripes /\ s \notin Op(t).held /\ s = LeastOf(Op(t)) /\ MissingOf(Op(t)) # {}
      /\ s \notin Op(t).writes /\ ~Op(t).announced
  BY <1>2, AtStripe
<1>4. o \in Operation /\ o.pc = "stripes" /\ o.held = Op(t).held \cup {s}
      /\ o.reads = Op(t).reads /\ o.writes = Op(t).writes /\ o.commit = Op(t).commit
      /\ ~o.announced
  BY <1>1, <1>2, <1>3 DEF Operation
<1>5. \A r \in Stripes :
        /\ stripe[r].waiting = 0
        /\ \A u \in Threads : u \in stripe[r].sleepers => u = t /\ r = s
  BY <1>1, <1>2, <1>3, Acquirer
<1>6. \A r \in Stripes : \A u \in Threads : u \notin stripe[r].sleepers
  BY <1>2, <1>5 DEF Awake
<1> HIDE DEF s, o
<1>7. stripe \in [Stripes -> StripeLock]
  BY DEF IInv, TypeOK, StripeLock
<1>8. CASE Sleep(t, s) /\ UNCHANGED ops
  <2>1. stripe' = [stripe EXCEPT ![s].sleepers = @ \cup {t}]
    BY <1>8 DEF Sleep
  <2>2. stripe' \in [Stripes -> StripeLock]
    BY <1>3, <1>7, <2>1 DEF StripeLock
  <2>3. \A r \in Stripes :
          /\ stripe'[r].readers = stripe[r].readers /\ stripe'[r].writer = stripe[r].writer
          /\ stripe'[r].waiting = stripe[r].waiting
          /\ stripe'[r].sleepers = IF r = s THEN stripe[r].sleepers \cup {t} ELSE stripe[r].sleepers
    BY <1>3, <1>7, <2>1 DEF StripeLock
  <2>4. TypeOK'
    BY <1>2, <1>8, <2>2 DEF IInv, TypeOK, StripeLock
  <2>5. Nested' /\ OpsWellFormed'
    BY <1>8 DEF IInv, Nested, OpsWellFormed, Shape
  <2>6. Metadata'
    BY <1>2, <1>8, MetadataKept DEF IInv
  <2>7. Queue'
    <3>1. WaitsOn(ops[t][k], s)
      BY <1>1, <1>2, <1>3 DEF WaitsOn
    <3>2. \A u \in Threads, r \in Stripes : u \in stripe'[r].sleepers => u = t /\ r = s
      BY <1>6, <2>3
    <3> QED BY <1>8, <2>3, <3>1, <3>2 DEF IInv, Queue
  <2>8. StripeExclusion'
    BY <1>8, <2>3, ExclusionKept DEF IInv
  <2> QED BY <2>4, <2>5, <2>6, <2>7, <2>8 DEF IInv
<1>9. CASE ~ReadBlocked(s) /\ stripe' = [stripe EXCEPT ![s].readers = @ + 1] /\ Become(t, o)
  <2>1. Moved(t, k, o)
    BY <1>1, <1>4, <1>9, BecomeMoves DEF IInv
  <2>2. stripe' \in [Stripes -> StripeLock]
    BY <1>3, <1>7, <1>9 DEF StripeLock
  <2>3. /\ stripe'[s].readers = stripe[s].readers + 1 /\ stripe'[s].writer = stripe[s].writer
        /\ stripe'[s].waiting = stripe[s].waiting /\ stripe'[s].sleepers = stripe[s].sleepers
        /\ \A r \in Stripes : r # s => stripe'[r] = stripe[r]
    BY <1>3, <1>7, <1>9 DEF StripeLock
  <2>4. ~stripe[s].writer
    BY <1>9 DEF ReadBlocked
  <2>5. TypeOK'
    BY <1>2, <2>1, <2>2 DEF IInv, TypeOK, StripeLock, Moved
  <2>6. Nested'
    BY <1>1, <1>4, <2>1, NestedKept DEF IInv
  <2>7. WellFormed(o)
    BY <1>1, <1>2, <1>4 DEF WellFormed
  <2>8. OpsWellFormed'
    BY <2>1, <2>7, WellFormedKept DEF IInv
  <2>9. Metadata'
    <3>1. \A u \in Threads, j \in Levels : Inside(ops'[u][j]) <=> Inside(ops[u][j])
      BY <1>1, <1>2, <1>4, <2>1 DEF Moved, Inside
    <3> QED BY <1>2, <3>1, MetadataKept DEF IInv
  <2>10. Queue'
    <3>1. \A r \in Stripes : /\ stripe'[r].waiting = 0
                             /\ \A u \in Threads : u \notin stripe'[r].sleepers
      BY <1>5, <1>6, <2>3
    <3> QED BY <1>1, <1>2, <1>3, <1>4, <2>1, <3>1, QueueMoved
  <2>11. StripeExclusion'
    BY <1>1, <1>3, <1>4, <2>1, <2>3, <2>4, ExclusionRead DEF IInv
  <2> QED BY <2>5, <2>6, <2>8, <2>9, <2>10, <2>11 DEF IInv
<1> QED
  BY <1>2, <1>8, <1>9

\* gem_stripe_write_acquire.
LEMMA WriteAcquireKeeps ==
    ASSUME IInv, NEW t \in Threads, WriteAcquire(t)
    PROVE  IInv'
<1> DEFINE s == NextStripe(t)
           w == stripe[s].waiting + Announce(t)
           v == stripe[s].waiting + Announce(t) - 1
           a == [Op(t) EXCEPT !.announced = TRUE]
           o == [Op(t) EXCEPT !.held = @ \cup {s}, !.announced = FALSE]
<1>1. PICK k \in Levels : /\ Shape(t, k) /\ Level(t) = k /\ Op(t) = ops[t][k]
                          /\ Op(t) \in Operation /\ WellFormed(Op(t))
  BY Innermost
<1>2. /\ Op(t).pc = "stripes" /\ Missing(t) # {} /\ s \in Op(t).writes /\ Awake(t, s)
      /\ UNCHANGED <<owner, depth>>
      /\ \/ /\ stripe' = [stripe EXCEPT ![s].waiting = w, ![s].sleepers = @ \cup {t}]
            /\ Become(t, a)
         \/ /\ ~WriteBlocked(s) /\ Become(t, o)
            /\ stripe' = [stripe EXCEPT ![s].waiting = v, ![s].writer = TRUE]
  <2>1. /\ Op(t).pc = "stripes" /\ Missing(t) # {} /\ s \in Op(t).writes /\ Awake(t, s)
        /\ UNCHANGED <<owner, depth>>
    BY DEF WriteAcquire
  <2>2. CASE WriteBlocked(s)
    <3>1. /\ stripe' = [stripe EXCEPT ![s].waiting = w, ![s].sleepers = @ \cup {t}]
          /\ Become(t, a)
      BY Zenon, <2>2 DEF WriteAcquire
    <3> QED BY Zenon, <2>1, <3>1
  <2>3. CASE ~WriteBlocked(s)
    <3>1. /\ stripe' = [stripe EXCEPT ![s].waiting = v, ![s].writer = TRUE]
          /\ Become(t, o)
      BY Zenon, <2>3 DEF WriteAcquire
    <3> QED BY Zenon, <2>1, <2>3, <3>1
  <2> QED BY Zenon, <2>2, <2>3
<1>3. /\ s \in Stripes /\ s \notin Op(t).held /\ s = LeastOf(Op(t)) /\ MissingOf(Op(t)) # {}
  BY <1>2, AtStripe
<1>4. /\ a \in Operation /\ a.pc = "stripes" /\ a.held = Op(t).held /\ a.reads = Op(t).reads
      /\ a.writes = Op(t).writes /\ a.commit = Op(t).commit /\ a.announced
  BY <1>1, <1>2 DEF Operation
<1>5. /\ o \in Operation /\ o.pc = "stripes" /\ o.held = Op(t).held \cup {s}
      /\ o.reads = Op(t).reads /\ o.writes = Op(t).writes /\ o.commit = Op(t).commit
      /\ ~o.announced
  <2>1. Op(t).held \cup {s} \in SUBSET Stripes
    BY <1>1, <1>3 DEF Operation
  <2> QED BY Zenon, <1>1, <1>2, <2>1 DEF Operation
<1>6. \A r \in Stripes :
        /\ stripe[r].waiting = IF r = s /\ Op(t).announced THEN 1 ELSE 0
        /\ \A u \in Threads : u \in stripe[r].sleepers => u = t /\ r = s
  BY <1>1, <1>2, <1>3, Acquirer
<1>7. \A r \in Stripes : \A u \in Threads : u \notin stripe[r].sleepers
  BY <1>2, <1>6 DEF Awake
<1>8. w = 1 /\ v = 0
  BY <1>3, <1>6 DEF Announce
<1> HIDE DEF s, w, v, a, o
<1>9. stripe \in [Stripes -> StripeLock]
  BY DEF IInv, TypeOK, StripeLock
<1>10. CASE /\ stripe' = [stripe EXCEPT ![s].waiting = w, ![s].sleepers = @ \cup {t}]
            /\ Become(t, a)
  <2>1. Moved(t, k, a)
    BY <1>1, <1>4, <1>10, BecomeMoves DEF IInv
  <2>2. w \in Nat /\ stripe[s].sleepers \cup {t} \in SUBSET Threads
    BY <1>3, <1>8, <1>9 DEF StripeLock
  <2>3. /\ stripe' \in [Stripes -> StripeLock]
        /\ stripe'[s].waiting = w /\ stripe'[s].sleepers = stripe[s].sleepers \cup {t}
        /\ stripe'[s].readers = stripe[s].readers /\ stripe'[s].writer = stripe[s].writer
        /\ \A r \in Stripes : r # s => stripe'[r] = stripe[r]
    BY Zenon, <1>3, <1>9, <1>10, <2>2 DEF StripeLock
  <2>4. TypeOK'
    BY <1>2, <2>1, <2>3 DEF IInv, TypeOK, StripeLock, Moved
  <2>5. Nested'
    BY <1>1, <1>4, <2>1, NestedKept DEF IInv
  <2>6. WellFormed(a)
    BY <1>1, <1>2, <1>4 DEF WellFormed
  <2>7. OpsWellFormed'
    BY <2>1, <2>6, WellFormedKept DEF IInv
  <2>8. Metadata'
    <3>1. \A u \in Threads, j \in Levels : Inside(ops'[u][j]) <=> Inside(ops[u][j])
      BY <1>1, <1>2, <1>4, <2>1 DEF Moved, Inside
    <3> QED BY <1>2, <3>1, MetadataKept DEF IInv
  <2>9. Queue'
    <3>1. MissingOf(a) = MissingOf(Op(t)) /\ LeastOf(a) = LeastOf(Op(t))
      BY <1>4 DEF MissingOf, LeastOf
    <3>2. WaitsOn(a, s)
      BY <1>3, <1>4, <3>1 DEF WaitsOn
    <3>3. \A r \in Stripes : stripe'[r].waiting = IF r = s /\ a.announced THEN 1 ELSE 0
      BY <1>4, <1>6, <1>8, <2>3
    <3>4. \A r \in Stripes, u \in Threads :
            u \in stripe'[r].sleepers => u = t /\ WaitsOn(a, r)
      BY <1>7, <2>3, <3>2
    <3>5. s = LeastOf(ops[t][k]) /\ ops[t][k].pc = "stripes"
      BY <1>1, <1>2, <1>3
    <3>6. MissingOf(a) # {} /\ LeastOf(a) = s /\ s \in a.writes
      BY <1>2, <1>3, <1>4, <3>1
    <3> QED BY <1>3, <2>1, <3>3, <3>4, <3>5, <3>6, QueueMoved
  <2>10. StripeExclusion'
    <3>1. \A u \in Threads, j \in Levels :
              /\ ops'[u][j].held = ops[u][j].held
              /\ ops[u][j].held = {} \/ ops'[u][j].writes = ops[u][j].writes
      BY <1>1, <1>4, <2>1 DEF Moved
    <3>2. \A r \in Stripes : /\ stripe'[r].readers = stripe[r].readers
                             /\ stripe'[r].writer = stripe[r].writer
      BY <2>3
    <3> QED BY <3>1, <3>2, ExclusionKept DEF IInv
  <2> QED BY <2>4, <2>5, <2>7, <2>8, <2>9, <2>10 DEF IInv
<1>11. CASE /\ ~WriteBlocked(s) /\ Become(t, o)
            /\ stripe' = [stripe EXCEPT ![s].waiting = v, ![s].writer = TRUE]
  <2>1. Moved(t, k, o)
    BY <1>1, <1>5, <1>11, BecomeMoves DEF IInv
  <2>2. 0 \in Nat
    OBVIOUS
  <2>3. stripe' = [stripe EXCEPT ![s].waiting = 0, ![s].writer = TRUE]
    BY Zenon, <1>8, <1>11
  <2>4. /\ stripe' \in [Stripes -> StripeLock]
        /\ stripe'[s].waiting = 0 /\ stripe'[s].sleepers = stripe[s].sleepers
        /\ stripe'[s].readers = stripe[s].readers /\ stripe'[s].writer = TRUE
        /\ \A r \in Stripes : r # s => stripe'[r] = stripe[r]
    BY Zenon, <1>3, <1>9, <2>2, <2>3 DEF StripeLock
  <2>5. TypeOK'
    BY <1>2, <2>1, <2>4 DEF IInv, TypeOK, StripeLock, Moved
  <2>6. Nested'
    BY <1>1, <1>5, <2>1, NestedKept DEF IInv
  <2>7. WellFormed(o)
    BY <1>1, <1>2, <1>5 DEF WellFormed
  <2>8. OpsWellFormed'
    BY <2>1, <2>7, WellFormedKept DEF IInv
  <2>9. Metadata'
    <3>1. \A u \in Threads, j \in Levels : Inside(ops'[u][j]) <=> Inside(ops[u][j])
      BY <1>1, <1>2, <1>5, <2>1 DEF Moved, Inside
    <3> QED BY <1>2, <3>1, MetadataKept DEF IInv
  <2>10. Queue'
    <3>1. \A r \in Stripes : /\ stripe'[r].waiting = 0
                             /\ \A u \in Threads : u \notin stripe'[r].sleepers
      BY <1>6, <1>7, <2>4
    <3> QED BY <1>1, <1>2, <1>3, <1>5, <2>1, <3>1, QueueMoved
  <2>11. StripeExclusion'
    <3>1. ~stripe[s].writer /\ stripe[s].readers = 0
      BY <1>11 DEF WriteBlocked
    <3> QED BY <1>1, <1>2, <1>3, <1>5, <2>1, <2>4, <3>1, ExclusionWrite DEF IInv
  <2> QED BY <2>5, <2>6, <2>8, <2>9, <2>10, <2>11 DEF IInv
<1> QED
  BY <1>2, <1>10, <1>11

\* gem_stripe_read_release and gem_stripe_write_release.
LEMMA ReleaseKeeps ==
    ASSUME IInv, NEW t \in Threads, ReleaseStripe(t)
    PROVE  IInv'
<1>1. PICK k \in Levels : /\ Shape(t, k) /\ Level(t) = k /\ Op(t) = ops[t][k]
                          /\ Op(t) \in Operation /\ WellFormed(Op(t))
  BY Innermost
<1>2. PICK s \in Op(t).held :
        /\ IF s \in Op(t).writes THEN WriteRelease(s) ELSE ReadRelease(s)
        /\ Become(t, [Op(t) EXCEPT !.held = @ \ {s}])
  BY DEF ReleaseStripe
<1>3. Op(t).pc = "release" /\ UNCHANGED <<owner, depth>>
  BY DEF ReleaseStripe
<1> DEFINE o == [Op(t) EXCEPT !.held = @ \ {s}]
<1>4. s \in Stripes
  BY <1>1 DEF Operation
<1>5. /\ o \in Operation /\ o.pc = "release" /\ o.held = Op(t).held \ {s}
      /\ o.reads = Op(t).reads /\ o.writes = Op(t).writes /\ o.commit = Op(t).commit
      /\ o.announced = Op(t).announced
  BY <1>1, <1>3 DEF Operation
<1>6. Become(t, o)
  BY <1>2
<1> HIDE DEF o
<1>7. Moved(t, k, o)
  BY <1>1, <1>5, <1>6, BecomeMoves DEF IInv
<1>8. ~Op(t).announced
  BY <1>1, <1>3 DEF WellFormed
<1>9. stripe \in [Stripes -> StripeLock]
  BY DEF IInv, TypeOK, StripeLock
<1>10. Nested'
  BY <1>1, <1>5, <1>7, NestedKept DEF IInv
<1>11. WellFormed(o)
  BY <1>1, <1>3, <1>5 DEF WellFormed
<1>12. OpsWellFormed'
  BY <1>7, <1>11, WellFormedKept DEF IInv
<1>13. Metadata'
  <2>1. \A u \in Threads, j \in Levels : Inside(ops'[u][j]) <=> Inside(ops[u][j])
    BY <1>1, <1>3, <1>5, <1>7 DEF Moved, Inside
  <2> QED BY <1>3, <2>1, MetadataKept DEF IInv
<1>14. /\ stripe' \in [Stripes -> StripeLock] /\ StripeExclusion'
       /\ \A r \in Stripes : /\ stripe'[r].waiting = stripe[r].waiting
                              /\ stripe'[r].sleepers \subseteq stripe[r].sleepers
  <2>1. CASE s \in Op(t).writes
    <3>1. stripe' = [stripe EXCEPT ![s].writer = FALSE, ![s].sleepers = {}]
      BY <1>2, <2>1 DEF WriteRelease
    <3>2. /\ stripe' \in [Stripes -> StripeLock]
          /\ stripe'[s].waiting = stripe[s].waiting /\ stripe'[s].sleepers = {}
          /\ stripe'[s].readers = stripe[s].readers /\ stripe'[s].writer = FALSE
          /\ \A r \in Stripes : r # s => stripe'[r] = stripe[r]
      BY Zenon, <1>4, <1>9, <3>1 DEF StripeLock
    <3>3. StripeExclusion'
      BY <1>1, <1>4, <1>5, <1>7, <2>1, <3>2, ExclusionWriteReleased DEF IInv
    <3> QED BY <3>2, <3>3
  <2>2. CASE s \notin Op(t).writes
    <3> DEFINE n == stripe[s].readers - 1
               z == IF stripe[s].readers = 1 THEN {} ELSE stripe[s].sleepers
    <3>1. stripe' = [stripe EXCEPT ![s].readers = n, ![s].sleepers = z]
      BY <1>2, <2>2 DEF ReadRelease
    <3>2. z \in SUBSET Threads /\ z \subseteq stripe[s].sleepers
      BY <1>4, <1>9 DEF StripeLock
    <3> HIDE DEF n, z
    <3>3. /\ stripe'[s].waiting = stripe[s].waiting /\ stripe'[s].sleepers = z
          /\ stripe'[s].readers = n /\ stripe'[s].writer = stripe[s].writer
          /\ \A r \in Stripes : r # s => stripe'[r] = stripe[r]
      BY Zenon, <1>4, <1>9, <3>1 DEF StripeLock
    <3>4. StripeExclusion' /\ stripe[s].readers # 0
      BY <1>1, <1>4, <1>5, <1>7, <2>2, <3>3, ExclusionReadReleased DEF IInv, n
    <3>5. n \in Nat
      BY <1>4, <1>9, <3>4 DEF n, StripeLock
    <3>6. stripe' \in [Stripes -> StripeLock]
      BY Zenon, <1>4, <1>9, <3>1, <3>2, <3>5 DEF StripeLock
    <3> QED BY <3>2, <3>3, <3>4, <3>6
  <2> QED BY <2>1, <2>2
<1>15. TypeOK'
  BY <1>3, <1>7, <1>14 DEF IInv, TypeOK, StripeLock, Moved
<1>16. Queue'
  <2>1. \A u \in Threads, j \in Levels :
           \/ ops'[u][j] = ops[u][j]
           \/ /\ ~ops'[u][j].announced /\ ~ops[u][j].announced
              /\ \A r \in Stripes : WaitsOn(ops[u][j], r) => u \notin stripe'[r].sleepers
    BY <1>1, <1>3, <1>5, <1>7, <1>8 DEF Moved, WaitsOn
  <2> QED BY <1>14, <2>1, QueueKept DEF IInv
<1> QED
  BY <1>10, <1>12, <1>13, <1>14, <1>15, <1>16 DEF IInv

-----------------------------------------------------------------------------
(* The theorems.                                                            *)

\* The invariant holds before any operation.
LEMMA IInvInitially == Init => IInv
<1> SUFFICES ASSUME Init
             PROVE  IInv
  OBVIOUS
<1> DEFINE free == [readers |-> 0, waiting |-> 0, writer |-> FALSE, sleepers |-> {}]
<1>1. \A t \in Threads, k \in Levels : ops[t][k] = Idle
  BY DEF Init
<1>2. /\ Idle \in Operation /\ WellFormed(Idle) /\ Idle.pc = "idle" /\ Idle.held = {}
      /\ ~Idle.announced /\ ~Inside(Idle)
  BY DEF Idle, Operation, WellFormed, Inside
<1>3. TypeOK
  <2>1. free \in StripeLock
    BY DEF StripeLock
  <2>2. stripe \in [Stripes -> StripeLock]
    BY <2>1 DEF Init
  <2> QED BY <1>2, <2>2 DEF Init, TypeOK, StripeLock
<1>4. Nested
  <2>1. 1 \in Levels /\ \A j \in Levels : ~(j < 1)
    BY LockAssumption DEF Levels
  <2> QED BY <1>1, <2>1 DEF Nested, Shape
<1>5. OpsWellFormed
  BY <1>1, <1>2 DEF OpsWellFormed
<1>6. Metadata
  <2>1. InsideOps = {}
    BY <1>1, <1>2 DEF InsideOps
  <2>2. Cardinality(InsideOps) = 0
    BY <2>1, FS_EmptySet
  <2> QED BY <1>1, <1>2, <2>2 DEF Init, Metadata
<1>7. \A s \in Stripes : /\ stripe[s].readers = 0 /\ stripe[s].waiting = 0 /\ ~stripe[s].writer
                         /\ stripe[s].sleepers = {}
  BY DEF Init
<1>8. Queue
  BY <1>1, <1>2, <1>7 DEF Queue
<1>9. StripeExclusion
  <2>1. ASSUME NEW s \in Stripes
        PROVE  Holders(s) = {} /\ WriteHolders(s) = {}
    BY <1>1, <1>2 DEF Holders, WriteHolders
  <2>2. \A s \in Stripes : Cardinality(Holders(s) \ WriteHolders(s)) = 0
    BY <2>1, FS_EmptySet
  <2> QED BY <1>7, <2>1, <2>2 DEF StripeExclusion
<1> QED
  BY <1>3, <1>4, <1>5, <1>6, <1>8, <1>9 DEF IInv

\* Every step keeps the invariant.
LEMMA IInvInductive == IInv /\ [Next]_vars => IInv'
<1> SUFFICES ASSUME IInv, [Next]_vars
             PROVE  IInv'
  OBVIOUS
<1>1. ASSUME NEW t \in Threads, Step(t)
      PROVE  IInv'
  <2>1. CASE LockMetadata(t, "metadata", "stripes") \/ LockMetadata(t, "unpin", "unlock")
    BY <2>1, LockMetadataKeeps
  <2>2. CASE ReadAcquire(t)
    BY <2>2, ReadAcquireKeeps
  <2>3. CASE WriteAcquire(t)
    BY <2>3, WriteAcquireKeeps
  <2>4. CASE Enter(t) \/ Leave(t) \/ Released(t)
    BY <2>4, PassKeeps
  <2>5. CASE ReleaseStripe(t)
    BY <2>5, ReleaseKeeps
  <2>6. CASE Return(t)
    BY <2>6, ReturnKeeps
  <2> QED BY <1>1, <2>1, <2>2, <2>3, <2>4, <2>5, <2>6 DEF Step
<1>2. ASSUME NEW t \in Threads, WakeSpuriously(t)
      PROVE  IInv'
  BY <1>2, WakeKeeps
<1>3. ASSUME NEW t \in Threads, NEW p \in Plans, Call(t, p)
      PROVE  IInv'
  BY <1>3, CallKeeps
<1>4. ASSUME NEW t \in Threads, NEW p \in FaultPlans, Reenter(t, p)
      PROVE  IInv'
  BY <1>4, ReenterKeeps
<1>5. CASE UNCHANGED vars
  <2> USE <1>5 DEF vars
  <2>1. TypeOK' /\ Nested' /\ OpsWellFormed'
    BY DEF IInv, TypeOK, Nested, OpsWellFormed, Shape
  <2>2. Metadata'
    BY MetadataKept DEF IInv
  <2>3. Queue'
    BY QueueKept DEF IInv
  <2>4. StripeExclusion'
    BY ExclusionKept DEF IInv
  <2> QED BY <2>1, <2>2, <2>3, <2>4 DEF IInv
<1> QED
  BY <1>1, <1>2, <1>3, <1>4, <1>5 DEF Next

\* The invariant holds in every reachable state.
LEMMA Inductive == Spec => []IInv
<1> QED
  BY IInvInitially, IInvInductive, PTL DEF Spec

\* TypeOK: in particular no counter of a stripe and no depth of the metadata
\* lock ever goes below zero.
THEOREM TypeCorrect == Spec => []TypeOK
<1>1. IInv => TypeOK
  BY DEF IInv
<1> QED
  BY <1>1, Inductive, PTL

\* StripeExclusion: through every interleaving of the acquire loops, the releases
\* and the fault handlers' operations, a stripe's writer is alone and its readers
\* counter is the number of operations that hold it.
THEOREM StripesExclude == Spec => []StripeExclusion
<1>1. IInv => StripeExclusion
  BY DEF IInv
<1> QED
  BY <1>1, Inductive, PTL

\* WaitersHoldMetadata: whoever sleeps on a stripe, or has announced itself as its
\* writer, owns the metadata lock.
THEOREM WaitersOwnMetadata == Spec => []WaitersHoldMetadata
<1>1. IInv => WaitersHoldMetadata
  <2> SUFFICES ASSUME IInv, NEW t \in Threads, NEW s \in Stripes,
                      t \in stripe[s].sleepers \/ Op(t).announced
               PROVE  owner = t
    BY DEF WaitersHoldMetadata
  <2>1. PICK k \in Levels : /\ Shape(t, k) /\ Level(t) = k /\ Op(t) = ops[t][k]
                            /\ Op(t) \in Operation /\ WellFormed(Op(t))
    BY Innermost
  <2>2. \E j \in Levels : ops[t][j].pc = "stripes"
    BY <2>1 DEF IInv, Queue, WaitsOn, WellFormed
  <2> QED BY <2>2 DEF IInv, Metadata, Inside
<1> QED
  BY <1>1, Inductive, PTL

\* An operation asks for no stripe that an operation it interrupted holds.
Apart ==
    \A t \in Threads : \A j, k \in Levels :
        j < k => (ops[t][k].reads \cup ops[t][k].writes) \cap ops[t][j].held = {}

\* What an operation holds grows only while it is the innermost one.
LEMMA ApartMoved ==
    ASSUME Apart, NEW t \in Threads, NEW k \in Levels, NEW o, Shape(t, k), Moved(t, k, o),
           \/ o.reads = ops[t][k].reads /\ o.writes = ops[t][k].writes
           \/ o.reads = {} /\ o.writes = {}
           \/ k = 1
    PROVE  Apart'
<1> SUFFICES ASSUME NEW u \in Threads, NEW i \in Levels, NEW j \in Levels, i < j
             PROVE  (ops'[u][j].reads \cup ops'[u][j].writes) \cap ops'[u][i].held = {}
  BY DEF Apart
<1>1. CASE u # t \/ (i # k /\ j # k)
  BY <1>1 DEF Apart, Moved
<1>2. CASE u = t /\ j = k
  <2>1. k # 1 /\ i # k
    BY <1>2, LockAssumption DEF Levels
  <2> QED BY <1>2, <2>1 DEF Apart, Moved
<1>3. CASE u = t /\ i = k
  <2>1. ops[t][j] = Idle /\ j # k
    BY <1>3, LockAssumption DEF Shape, Levels
  <2>2. ops'[t][j].reads = {} /\ ops'[t][j].writes = {}
    BY <2>1 DEF Moved, Idle
  <2> QED BY <1>3, <2>2
<1> QED
  BY <1>1, <1>2, <1>3

\* Every step keeps the stripes of the levels of a thread apart.
LEMMA ApartInductive == ~OwnPages /\ IInv /\ Apart /\ [Next]_vars => Apart'
<1> SUFFICES ASSUME ~OwnPages, IInv, Apart, [Next]_vars
             PROVE  Apart'
  OBVIOUS
<1>1. ASSUME NEW t \in Threads, NEW o \in Operation, Become(t, o),
             \/ o.reads = Op(t).reads /\ o.writes = Op(t).writes
             \/ o.reads = {} /\ o.writes = {}
             \/ Level(t) = 1
      PROVE  Apart'
  <2>1. PICK k \in Levels : Shape(t, k) /\ Level(t) = k /\ Op(t) = ops[t][k]
    BY Innermost
  <2>2. Moved(t, k, o)
    BY <1>1, <2>1, BecomeMoves DEF IInv
  <2> QED BY <1>1, <2>1, <2>2, ApartMoved
<1>2. ASSUME NEW t \in Threads,
             NEW pc \in {"stripes", "body", "copy", "release", "unlock", "unpin"},
             Become(t, [Op(t) EXCEPT !.pc = pc])
      PROVE  Apart'
  <2> DEFINE o == [Op(t) EXCEPT !.pc = pc]
  <2>1. o \in Operation /\ o.reads = Op(t).reads /\ o.writes = Op(t).writes
    BY Innermost DEF Operation
  <2>2. Become(t, o)
    BY <1>2
  <2> HIDE DEF o
  <2> QED BY <1>1, <2>1, <2>2
<1>3. CASE UNCHANGED ops
  BY <1>3 DEF Apart
<1>4. ASSUME NEW t \in Threads,
             \/ LockMetadata(t, "metadata", "stripes") \/ LockMetadata(t, "unpin", "unlock")
             \/ Enter(t) \/ Leave(t) \/ Released(t)
      PROVE  Apart'
  BY <1>2, <1>4 DEF LockMetadata, Enter, Leave, UnlockMetadata, Released
<1>5. ASSUME NEW t \in Threads, ReadAcquire(t) \/ WriteAcquire(t)
      PROVE  Apart'
  <2> DEFINE s == NextStripe(t)
             r == [Op(t) EXCEPT !.held = @ \cup {s}]
             a == [Op(t) EXCEPT !.announced = TRUE]
             w == [Op(t) EXCEPT !.held = @ \cup {s}, !.announced = FALSE]
  <2>1. Op(t) \in Operation /\ s \in Stripes
    BY <1>5, Innermost, AtStripe DEF ReadAcquire, WriteAcquire
  <2>2. /\ r \in Operation /\ r.reads = Op(t).reads /\ r.writes = Op(t).writes
        /\ a \in Operation /\ a.reads = Op(t).reads /\ a.writes = Op(t).writes
    BY <2>1 DEF Operation
  <2>3. w \in Operation /\ w.reads = Op(t).reads /\ w.writes = Op(t).writes
    <3>1. Op(t).held \cup {s} \in SUBSET Stripes
      BY <2>1 DEF Operation
    <3> QED BY Zenon, <2>1, <3>1 DEF Operation
  <2>4. UNCHANGED ops \/ Become(t, r) \/ Become(t, a) \/ Become(t, w)
    BY Zenon, <1>5 DEF ReadAcquire, WriteAcquire
  <2> HIDE DEF s, r, a, w
  <2> QED BY <1>1, <1>3, <2>2, <2>3, <2>4
<1>6. ASSUME NEW t \in Threads, ReleaseStripe(t)
      PROVE  Apart'
  <2>1. PICK s \in Op(t).held : Become(t, [Op(t) EXCEPT !.held = @ \ {s}])
    BY <1>6 DEF ReleaseStripe
  <2> DEFINE o == [Op(t) EXCEPT !.held = @ \ {s}]
  <2>2. o \in Operation /\ o.reads = Op(t).reads /\ o.writes = Op(t).writes
    BY Innermost DEF Operation
  <2>3. Become(t, o)
    BY <2>1
  <2> HIDE DEF o
  <2> QED BY <1>1, <2>2, <2>3
<1>7. ASSUME NEW t \in Threads, Return(t)
      PROVE  Apart'
  <2>1. Idle \in Operation /\ Idle.reads = {} /\ Idle.writes = {}
    BY DEF Idle, Operation
  <2> QED BY <1>1, <1>7, <2>1 DEF Return
<1>8. ASSUME NEW t \in Threads, NEW p \in Plans, Call(t, p)
      PROVE  Apart'
  <2>1. NewOperation(p) \in Operation
    BY NewOperationTyped
  <2> QED BY <1>1, <1>8, <2>1 DEF Call
<1>9. ASSUME NEW t \in Threads, NEW p \in FaultPlans, Reenter(t, p)
      PROVE  Apart'
  <2> DEFINE n == NewOperation(p)
  <2>1. PICK k \in Levels : Shape(t, k) /\ Level(t) = k /\ Op(t) = ops[t][k]
    BY Innermost
  <2>2. /\ k < MaxDepth /\ ops' = [ops EXCEPT ![t][k].faulted = TRUE, ![t][k + 1] = n]
        /\ \A j \in Levels : (p.reads \cup p.writes) \cap ops[t][j].held = {}
    BY <1>9, <2>1 DEF Reenter
  <2>3. n \in Operation /\ n.reads = p.reads /\ n.writes = p.writes /\ n.held = {}
    BY NewOperationTyped
  <2> HIDE DEF n
  <2>4. k + 1 \in Levels /\ k + 1 # k
    BY <2>2, LockAssumption DEF Levels
  <2>5. /\ ops'[t][k] = [ops[t][k] EXCEPT !.faulted = TRUE] /\ ops'[t][k + 1] = n
        /\ \A u \in Threads, j \in Levels :
              u # t \/ (j # k /\ j # k + 1) => ops'[u][j] = ops[u][j]
    <3> DEFINE l == k + 1
    <3>1. l \in Levels /\ l # k /\ ops' = [ops EXCEPT ![t][k].faulted = TRUE, ![t][l] = n]
      BY Zenon, <2>2, <2>4
    <3> HIDE DEF l
    <3>2. /\ ops'[t][k] = [ops[t][k] EXCEPT !.faulted = TRUE] /\ ops'[t][l] = n
          /\ \A u \in Threads, j \in Levels : u # t \/ (j # k /\ j # l) => ops'[u][j] = ops[u][j]
      BY Zenon, <2>3, <3>1, ReenterMoves DEF IInv
    <3> QED BY Zenon, <3>2 DEF l
  <2>6. /\ ops'[t][k].reads = ops[t][k].reads /\ ops'[t][k].writes = ops[t][k].writes
        /\ ops'[t][k].held = ops[t][k].held
    <3>1. ops[t][k] \in Operation
      BY DEF IInv, TypeOK
    <3> QED BY <2>5, <3>1 DEF Operation
  <2>7. \A j \in Levels : j # k + 1 => /\ ops'[t][j].reads = ops[t][j].reads
                                       /\ ops'[t][j].writes = ops[t][j].writes
                                       /\ ops'[t][j].held = ops[t][j].held
    BY <2>5, <2>6
  <2> SUFFICES ASSUME NEW u \in Threads, NEW i \in Levels, NEW j \in Levels, i < j
               PROVE  (ops'[u][j].reads \cup ops'[u][j].writes) \cap ops'[u][i].held = {}
    BY DEF Apart
  <2>8. CASE u # t
    BY <2>5, <2>8 DEF Apart
  <2>9. CASE u = t /\ i = k + 1
    BY <2>3, <2>5, <2>9
  <2>10. CASE u = t /\ j = k + 1
    <3>1. i # k + 1
      BY <2>10, LockAssumption DEF Levels
    <3>2. ops'[u][j] = n /\ ops'[u][i].held = ops[t][i].held
      BY <2>5, <2>7, <2>10, <3>1
    <3>3. (p.reads \cup p.writes) \cap ops[t][i].held = {}
      BY <2>2
    <3> QED BY <2>3, <3>2, <3>3
  <2>11. CASE u = t /\ i # k + 1 /\ j # k + 1
    BY <2>7, <2>11 DEF Apart
  <2> QED BY <2>8, <2>9, <2>10, <2>11
<1>10. ASSUME NEW t \in Threads, WakeSpuriously(t)
       PROVE  Apart'
  BY <1>3, <1>10 DEF WakeSpuriously
<1>11. CASE UNCHANGED vars
  BY <1>3, <1>11 DEF vars
<1> QED
  BY <1>4, <1>5, <1>6, <1>7, <1>8, <1>9, <1>10, <1>11 DEF Next, Step

\* NoSelfWait: as long as no fault handler asks for a page its own thread has
\* locked, no thread sleeps on a stripe that one of its operations holds.
THEOREM NoThreadWaitsForItself ==
    ASSUME ~OwnPages
    PROVE  Spec => []NoSelfWait
<1>1. Init => Apart
  <2>1. Init => \A t \in Threads, k \in Levels : ops[t][k].held = {}
    BY DEF Init, Idle
  <2> QED BY <2>1 DEF Apart
<1>2. IInv /\ Apart /\ [Next]_vars => Apart'
  BY ApartInductive
<1>3. IInv /\ Apart => NoSelfWait
  <2> SUFFICES ASSUME IInv, Apart, NEW t \in Threads, NEW s \in Stripes, NEW k \in Levels,
                      t \in stripe[s].sleepers, s \in ops[t][k].held
               PROVE  FALSE
    BY DEF NoSelfWait
  <2>1. PICK l \in Levels : WaitsOn(ops[t][l], s)
    BY DEF IInv, Queue
  <2>2. ops[t][l].pc = "stripes" /\ s \in MissingOf(ops[t][l])
    BY <2>1, LeastIsMissing DEF WaitsOn, IInv, TypeOK
  <2>3. PICK m \in Levels : Shape(t, m)
    BY DEF IInv, Nested
  <2>4. l = m
    BY <2>2, <2>3, LockAssumption DEF Shape, Idle, Levels
  <2>5. CASE k > l
    BY <2>3, <2>4, <2>5 DEF Shape, Idle
  <2>6. CASE k = l
    BY <2>2, <2>6 DEF MissingOf
  <2>7. CASE k < l
    BY <2>2, <2>7 DEF Apart, MissingOf
  <2> QED BY <2>5, <2>6, <2>7, LockAssumption DEF Levels
<1> QED
  BY <1>1, <1>2, <1>3, Inductive, PTL DEF Spec
=============================================================================
