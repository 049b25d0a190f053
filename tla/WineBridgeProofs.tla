-------------------------- MODULE WineBridgeProofs --------------------------
(***************************************************************************)
(* Proofs about the two halves of the Wine bridge: WineLifecycle, for any  *)
(* number of host and guest threads and any depth of nested bridge calls,  *)
(* and WineRun, for any budgets, number of callbacks and depth of nested   *)
(* runs.  The halves share no variable; runVars, RunInit, RunNext and      *)
(* RunSpec are those of WineRun.                                           *)
(***************************************************************************)
EXTENDS WineLifecycle, WineRun, FiniteSetTheorems, SequenceTheorems, TLAPS

\* A run_lock; that its depth never goes below zero is part of Counted.
Lock == [owner : Host \cup {NoHost}, depth : Int]

\* The types the proofs need.
Typed ==
    /\ arm \in BOOLEAN /\ x64 \in BOOLEAN /\ i386 \in BOOLEAN
    /\ threads \subseteq Thread
    /\ status \in [Thread -> {"NONE", "CREATING", "LIVE", "FREED"}]
    /\ kind \in [Thread -> {"ARM", "I386"}] /\ broker \in [Thread -> BOOLEAN]
    /\ threadsLock \in Host \cup {NoHost} /\ runtimeLock \in [Thread -> Host \cup {NoHost}]
    /\ runLock \in [Thread -> Lock]
    /\ calls \in [Host -> Seq(CallRecord)]

\* How far a call of each operation can be and what it is about.
WellFormed(c) ==
    /\ c.op \in {"RUN", "CREATE", "DESTROY"} =>
          c.todo = {} /\ \E t \in Thread : c.thread = {t}
    /\ c.op \in {"PREPARE", "INVALIDATE"} => c.thread = {}
    /\ c.op = "RUN" => c.at \in {"LOOP", "SEGMENT", "CALLBACK"}
    /\ c.op = "CREATE" => c.at = "PUBLISH"
    /\ c.op = "DESTROY" => c.at = "FREE"
    /\ c.op = "PREPARE" => c.at \in {"STORE", "LOCK", "WALK"}
    /\ c.op = "INVALIDATE" => c.at \in {"LOCK", "WALK"}
    /\ c.at # "WALK" => c.todo = {}

\* Every call but the innermost one of a host waits in a boundary callback.
CallShapes ==
    \A h \in Host : \A i \in 1 .. Len(calls[h]) :
        /\ WellFormed(calls[h][i])
        /\ i < Len(calls[h]) => calls[h][i].op = "RUN" /\ calls[h][i].at = "CALLBACK"

\* threads_lock is held by the host that walks the list, a runtime_lock by the
\* host in a segment of that thread.
LockOwners ==
    \A h \in Host :
        /\ threadsLock = h <=> calls[h] # <<>> /\ Top(h).at = "WALK"
        /\ \A t \in Thread :
              runtimeLock[t] = h <=> At(h, "RUN", "SEGMENT") /\ Top(h).thread = {t}

\* Whether h is creating or freeing t.
Owns(h, t) == calls[h] # <<>> /\ Top(h).op \in {"CREATE", "DESTROY"} /\ Top(h).thread = {t}

\* Which state the storage of a thread is in, for those who hold it.
Storage ==
    /\ \A t \in threads : status[t] = "LIVE"
    /\ \A h \in Host, t \in Thread :
          /\ Owns(h, t) /\ Top(h).op = "CREATE" => status[t] = "CREATING"
          /\ Owns(h, t) /\ Top(h).op = "DESTROY" => status[t] = "LIVE" /\ t \notin threads
          /\ \A g \in Host : Owns(h, t) /\ Owns(g, t) => g = h
    /\ \A h \in Host : calls[h] # <<>> => Top(h).todo \subseteq threads

\* One routing, to which threads and calls in flight conform.
Conforming ==
    /\ ~(arm /\ x64) /\ ~(arm /\ i386) /\ ~(x64 /\ i386)
    /\ \A t \in threads : (kind[t] = "I386") = i386
    /\ \A h \in Host : calls[h] # <<>> /\ Top(h).op = "PREPARE" => ~x64 /\ ~i386
    /\ \A h \in Host, t \in Thread :
          Owns(h, t) /\ Top(h).op = "CREATE" => (kind[t] = "I386") = i386

\* h is a preparation that will still put the broker into t.
WillReach(h, t) ==
    /\ calls[h] # <<>> /\ Top(h).op = "PREPARE"
    /\ Top(h).at = "LOCK" \/ (Top(h).at = "WALK" /\ t \in Top(h).todo)

\* A thread of an ARM64X process has the broker, or a preparation that has not
\* walked past it yet is under way.
Covered == arm => \A t \in threads : broker[t] \/ \E h \in Host : WillReach(h, t)

\* The inductive invariant.
IInv == Typed /\ CallShapes /\ LockOwners /\ Storage /\ Conforming /\ Covered

-----------------------------------------------------------------------------
(* What the three changes of a host's calls do.                             *)

\* The calls of another host are left alone.
Others(h) == \A g \in Host : g # h => calls'[g] = calls[g]

\* A nested call goes on top.
LEMMA PushView ==
    ASSUME Typed, NEW h \in Host, NEW call \in CallRecord, Push(h, call)
    PROVE  /\ calls' \in [Host -> Seq(CallRecord)] /\ Others(h)
           /\ Len(calls[h]) \in Nat /\ Len(calls'[h]) = Len(calls[h]) + 1 /\ calls'[h] # <<>>
           /\ \A i \in 1 .. Len(calls[h]) : calls'[h][i] = calls[h][i]
           /\ calls'[h][Len(calls[h]) + 1] = call
<1>1. calls[h] \in Seq(CallRecord) /\ calls'[h] = Append(calls[h], call)
  BY DEF Typed, Push
<1>2. /\ Append(calls[h], call) \in Seq(CallRecord) /\ Append(calls[h], call) # <<>>
      /\ Len(Append(calls[h], call)) = Len(calls[h]) + 1
      /\ \A i \in 1 .. Len(calls[h]) : Append(calls[h], call)[i] = calls[h][i]
      /\ Append(calls[h], call)[Len(calls[h]) + 1] = call
  BY <1>1, AppendProperties
<1>3. calls' \in [Host -> Seq(CallRecord)] /\ Others(h)
  BY <1>2 DEF Typed, Push, Others
<1> QED
  BY <1>1, <1>2, <1>3

\* The innermost call returns.
LEMMA PopView ==
    ASSUME Typed, NEW h \in Host, calls[h] # <<>>, Pop(h)
    PROVE  /\ calls' \in [Host -> Seq(CallRecord)] /\ Others(h)
           /\ Len(calls[h]) \in Nat \ {0} /\ Len(calls'[h]) = Len(calls[h]) - 1
           /\ \A i \in 1 .. Len(calls[h]) - 1 : calls'[h][i] = calls[h][i]
           /\ calls'[h] # <<>> <=> Len(calls[h]) > 1
<1> DEFINE s == calls[h]
           p == SubSeq(s, 1, Len(s) - 1)
<1>1. s \in Seq(CallRecord) /\ Len(s) \in Nat \ {0}
  BY EmptySeq DEF Typed
<1>2. \A i \in 1 .. Len(s) - 1 : s[i] \in CallRecord
  BY <1>1, ElementOfSeq
<1> HIDE DEF s
<1>3. p \in Seq(CallRecord) /\ \A i \in 1 .. Len(s) - 1 : p[i] = s[i]
  <2> DEFINE n == Len(s) - 1
  <2>1. n \in Int /\ \A i \in 1 .. n : s[i] \in CallRecord
    BY <1>1, <1>2
  <2> HIDE DEF n
  <2>2. /\ SubSeq(s, 1, n) \in Seq(CallRecord)
        /\ \A i \in 1 .. n - 1 + 1 : SubSeq(s, 1, n)[i] = s[1 + i - 1]
    BY <2>1, SubSeqProperties
  <2>3. \A i \in 1 .. n : SubSeq(s, 1, n)[i] = s[i]
    BY <2>1, <2>2
  <2> QED BY <2>2, <2>3 DEF n
<1>4. Len(p) = Len(s) - 1
  <2> DEFINE n == Len(s) - 1
  <2>1. n \in Nat /\ \A i \in 1 .. n : s[i] \in CallRecord
    BY <1>1, <1>2
  <2> HIDE DEF n
  <2>2. Len(SubSeq(s, 1, n)) = IF 1 <= n THEN n - 1 + 1 ELSE 0
    BY <2>1, SubSeqProperties
  <2>3. Len(SubSeq(s, 1, n)) = n
    BY <2>1, <2>2
  <2> QED BY <2>3 DEF n
<1>5. calls'[h] = p /\ calls' \in [Host -> Seq(CallRecord)] /\ Others(h)
  BY <1>3 DEF Typed, Pop, Others, s
<1> HIDE DEF p
<1>6. p # <<>> <=> Len(s) > 1
  BY <1>1, <1>3, <1>4, EmptySeq
<1> QED
  BY <1>1, <1>3, <1>4, <1>5, <1>6 DEF s

\* The innermost call goes on.
LEMMA UpdateView ==
    ASSUME Typed, NEW h \in Host, calls[h] # <<>>, NEW call \in CallRecord, Update(h, call)
    PROVE  /\ calls' \in [Host -> Seq(CallRecord)] /\ Others(h)
           /\ Len(calls[h]) \in Nat \ {0} /\ Len(calls'[h]) = Len(calls[h]) /\ calls'[h] # <<>>
           /\ \A i \in 1 .. Len(calls[h]) - 1 : calls'[h][i] = calls[h][i]
           /\ calls'[h][Len(calls[h])] = call
<1> DEFINE s == calls[h]
           u == [s EXCEPT ![Len(s)] = call]
<1>1. s \in Seq(CallRecord) /\ Len(s) \in Nat \ {0}
  BY EmptySeq DEF Typed
<1>2. calls' = [calls EXCEPT ![h] = u]
  BY DEF Update
<1> HIDE DEF s
<1>3. /\ u \in Seq(CallRecord) /\ Len(u) = Len(s)
      /\ \A j \in 1 .. Len(s) : u[j] = IF j = Len(s) THEN call ELSE s[j]
  BY <1>1, ExceptSeq
<1> HIDE DEF u
<1>4. u # <<>>
  BY <1>1, <1>3, EmptySeq
<1>5. calls'[h] = u /\ calls' \in [Host -> Seq(CallRecord)] /\ Others(h)
  BY <1>2, <1>3 DEF Typed, Others
<1> QED
  BY <1>1, <1>3, <1>4, <1>5 DEF s

\* The innermost call of a host is a well-formed call.
LEMMA TopTyped ==
    ASSUME Typed, CallShapes, NEW h \in Host, calls[h] # <<>>
    PROVE  Top(h) \in CallRecord /\ WellFormed(Top(h)) /\ Len(calls[h]) \in Nat \ {0}
<1>1. calls[h] \in Seq(CallRecord) /\ Len(calls[h]) \in Nat \ {0}
  BY EmptySeq DEF Typed
<1>2. calls[h][Len(calls[h])] \in CallRecord
  BY <1>1, ElementOfSeq
<1> QED
  BY <1>1, <1>2 DEF CallShapes, Top

\* The rest of the hosts see no change.
OthersSame(h) == \A g \in Host : g # h => calls'[g] = calls[g] /\ Top(g)' = Top(g)

\* A well-formed call is put on top of a callback.
LEMMA PushTop ==
    ASSUME Typed, CallShapes, NEW h \in Host, MayCall(h),
           NEW call \in CallRecord, WellFormed(call), Push(h, call)
    PROVE  /\ calls' \in [Host -> Seq(CallRecord)] /\ CallShapes' /\ OthersSame(h)
           /\ calls'[h] # <<>> /\ Top(h)' = call
           /\ calls[h] # <<>> => Top(h).op = "RUN" /\ Top(h).at = "CALLBACK" /\ Top(h).todo = {}
<1>1. /\ calls' \in [Host -> Seq(CallRecord)] /\ Others(h)
      /\ Len(calls[h]) \in Nat /\ Len(calls'[h]) = Len(calls[h]) + 1 /\ calls'[h] # <<>>
      /\ \A i \in 1 .. Len(calls[h]) : calls'[h][i] = calls[h][i]
      /\ calls'[h][Len(calls[h]) + 1] = call
  BY PushView
<1>2. calls[h] # <<>> => Top(h).op = "RUN" /\ Top(h).at = "CALLBACK" /\ Top(h).todo = {}
  BY TopTyped DEF MayCall, At, WellFormed
<1>3. Len(calls[h]) # 0 => calls[h] # <<>>
  BY EmptySeq
<1>4. ASSUME NEW i \in 1 .. Len(calls'[h])
      PROVE  /\ WellFormed(calls'[h][i])
             /\ i < Len(calls'[h]) => calls'[h][i].op = "RUN" /\ calls'[h][i].at = "CALLBACK"
  <2>1. CASE i = Len(calls[h]) + 1
    BY <1>1, <2>1
  <2>2. CASE i \in 1 .. Len(calls[h])
    <3>1. WellFormed(calls[h][i]) /\ calls'[h][i] = calls[h][i]
      BY <1>1, <2>2 DEF CallShapes
    <3>2. calls[h][i].op = "RUN" /\ calls[h][i].at = "CALLBACK"
      <4>1. CASE i < Len(calls[h])
        BY <2>2, <4>1 DEF CallShapes
      <4>2. CASE i = Len(calls[h])
        BY <1>1, <1>2, <1>3, <2>2, <4>2 DEF Top
      <4> QED BY <1>1, <2>2, <4>1, <4>2
    <3> QED BY <3>1, <3>2
  <2> QED BY <1>1, <2>1, <2>2
<1>5. CallShapes'
  BY <1>1, <1>4 DEF CallShapes, Others
<1>6. OthersSame(h)
  BY <1>1 DEF OthersSame, Others, Top
<1> QED
  BY <1>1, <1>2, <1>5, <1>6 DEF Top

\* The innermost call changes into a well-formed one.
LEMMA UpdateTop ==
    ASSUME Typed, CallShapes, NEW h \in Host, calls[h] # <<>>,
           NEW call \in CallRecord, WellFormed(call), Update(h, call)
    PROVE  /\ calls' \in [Host -> Seq(CallRecord)] /\ CallShapes' /\ OthersSame(h)
           /\ calls'[h] # <<>> /\ Top(h)' = call
<1>1. /\ calls' \in [Host -> Seq(CallRecord)] /\ Others(h)
      /\ Len(calls[h]) \in Nat \ {0} /\ Len(calls'[h]) = Len(calls[h]) /\ calls'[h] # <<>>
      /\ \A i \in 1 .. Len(calls[h]) - 1 : calls'[h][i] = calls[h][i]
      /\ calls'[h][Len(calls[h])] = call
  BY UpdateView
<1>2. ASSUME NEW i \in 1 .. Len(calls'[h])
      PROVE  /\ WellFormed(calls'[h][i])
             /\ i < Len(calls'[h]) => calls'[h][i].op = "RUN" /\ calls'[h][i].at = "CALLBACK"
  <2>1. CASE i = Len(calls[h])
    BY <1>1, <2>1
  <2>2. CASE i \in 1 .. Len(calls[h]) - 1
    BY <1>1, <2>2 DEF CallShapes
  <2> QED BY <1>1, <2>1, <2>2
<1>3. CallShapes'
  BY <1>1, <1>2 DEF CallShapes, Others
<1>4. OthersSame(h)
  BY <1>1 DEF OthersSame, Others, Top
<1> QED
  BY <1>1, <1>3, <1>4 DEF Top

\* The innermost call returns into the callback it was made from.
LEMMA PopTop ==
    ASSUME Typed, CallShapes, NEW h \in Host, calls[h] # <<>>, Pop(h)
    PROVE  /\ calls' \in [Host -> Seq(CallRecord)] /\ CallShapes' /\ OthersSame(h)
           /\ calls'[h] # <<>> =>
                 Top(h)'.op = "RUN" /\ Top(h)'.at = "CALLBACK" /\ Top(h)'.todo = {}
<1>1. /\ calls' \in [Host -> Seq(CallRecord)] /\ Others(h)
      /\ Len(calls[h]) \in Nat \ {0} /\ Len(calls'[h]) = Len(calls[h]) - 1
      /\ \A i \in 1 .. Len(calls[h]) - 1 : calls'[h][i] = calls[h][i]
      /\ calls'[h] # <<>> <=> Len(calls[h]) > 1
  BY PopView
<1>2. ASSUME NEW i \in 1 .. Len(calls'[h])
      PROVE  /\ WellFormed(calls'[h][i])
             /\ calls'[h][i].op = "RUN" /\ calls'[h][i].at = "CALLBACK"
  BY <1>1 DEF CallShapes
<1>3. CallShapes'
  BY <1>1, <1>2 DEF CallShapes, Others
<1>4. OthersSame(h)
  BY <1>1 DEF OthersSame, Others, Top
<1>5. ASSUME calls'[h] # <<>>
      PROVE  Top(h)'.op = "RUN" /\ Top(h)'.at = "CALLBACK" /\ Top(h)'.todo = {}
  <2>1. Len(calls'[h]) \in 1 .. Len(calls'[h])
    BY <1>1, <1>5
  <2>2. Top(h)' = calls'[h][Len(calls'[h])]
    BY DEF Top
  <2> QED BY <1>2, <2>1, <2>2 DEF WellFormed
<1> QED
  BY <1>1, <1>3, <1>4, <1>5

\* Locks stay with their owners when h is in no critical section before or after.
LEMMA LockOwnersKept ==
    ASSUME LockOwners, NEW h \in Host, OthersSame(h), UNCHANGED <<threadsLock, runtimeLock>>,
           calls[h] # <<>> => Top(h).at \notin {"WALK", "SEGMENT"},
           calls'[h] # <<>> => Top(h)'.at \notin {"WALK", "SEGMENT"}
    PROVE  LockOwners'
<1> SUFFICES ASSUME NEW g \in Host
             PROVE  /\ threadsLock' = g <=> calls'[g] # <<>> /\ Top(g)'.at = "WALK"
                    /\ \A t \in Thread :
                          runtimeLock'[t] = g <=> At(g, "RUN", "SEGMENT")' /\ Top(g)'.thread = {t}
  BY DEF LockOwners
<1>1. CASE g = h
  BY <1>1 DEF LockOwners, At
<1>2. CASE g # h
  BY <1>2 DEF LockOwners, At, OthersSame
<1> QED
  BY <1>1, <1>2

\* Storage is undisturbed by a call of h that creates and frees nothing.
LEMMA StorageKept ==
    ASSUME Storage, NEW h \in Host, OthersSame(h), UNCHANGED <<threads, status>>,
           calls'[h] # <<>> => /\ Top(h)'.op \notin {"CREATE", "DESTROY"}
                               /\ Top(h)'.todo \subseteq threads
    PROVE  Storage'
<1>1. \A g \in Host, t \in Thread : Owns(g, t)' => g # h /\ Owns(g, t) /\ Top(g)' = Top(g)
  BY DEF Owns, OthersSame
<1>2. \A g \in Host : calls'[g] # <<>> => Top(g)'.todo \subseteq threads
  BY DEF OthersSame, Storage
<1> QED
  BY <1>1, <1>2 DEF Storage

\* The routing stays one when h starts no creation and prepares only what may be
\* prepared.
LEMMA RoutedKept ==
    ASSUME Conforming, NEW h \in Host, OthersSame(h), UNCHANGED <<arm, x64, i386, threads, kind>>,
           calls'[h] # <<>> => /\ Top(h)'.op # "CREATE"
                               /\ Top(h)'.op = "PREPARE" => ~x64 /\ ~i386
    PROVE  Conforming'
<1>1. \A g \in Host, t \in Thread :
         Owns(g, t)' /\ Top(g)'.op = "CREATE" => g # h /\ Owns(g, t) /\ Top(g)' = Top(g)
  BY DEF Owns, OthersSame
<1>2. \A g \in Host : calls'[g] # <<>> /\ Top(g)'.op = "PREPARE" => ~x64 /\ ~i386
  BY DEF OthersSame, Conforming
<1> QED
  BY <1>1, <1>2 DEF Conforming

\* Brokers stay on their way when h walks past no thread.
LEMMA CoveredKept ==
    ASSUME Covered, NEW h \in Host, OthersSame(h), UNCHANGED <<arm, broker>>,
           threads' \subseteq threads,
           \A t \in threads : WillReach(h, t) => WillReach(h, t)'
    PROVE  Covered'
<1> SUFFICES ASSUME arm', NEW t \in threads', ~broker'[t]
             PROVE  \E g \in Host : WillReach(g, t)'
  BY DEF Covered
<1>1. PICK g \in Host : WillReach(g, t)
  BY DEF Covered
<1>2. WillReach(g, t)'
  BY <1>1 DEF WillReach, OthersSame
<1> QED
  BY <1>2

-----------------------------------------------------------------------------
(* The inductive invariant, action by action.                               *)

\* gem_wine_process_prepare_x86_64, gem_wine_process_prepare_i386, a deferred
\* registration and the next process leave the calls alone.
LEMMA ProcessKeeps ==
    ASSUME IInv, NEW h \in Host,
           PrepareX86_64(h) \/ PrepareI386(h) \/ RegisterDeferred(h) \/ Recreate
    PROVE  IInv'
<1>1. calls' = calls /\ threadsLock' = threadsLock /\ runtimeLock' = runtimeLock
      /\ threads' = threads
  BY DEF PrepareX86_64, PrepareI386, RegisterDeferred, Recreate, objects
<1>2. Typed'
  BY DEF IInv, Typed, PrepareX86_64, PrepareI386, RegisterDeferred, Recreate, objects
<1>3. CallShapes' /\ LockOwners'
  BY <1>1 DEF IInv, CallShapes, LockOwners, Top, At
<1>4. CASE PrepareX86_64(h) \/ PrepareI386(h) \/ Recreate
  <2>1. \A g \in Host : calls'[g] = <<>>
    BY <1>1, <1>4 DEF PrepareX86_64, PrepareI386, Recreate, Quiet
  <2>2. Storage'
    BY <1>1, <1>4, <2>1 DEF IInv, Storage, Owns, PrepareX86_64, PrepareI386, Recreate, objects
  <2>3. Conforming'
    BY <1>4, <2>1 DEF IInv, Typed, Conforming, Owns, PrepareX86_64, PrepareI386, Recreate, objects,
                  I386MayPrepare
  <2>4. Covered'
    BY <1>4, <2>1 DEF IInv, Covered, WillReach, PrepareX86_64, PrepareI386, Recreate, objects,
                  I386MayPrepare
  <2> QED BY <1>2, <1>3, <2>2, <2>3, <2>4 DEF IInv
<1>5. CASE RegisterDeferred(h)
  <2>1. Storage' /\ Conforming' /\ Covered'
    BY <1>1, <1>5 DEF IInv, Storage, Conforming, Covered, Owns, WillReach, Top, RegisterDeferred,
                      objects
  <2> QED BY <1>2, <1>3, <2>1 DEF IInv
<1> QED
  BY <1>4, <1>5

\* gem_wine_process_prepare_arm64ec tests the flags.
LEMMA PrepareKeeps ==
    ASSUME IInv, NEW h \in Host, NEW register \in BOOLEAN, Prepare(h, register)
    PROVE  IInv'
<1> DEFINE call == NewCall("PREPARE", {}, "STORE")
<1>1. call \in CallRecord /\ WellFormed(call)
  BY DEF NewCall, CallRecord, Operations, WellFormed
<1>2. call.op = "PREPARE" /\ call.at = "STORE" /\ call.todo = {}
  BY DEF NewCall
<1> HIDE DEF call
<1>3. /\ calls' \in [Host -> Seq(CallRecord)] /\ CallShapes' /\ OthersSame(h)
      /\ calls'[h] # <<>> /\ Top(h)' = call
      /\ calls[h] # <<>> => Top(h).op = "RUN" /\ Top(h).at = "CALLBACK" /\ Top(h).todo = {}
  BY <1>1, PushTop DEF Prepare, IInv, call
<1>4. ~x64 /\ ~i386 /\ UNCHANGED <<arm, x64, i386, objects, threadsLock, runtimeLock, runLock>>
  BY DEF Prepare
<1>5. Typed'
  BY <1>3, <1>4 DEF IInv, Typed, objects
<1>6. LockOwners'
  BY <1>2, <1>3, <1>4 DEF IInv, LockOwners, At, OthersSame
<1>7. Storage'
  BY <1>2, <1>3, <1>4 DEF IInv, Storage, Owns, OthersSame, objects
<1>8. Conforming'
  BY <1>2, <1>3, <1>4 DEF IInv, Conforming, Owns, OthersSame, objects
<1>9. Covered'
  BY <1>2, <1>3, <1>4 DEF IInv, Covered, WillReach, OthersSame, objects
<1> QED
  BY <1>3, <1>5, <1>6, <1>7, <1>8, <1>9 DEF IInv

\* It sets arm64x_routing_enabled.
LEMMA PrepareStoreKeeps ==
    ASSUME IInv, NEW h \in Host, PrepareStore(h)
    PROVE  IInv'
<1> DEFINE call == [Top(h) EXCEPT !.at = "LOCK"]
<1>1. calls[h] # <<>> /\ Top(h).op = "PREPARE" /\ Top(h).at = "STORE"
  BY DEF PrepareStore, At
<1>2. Top(h) \in CallRecord /\ WellFormed(Top(h))
  BY <1>1, TopTyped DEF IInv
<1>3. call \in CallRecord /\ WellFormed(call) /\ call.op = "PREPARE" /\ call.at = "LOCK"
      /\ call.todo = {}
  BY <1>1, <1>2 DEF CallRecord, WellFormed
<1> HIDE DEF call
<1>4. /\ calls' \in [Host -> Seq(CallRecord)] /\ CallShapes' /\ OthersSame(h)
      /\ calls'[h] # <<>> /\ Top(h)' = call
  BY <1>1, <1>3, UpdateTop DEF PrepareStore, IInv, call
<1>5. arm' = TRUE /\ UNCHANGED <<x64, i386, objects, threadsLock, runtimeLock, runLock>>
  BY DEF PrepareStore
<1>6. Typed'
  BY <1>4, <1>5 DEF IInv, Typed, objects
<1>7. LockOwners'
  BY <1>1, <1>3, <1>4, <1>5 DEF IInv, LockOwners, At, OthersSame
<1>8. Storage'
  BY <1>1, <1>3, <1>4, <1>5 DEF IInv, Storage, Owns, OthersSame, objects
<1>9. Conforming'
  BY <1>1, <1>3, <1>4, <1>5 DEF IInv, Conforming, Owns, OthersSame, objects
<1>10. Covered'
  BY <1>3, <1>4 DEF Covered, WillReach
<1> QED
  BY <1>4, <1>6, <1>7, <1>8, <1>9, <1>10 DEF IInv

\* gem_wine_process_invalidate_code.
LEMMA InvalidateKeeps ==
    ASSUME IInv, NEW h \in Host, Invalidate(h)
    PROVE  IInv'
<1> DEFINE call == NewCall("INVALIDATE", {}, "LOCK")
<1>1. call \in CallRecord /\ WellFormed(call)
  BY DEF NewCall, CallRecord, Operations, WellFormed
<1>2. call.op = "INVALIDATE" /\ call.at = "LOCK" /\ call.todo = {}
  BY DEF NewCall
<1> HIDE DEF call
<1>3. /\ calls' \in [Host -> Seq(CallRecord)] /\ CallShapes' /\ OthersSame(h)
      /\ calls'[h] # <<>> /\ Top(h)' = call
      /\ calls[h] # <<>> => Top(h).op = "RUN" /\ Top(h).at = "CALLBACK" /\ Top(h).todo = {}
  BY <1>1, PushTop DEF Invalidate, IInv, call
<1>4. UNCHANGED <<process, objects, threadsLock, runtimeLock, runLock>>
  BY DEF Invalidate
<1>5. Typed'
  BY <1>3, <1>4 DEF IInv, Typed, objects, process
<1>6. LockOwners'
  BY <1>2, <1>3, <1>4, LockOwnersKept DEF IInv
<1>7. Storage'
  BY <1>2, <1>3, <1>4, StorageKept DEF IInv, objects
<1>8. Conforming'
  BY <1>2, <1>3, <1>4, RoutedKept DEF IInv, objects, process
<1>9. Covered'
  BY <1>2, <1>3, <1>4, CoveredKept DEF IInv, WillReach, objects, process
<1> QED
  BY <1>3, <1>5, <1>6, <1>7, <1>8, <1>9 DEF IInv

\* A walk takes threads_lock.
LEMMA WalkStartKeeps ==
    ASSUME IInv, NEW h \in Host, WalkStart(h)
    PROVE  IInv'
<1> DEFINE call == [Top(h) EXCEPT !.at = "WALK", !.todo = threads]
<1>1. calls[h] # <<>> /\ Top(h).at = "LOCK" /\ threadsLock = NoHost
  BY DEF WalkStart
<1>2. Top(h) \in CallRecord /\ WellFormed(Top(h)) /\ threads \in SUBSET Thread
  BY <1>1, TopTyped DEF IInv, Typed
<1>3. /\ call \in CallRecord /\ call.op = Top(h).op /\ call.at = "WALK"
      /\ call.todo = threads /\ call.thread = Top(h).thread
  BY Zenon, <1>2 DEF CallRecord
<1>4. Top(h).op \in {"PREPARE", "INVALIDATE"}
  BY <1>1, <1>2 DEF WellFormed, CallRecord, Operations
<1> HIDE DEF call
<1>5. WellFormed(call)
  BY <1>2, <1>3, <1>4 DEF WellFormed
<1>6. /\ calls' \in [Host -> Seq(CallRecord)] /\ CallShapes' /\ OthersSame(h)
      /\ calls'[h] # <<>> /\ Top(h)' = call
  BY <1>1, <1>3, <1>5, UpdateTop DEF WalkStart, IInv, call
<1>7. threadsLock' = h /\ UNCHANGED <<process, objects, runtimeLock, runLock>>
  BY DEF WalkStart
<1>8. Typed'
  BY <1>6, <1>7 DEF IInv, Typed, objects, process
<1>9. LockOwners'
  BY <1>1, <1>3, <1>4, <1>6, <1>7, LifecycleAssumption DEF IInv, LockOwners, At, OthersSame
<1>10. Storage'
  BY <1>1, <1>3, <1>4, <1>6, <1>7 DEF IInv, Storage, Owns, OthersSame, objects
<1>11. Conforming'
  BY <1>1, <1>3, <1>4, <1>6, <1>7 DEF IInv, Conforming, Owns, OthersSame, objects, process
<1>12. Covered'
  <2> SUFFICES ASSUME arm', NEW t \in threads', ~broker'[t]
               PROVE  \E g \in Host : WillReach(g, t)'
    BY DEF Covered
  <2>1. arm /\ t \in threads /\ ~broker[t]
    BY <1>7 DEF objects, process
  <2>2. PICK g \in Host : WillReach(g, t)
    BY <2>1 DEF IInv, Covered
  <2>3. WillReach(g, t)'
    BY <1>1, <1>3, <1>6, <2>1, <2>2 DEF WillReach, OthersSame
  <2> QED BY <2>3
<1> QED
  BY <1>6, <1>8, <1>9, <1>10, <1>11, <1>12 DEF IInv

\* A walk visits a thread: in an ARM64X process none is an i386 thread, so a
\* preparation never ends early.
LEMMA WalkThreadKeeps ==
    ASSUME IInv, NEW h \in Host, NEW t \in Thread, WalkThread(h, t)
    PROVE  IInv'
<1> DEFINE call == [Top(h) EXCEPT !.todo = IF Top(h).op = "PREPARE" /\ kind[t] = "I386"
                                           THEN {} ELSE @ \ {t}]
<1>1. calls[h] # <<>> /\ Top(h).at = "WALK" /\ t \in Top(h).todo
  BY DEF WalkThread
<1>2. Top(h) \in CallRecord /\ WellFormed(Top(h))
  BY <1>1, TopTyped DEF IInv
<1>3. Top(h).op \in {"PREPARE", "INVALIDATE"}
  BY <1>1, <1>2 DEF WellFormed, CallRecord, Operations
<1>4. Top(h).op = "PREPARE" => kind[t] = "ARM"
  BY <1>1 DEF IInv, Storage, Conforming, Typed
<1>5. /\ call \in CallRecord /\ call.op = Top(h).op /\ call.at = "WALK"
      /\ call.thread = Top(h).thread /\ call.todo = Top(h).todo \ {t}
  BY <1>1, <1>2, <1>4 DEF CallRecord
<1> HIDE DEF call
<1>6. WellFormed(call)
  BY <1>2, <1>3, <1>5 DEF WellFormed
<1>7. /\ calls' \in [Host -> Seq(CallRecord)] /\ CallShapes' /\ OthersSame(h)
      /\ calls'[h] # <<>> /\ Top(h)' = call
  BY <1>1, <1>5, <1>6, UpdateTop DEF WalkThread, IInv, call
<1>8. /\ broker' = [broker EXCEPT ![t] = @ \/ (Top(h).op = "PREPARE" /\ kind[t] = "ARM")]
      /\ UNCHANGED <<process, threads, status, kind, threadsLock, runtimeLock, runLock>>
  BY DEF WalkThread
<1>9. broker' \in [Thread -> BOOLEAN]
  <2>1. (broker[t] \/ (Top(h).op = "PREPARE" /\ kind[t] = "ARM")) \in BOOLEAN
    OBVIOUS
  <2> QED BY <1>8, <2>1 DEF IInv, Typed
<1>10. Typed'
  BY <1>7, <1>8, <1>9 DEF IInv, Typed, process
<1>11. LockOwners'
  <2> SUFFICES ASSUME NEW g \in Host
               PROVE  /\ threadsLock' = g <=> calls'[g] # <<>> /\ Top(g)'.at = "WALK"
                      /\ \A u \in Thread :
                            runtimeLock'[u] = g <=> At(g, "RUN", "SEGMENT")' /\ Top(g)'.thread = {u}
    BY DEF LockOwners
  <2>1. CASE g = h
    BY <1>1, <1>3, <1>5, <1>7, <1>8, <2>1 DEF IInv, LockOwners, At
  <2>2. CASE g # h
    <3>1. calls'[g] = calls[g] /\ Top(g)' = Top(g) /\ UNCHANGED <<threadsLock, runtimeLock>>
      BY <1>7, <1>8, <2>2 DEF OthersSame
    <3> QED BY <3>1 DEF IInv, LockOwners, At
  <2> QED BY <2>1, <2>2
<1>12. Storage'
  <2>1. call.todo \subseteq threads
    BY <1>1, <1>5 DEF IInv, Storage
  <2> QED BY <1>3, <1>5, <1>7, <1>8, <2>1, StorageKept DEF IInv
<1>13. Conforming'
  <2>1. Top(h).op = "PREPARE" => ~x64 /\ ~i386
    BY <1>1 DEF IInv, Conforming
  <2> QED BY <1>3, <1>5, <1>7, <1>8, <2>1, RoutedKept DEF IInv, process
<1>14. Covered'
  <2> SUFFICES ASSUME arm', NEW u \in threads', ~broker'[u]
               PROVE  \E g \in Host : WillReach(g, u)'
    BY DEF Covered
  <2>1. arm /\ u \in threads /\ u \in Thread
    BY <1>8 DEF IInv, Typed, process
  <2>2. ~broker[u] /\ (u = t => Top(h).op # "PREPARE")
    BY <1>4, <1>8, <2>1 DEF IInv, Typed
  <2>3. PICK g \in Host : WillReach(g, u)
    BY <2>1, <2>2 DEF IInv, Covered
  <2>4. WillReach(g, u)'
    BY <1>1, <1>5, <1>7, <2>2, <2>3 DEF WillReach, OthersSame
  <2> QED BY <2>4
<1> QED
  BY <1>7, <1>10, <1>11, <1>12, <1>13, <1>14 DEF IInv

\* A walk ends.
LEMMA WalkEndKeeps ==
    ASSUME IInv, NEW h \in Host, WalkEnd(h)
    PROVE  IInv'
<1>1. calls[h] # <<>> /\ Top(h).at = "WALK" /\ Top(h).todo = {}
  BY DEF WalkEnd
<1>2. Top(h) \in CallRecord /\ WellFormed(Top(h))
  BY <1>1, TopTyped DEF IInv
<1>3. Top(h).op \in {"PREPARE", "INVALIDATE"}
  BY <1>1, <1>2 DEF WellFormed, CallRecord, Operations
<1>4. /\ calls' \in [Host -> Seq(CallRecord)] /\ CallShapes' /\ OthersSame(h)
      /\ calls'[h] # <<>> =>
            Top(h)'.op = "RUN" /\ Top(h)'.at = "CALLBACK" /\ Top(h)'.todo = {}
  BY <1>1, PopTop DEF WalkEnd, IInv
<1>5. threadsLock' = NoHost /\ UNCHANGED <<process, objects, runtimeLock, runLock>>
  BY DEF WalkEnd
<1>6. Typed'
  BY <1>4, <1>5 DEF IInv, Typed, objects, process
<1>7. LockOwners'
  <2> SUFFICES ASSUME NEW g \in Host
               PROVE  /\ threadsLock' = g <=> calls'[g] # <<>> /\ Top(g)'.at = "WALK"
                      /\ \A u \in Thread :
                            runtimeLock'[u] = g <=> At(g, "RUN", "SEGMENT")' /\ Top(g)'.thread = {u}
    BY DEF LockOwners
  <2>1. threadsLock = h /\ NoHost # g
    BY <1>1, LifecycleAssumption DEF IInv, LockOwners
  <2>2. CASE g = h
    BY <1>1, <1>3, <1>4, <1>5, <2>1, <2>2 DEF IInv, LockOwners, At
  <2>3. CASE g # h
    BY <1>4, <1>5, <2>1, <2>3 DEF IInv, LockOwners, At, OthersSame
  <2> QED BY <2>2, <2>3
<1>8. Storage'
  BY <1>4, <1>5, StorageKept DEF IInv, objects
<1>9. Conforming'
  BY <1>4, <1>5, RoutedKept DEF IInv, objects, process
<1>10. Covered'
  BY <1>1, <1>4, <1>5, CoveredKept DEF IInv, WillReach, objects, process
<1> QED
  BY <1>4, <1>6, <1>7, <1>8, <1>9, <1>10 DEF IInv

\* gem_wine_thread_create builds a thread outside the lock.
LEMMA CreateKeeps ==
    ASSUME IInv, NEW h \in Host, NEW t \in Thread, Create(h, t)
    PROVE  IInv'
<1> DEFINE call == NewCall("CREATE", {t}, "PUBLISH")
<1>1. call \in CallRecord /\ WellFormed(call)
  BY DEF NewCall, CallRecord, Operations, WellFormed
<1>2. call.op = "CREATE" /\ call.at = "PUBLISH" /\ call.todo = {} /\ call.thread = {t}
  BY DEF NewCall
<1> HIDE DEF call
<1>3. /\ calls' \in [Host -> Seq(CallRecord)] /\ CallShapes' /\ OthersSame(h)
      /\ calls'[h] # <<>> /\ Top(h)' = call
      /\ calls[h] # <<>> => Top(h).op = "RUN" /\ Top(h).at = "CALLBACK" /\ Top(h).todo = {}
  BY <1>1, PushTop DEF Create, IInv, call
<1>4. /\ status[t] = "NONE" /\ status' = [status EXCEPT ![t] = "CREATING"]
      /\ kind' = [kind EXCEPT ![t] = IF i386 THEN "I386" ELSE "ARM"]
      /\ UNCHANGED <<process, threads, broker, threadsLock, runtimeLock, runLock>>
  BY DEF Create
<1>5. Typed'
  BY <1>3, <1>4 DEF IInv, Typed, process
<1>6. LockOwners'
  BY <1>2, <1>3, <1>4, LockOwnersKept DEF IInv
<1>7. t \notin threads /\ \A g \in Host : ~Owns(g, t)
  BY <1>4, TopTyped DEF IInv, Typed, Storage, Owns
<1>8. \A g \in Host, u \in Thread :
        Owns(g, u)' => \/ g = h /\ u = t /\ Top(g)'.op = "CREATE"
                       \/ g # h /\ u # t /\ Owns(g, u) /\ Top(g)' = Top(g)
  BY <1>2, <1>3, <1>7 DEF Owns, OthersSame
<1>9. \A g \in Host : calls'[g] # <<>> => Top(g)'.todo \subseteq threads
  BY <1>2, <1>3 DEF IInv, Storage, OthersSame
<1>10. Storage'
  <2>1. \A u \in threads' : status'[u] = "LIVE"
    BY <1>4, <1>7 DEF IInv, Typed, Storage
  <2>2. ASSUME NEW g \in Host, NEW u \in Thread, Owns(g, u)'
        PROVE  /\ Top(g)'.op = "CREATE" => status'[u] = "CREATING"
               /\ Top(g)'.op = "DESTROY" => status'[u] = "LIVE" /\ u \notin threads'
    <3>1. CASE g = h /\ u = t /\ Top(g)'.op = "CREATE"
      BY <1>4, <3>1 DEF IInv, Typed
    <3>2. CASE u # t /\ Owns(g, u) /\ Top(g)' = Top(g)
      BY <1>4, <3>2 DEF IInv, Typed, Storage
    <3> QED BY <1>8, <2>2, <3>1, <3>2
  <2>3. ASSUME NEW g \in Host, NEW f \in Host, NEW u \in Thread, Owns(g, u)', Owns(f, u)'
        PROVE  f = g
    BY <1>8, <2>3 DEF IInv, Storage
  <2> QED BY <1>4, <1>9, <2>1, <2>2, <2>3 DEF Storage
<1>11. Conforming'
  <2>1. \A g \in Host : calls'[g] # <<>> /\ Top(g)'.op = "PREPARE" => ~x64 /\ ~i386
    BY <1>2, <1>3 DEF OthersSame, Conforming, IInv
  <2>2. ASSUME NEW g \in Host, NEW u \in Thread, Owns(g, u)', Top(g)'.op = "CREATE"
        PROVE  (kind'[u] = "I386") = i386
    <3>1. CASE u = t
      BY <1>4, <3>1 DEF IInv, Typed
    <3>2. CASE u # t
      <4>1. Owns(g, u) /\ Top(g).op = "CREATE"
        BY <1>8, <2>2, <3>2
      <4> QED BY <1>4, <3>2, <4>1 DEF IInv, Typed, Conforming
    <3> QED BY <3>1, <3>2
  <2>3. \A u \in threads : (kind'[u] = "I386") = i386
    BY <1>4, <1>7 DEF IInv, Typed, Conforming
  <2> QED BY <1>4, <2>1, <2>2, <2>3 DEF IInv, Conforming, process
<1>12. Covered'
  BY <1>3, <1>4, CoveredKept DEF IInv, WillReach, process
<1> QED
  BY <1>3, <1>5, <1>6, <1>10, <1>11, <1>12 DEF IInv

\* A call about one thread finds it.
LEMMA TheOne == \A t : The({t}) = t
BY DEF The

\* It publishes the thread under threads_lock.
LEMMA PublishKeeps ==
    ASSUME IInv, NEW h \in Host, Publish(h)
    PROVE  IInv'
<1>1. calls[h] # <<>> /\ Top(h).op = "CREATE" /\ Top(h).at = "PUBLISH" /\ threadsLock = NoHost
  BY DEF Publish, At
<1>2. Top(h) \in CallRecord /\ WellFormed(Top(h))
  BY <1>1, TopTyped DEF IInv
<1>3. PICK t \in Thread : Top(h).thread = {t}
  BY <1>1, <1>2 DEF WellFormed
<1>4. /\ broker' = [broker EXCEPT ![t] = PublishedBroker(t)]
      /\ threads' = threads \cup {t}
      /\ status' = [status EXCEPT ![t] = "LIVE"]
      /\ UNCHANGED <<process, kind, threadsLock, runtimeLock, runLock>>
  BY <1>3, TheOne DEF Publish
<1>5. /\ calls' \in [Host -> Seq(CallRecord)] /\ CallShapes' /\ OthersSame(h)
      /\ calls'[h] # <<>> =>
            Top(h)'.op = "RUN" /\ Top(h)'.at = "CALLBACK" /\ Top(h)'.todo = {}
  BY <1>1, PopTop DEF Publish, IInv
<1>6. Owns(h, t)
  BY <1>1, <1>3 DEF Owns
<1>7. PublishedBroker(t) \in BOOLEAN
  BY DEF PublishedBroker
<1>8. Typed'
  <2>1. broker' \in [Thread -> BOOLEAN]
    BY <1>4, <1>7 DEF IInv, Typed
  <2> QED BY <1>4, <1>5, <2>1 DEF IInv, Typed, process
<1>9. LockOwners'
  BY <1>1, <1>4, <1>5, LockOwnersKept DEF IInv
<1>10. \A g \in Host, u \in Thread :
         Owns(g, u)' => g # h /\ u # t /\ Owns(g, u) /\ Top(g)' = Top(g)
  BY <1>5, <1>6 DEF Owns, OthersSame, IInv, Storage
<1>11. \A g \in Host : calls'[g] # <<>> => Top(g)'.todo \subseteq threads
  BY <1>5 DEF IInv, Storage, OthersSame
<1>12. Storage'
  <2>1. \A u \in threads' : status'[u] = "LIVE"
    BY <1>4 DEF IInv, Typed, Storage
  <2>2. ASSUME NEW g \in Host, NEW u \in Thread, Owns(g, u)'
        PROVE  /\ Top(g)'.op = "CREATE" => status'[u] = "CREATING"
               /\ Top(g)'.op = "DESTROY" => status'[u] = "LIVE" /\ u \notin threads'
    <3>1. u # t /\ Owns(g, u) /\ Top(g)' = Top(g)
      BY <1>10, <2>2
    <3> QED BY <1>4, <3>1 DEF IInv, Typed, Storage
  <2>3. ASSUME NEW g \in Host, NEW f \in Host, NEW u \in Thread, Owns(g, u)', Owns(f, u)'
        PROVE  f = g
    BY <1>10, <2>3 DEF IInv, Storage
  <2> QED BY <1>4, <1>11, <2>1, <2>2, <2>3 DEF Storage
<1>13. (kind[t] = "I386") = i386
  BY <1>1, <1>6 DEF IInv, Conforming
<1>14. Conforming'
  <2>1. \A g \in Host : calls'[g] # <<>> /\ Top(g)'.op = "PREPARE" => ~x64 /\ ~i386
    BY <1>5 DEF OthersSame, Conforming, IInv
  <2>2. \A g \in Host, u \in Thread :
          Owns(g, u)' /\ Top(g)'.op = "CREATE" => (kind[u] = "I386") = i386
    BY <1>10 DEF IInv, Conforming
  <2> QED BY <1>4, <1>13, <2>1, <2>2 DEF IInv, Conforming, process
<1>15. Covered'
  <2> SUFFICES ASSUME arm', NEW u \in threads', ~broker'[u]
               PROVE  \E g \in Host : WillReach(g, u)'
    BY DEF Covered
  <2>1. arm
    BY <1>4 DEF process
  <2>2. kind[t] = "ARM"
    BY <1>13, <2>1 DEF IInv, Typed, Conforming
  <2>3. u # t
    BY <1>4, <2>1, <2>2 DEF PublishedBroker, IInv, Typed
  <2>4. u \in threads /\ ~broker[u]
    BY <1>4, <2>3 DEF IInv, Typed
  <2>5. PICK g \in Host : WillReach(g, u)
    BY <2>1, <2>4 DEF IInv, Covered
  <2>6. WillReach(g, u)'
    BY <1>1, <1>5, <2>5 DEF WillReach, OthersSame
  <2> QED BY <2>6
<1> QED
  BY <1>5, <1>8, <1>9, <1>12, <1>14, <1>15 DEF IInv

\* Locking and unlocking a run_lock keeps its type.
LEMMA RunLockTyped ==
    ASSUME Typed, NEW h \in Host, NEW t \in Thread
    PROVE  RunLocked(h, t) \in [Thread -> Lock] /\ RunUnlocked(t) \in [Thread -> Lock]
<1>1. runLock[t] \in Lock /\ runLock[t].depth \in Int
  BY DEF Typed, Lock
<1>2. [owner |-> h, depth |-> runLock[t].depth + 1] \in Lock
  BY <1>1 DEF Lock
<1>3. (IF runLock[t].depth = 1 THEN Unlocked
       ELSE [owner |-> runLock[t].owner, depth |-> runLock[t].depth - 1]) \in Lock
  BY <1>1 DEF Lock, Unlocked
<1> DEFINE l == [owner |-> h, depth |-> runLock[t].depth + 1]
           u == IF runLock[t].depth = 1 THEN Unlocked
                ELSE [owner |-> runLock[t].owner, depth |-> runLock[t].depth - 1]
<1>4. RunLocked(h, t) = [runLock EXCEPT ![t] = l]
  BY DEF RunLocked
<1>5. RunUnlocked(t) = [runLock EXCEPT ![t] = u]
  BY DEF RunUnlocked
<1>6. l \in Lock /\ u \in Lock
  BY <1>2, <1>3
<1> HIDE DEF l, u
<1> QED
  BY <1>4, <1>5, <1>6 DEF Typed

\* gem_wine_thread_destroy unlinks the thread.
LEMMA DestroyKeeps ==
    ASSUME IInv, NEW h \in Host, NEW t \in Thread, Destroy(h, t)
    PROVE  IInv'
<1> DEFINE call == NewCall("DESTROY", {t}, "FREE")
<1>1. call \in CallRecord /\ WellFormed(call)
  BY DEF NewCall, CallRecord, Operations, WellFormed
<1>2. call.op = "DESTROY" /\ call.at = "FREE" /\ call.todo = {} /\ call.thread = {t}
  BY DEF NewCall
<1> HIDE DEF call
<1>3. /\ calls' \in [Host -> Seq(CallRecord)] /\ CallShapes' /\ OthersSame(h)
      /\ calls'[h] # <<>> /\ Top(h)' = call
      /\ calls[h] # <<>> => Top(h).op = "RUN" /\ Top(h).at = "CALLBACK" /\ Top(h).todo = {}
  BY <1>1, PushTop DEF Destroy, IInv, call
<1>4. /\ t \in threads /\ threadsLock = NoHost
      /\ threads' = threads \ {t} /\ runLock' = RunLocked(h, t)
      /\ UNCHANGED <<process, status, kind, broker, threadsLock, runtimeLock>>
  BY DEF Destroy
<1>5. Typed'
  BY <1>3, <1>4, RunLockTyped DEF IInv, Typed, process
<1>6. LockOwners'
  BY <1>2, <1>3, <1>4, LockOwnersKept DEF IInv
<1>7. status[t] = "LIVE" /\ \A g \in Host : ~Owns(g, t)
  BY <1>4, TopTyped DEF IInv, Storage, Owns
<1>8. \A g \in Host, u \in Thread :
        Owns(g, u)' => \/ g = h /\ u = t /\ Top(g)'.op = "DESTROY"
                       \/ g # h /\ u # t /\ Owns(g, u) /\ Top(g)' = Top(g)
  BY <1>2, <1>3, <1>7 DEF Owns, OthersSame
<1>9. \A g \in Host : calls'[g] # <<>> => Top(g)'.todo = {}
  <2>1. \A g \in Host : calls[g] # <<>> => Top(g).at # "WALK"
    BY <1>4, LifecycleAssumption DEF IInv, LockOwners
  <2>2. \A g \in Host : calls[g] # <<>> => Top(g).todo = {}
    BY <2>1, TopTyped DEF IInv, WellFormed
  <2> QED BY <1>2, <1>3, <2>2 DEF OthersSame
<1>10. Storage'
  <2>1. ASSUME NEW g \in Host, NEW u \in Thread, Owns(g, u)'
        PROVE  /\ Top(g)'.op = "CREATE" => status'[u] = "CREATING"
               /\ Top(g)'.op = "DESTROY" => status'[u] = "LIVE" /\ u \notin threads'
    <3>1. CASE g = h /\ u = t /\ Top(g)'.op = "DESTROY"
      BY <1>4, <1>7, <3>1
    <3>2. CASE u # t /\ Owns(g, u) /\ Top(g)' = Top(g)
      BY <1>4, <3>2 DEF IInv, Storage
    <3> QED BY <1>8, <2>1, <3>1, <3>2
  <2>2. ASSUME NEW g \in Host, NEW f \in Host, NEW u \in Thread, Owns(g, u)', Owns(f, u)'
        PROVE  f = g
    BY <1>8, <2>2 DEF IInv, Storage
  <2>3. \A u \in threads' : status'[u] = "LIVE"
    BY <1>4 DEF IInv, Storage
  <2> QED BY <1>9, <2>1, <2>2, <2>3 DEF Storage
<1>11. Conforming'
  <2>1. \A g \in Host : calls'[g] # <<>> /\ Top(g)'.op = "PREPARE" => ~x64 /\ ~i386
    BY <1>2, <1>3 DEF OthersSame, Conforming, IInv
  <2>2. \A g \in Host, u \in Thread :
          Owns(g, u)' /\ Top(g)'.op = "CREATE" => (kind[u] = "I386") = i386
    BY <1>2, <1>3, <1>8 DEF IInv, Conforming
  <2> QED BY <1>4, <2>1, <2>2 DEF IInv, Conforming, process
<1>12. Covered'
  BY <1>3, <1>4, CoveredKept DEF IInv, WillReach, process
<1> QED
  BY <1>3, <1>5, <1>6, <1>10, <1>11, <1>12 DEF IInv

\* It frees the thread.
LEMMA FreeKeeps ==
    ASSUME IInv, NEW h \in Host, Free(h)
    PROVE  IInv'
<1>1. calls[h] # <<>> /\ Top(h).op = "DESTROY" /\ Top(h).at = "FREE"
  BY DEF Free, At
<1>2. Top(h) \in CallRecord /\ WellFormed(Top(h))
  BY <1>1, TopTyped DEF IInv
<1>3. PICK t \in Thread : Top(h).thread = {t}
  BY <1>1, <1>2 DEF WellFormed
<1>4. /\ status' = [status EXCEPT ![t] = "FREED"] /\ runLock' = RunUnlocked(t)
      /\ UNCHANGED <<process, threads, kind, broker, threadsLock, runtimeLock>>
  BY <1>3, TheOne DEF Free
<1>5. /\ calls' \in [Host -> Seq(CallRecord)] /\ CallShapes' /\ OthersSame(h)
      /\ calls'[h] # <<>> =>
            Top(h)'.op = "RUN" /\ Top(h)'.at = "CALLBACK" /\ Top(h)'.todo = {}
  BY <1>1, PopTop DEF Free, IInv
<1>6. Owns(h, t) /\ t \notin threads
  BY <1>1, <1>3 DEF Owns, IInv, Storage
<1>7. Typed'
  BY <1>4, <1>5, RunLockTyped DEF IInv, Typed, process
<1>8. LockOwners'
  BY <1>1, <1>4, <1>5, LockOwnersKept DEF IInv
<1>9. \A g \in Host, u \in Thread :
         Owns(g, u)' => g # h /\ u # t /\ Owns(g, u) /\ Top(g)' = Top(g)
  BY <1>5, <1>6 DEF Owns, OthersSame, IInv, Storage
<1>10. \A g \in Host : calls'[g] # <<>> => Top(g)'.todo \subseteq threads
  BY <1>5 DEF IInv, Storage, OthersSame
<1>11. Storage'
  <2>1. \A u \in threads' : status'[u] = "LIVE"
    BY <1>4, <1>6 DEF IInv, Typed, Storage
  <2>2. ASSUME NEW g \in Host, NEW u \in Thread, Owns(g, u)'
        PROVE  /\ Top(g)'.op = "CREATE" => status'[u] = "CREATING"
               /\ Top(g)'.op = "DESTROY" => status'[u] = "LIVE" /\ u \notin threads'
    <3>1. u # t /\ Owns(g, u) /\ Top(g)' = Top(g)
      BY <1>9, <2>2
    <3> QED BY <1>4, <3>1 DEF IInv, Typed, Storage
  <2>3. ASSUME NEW g \in Host, NEW f \in Host, NEW u \in Thread, Owns(g, u)', Owns(f, u)'
        PROVE  f = g
    BY <1>9, <2>3 DEF IInv, Storage
  <2> QED BY <1>4, <1>10, <2>1, <2>2, <2>3 DEF Storage
<1>12. Conforming'
  BY <1>4, <1>5, RoutedKept DEF IInv, process
<1>13. Covered'
  BY <1>1, <1>4, <1>5, CoveredKept DEF IInv, WillReach, process
<1> QED
  BY <1>5, <1>7, <1>8, <1>11, <1>12, <1>13 DEF IInv

\* gem_wine_thread_run and gem_wine_i386_thread_run start.
LEMMA RunKeeps ==
    ASSUME IInv, NEW h \in Host, NEW t \in Thread, Run(h, t)
    PROVE  IInv'
<1> DEFINE call == NewCall("RUN", {t}, "LOOP")
<1>1. call \in CallRecord /\ WellFormed(call)
  BY DEF NewCall, CallRecord, Operations, WellFormed
<1>2. call.op = "RUN" /\ call.at = "LOOP" /\ call.todo = {}
  BY DEF NewCall
<1> HIDE DEF call
<1>3. /\ calls' \in [Host -> Seq(CallRecord)] /\ CallShapes' /\ OthersSame(h)
      /\ calls'[h] # <<>> /\ Top(h)' = call
      /\ calls[h] # <<>> => Top(h).op = "RUN" /\ Top(h).at = "CALLBACK" /\ Top(h).todo = {}
  BY <1>1, PushTop DEF Run, IInv, call
<1>4. runLock' = RunLocked(h, t) /\ UNCHANGED <<process, objects, threadsLock, runtimeLock>>
  BY DEF Run
<1>5. Typed'
  BY <1>3, <1>4, RunLockTyped DEF IInv, Typed, process, objects
<1>6. LockOwners'
  BY <1>2, <1>3, <1>4, LockOwnersKept DEF IInv
<1>7. Storage'
  BY <1>2, <1>3, <1>4, StorageKept DEF IInv, objects
<1>8. Conforming'
  BY <1>2, <1>3, <1>4, RoutedKept DEF IInv, objects, process
<1>9. Covered'
  BY <1>3, <1>4, CoveredKept DEF IInv, WillReach, process, objects
<1> QED
  BY <1>3, <1>5, <1>6, <1>7, <1>8, <1>9 DEF IInv

\* A run changes where it is.
LEMMA RunMoves ==
    ASSUME IInv, NEW h \in Host, calls[h] # <<>>, Top(h).op = "RUN",
           NEW at \in {"LOOP", "SEGMENT", "CALLBACK"}, Update(h, [Top(h) EXCEPT !.at = at])
    PROVE  /\ calls' \in [Host -> Seq(CallRecord)] /\ CallShapes' /\ OthersSame(h)
           /\ calls'[h] # <<>> /\ Top(h)'.op = "RUN" /\ Top(h)'.at = at /\ Top(h)'.todo = {}
           /\ Top(h)'.thread = Top(h).thread /\ \E t \in Thread : Top(h).thread = {t}
<1> DEFINE call == [Top(h) EXCEPT !.at = at]
<1>1. Top(h) \in CallRecord /\ WellFormed(Top(h))
  BY TopTyped DEF IInv
<1>2. /\ call \in CallRecord /\ WellFormed(call) /\ call.op = "RUN" /\ call.at = at
      /\ call.todo = {} /\ call.thread = Top(h).thread
  BY <1>1 DEF CallRecord, WellFormed
<1> HIDE DEF call
<1>3. /\ calls' \in [Host -> Seq(CallRecord)] /\ CallShapes' /\ OthersSame(h)
      /\ calls'[h] # <<>> /\ Top(h)' = call
  BY <1>2, UpdateTop DEF IInv, call
<1> QED
  BY <1>1, <1>2, <1>3 DEF WellFormed

\* A segment takes the runtime_lock of its thread.
LEMMA SegmentBeginKeeps ==
    ASSUME IInv, NEW h \in Host, SegmentBegin(h)
    PROVE  IInv'
<1>1. calls[h] # <<>> /\ Top(h).op = "RUN" /\ Top(h).at = "LOOP"
  BY DEF SegmentBegin, At
<1>2. /\ calls' \in [Host -> Seq(CallRecord)] /\ CallShapes' /\ OthersSame(h)
      /\ calls'[h] # <<>> /\ Top(h)'.op = "RUN" /\ Top(h)'.at = "SEGMENT" /\ Top(h)'.todo = {}
      /\ Top(h)'.thread = Top(h).thread /\ \E t \in Thread : Top(h).thread = {t}
  BY <1>1, RunMoves DEF SegmentBegin
<1>3. PICK t \in Thread : Top(h).thread = {t}
  BY <1>2
<1>4. /\ runtimeLock[t] = NoHost /\ runtimeLock' = [runtimeLock EXCEPT ![t] = h]
      /\ UNCHANGED <<process, objects, threadsLock, runLock>>
  BY <1>3, TheOne DEF SegmentBegin
<1>5. Typed'
  BY <1>2, <1>4 DEF IInv, Typed, process, objects
<1>6. LockOwners'
  <2> SUFFICES ASSUME NEW g \in Host
               PROVE  /\ threadsLock' = g <=> calls'[g] # <<>> /\ Top(g)'.at = "WALK"
                      /\ \A u \in Thread :
                            runtimeLock'[u] = g <=> At(g, "RUN", "SEGMENT")' /\ Top(g)'.thread = {u}
    BY DEF LockOwners
  <2>1. g # NoHost
    BY LifecycleAssumption
  <2>2. CASE g = h
    BY <1>1, <1>2, <1>3, <1>4, <2>2 DEF IInv, Typed, LockOwners, At
  <2>3. CASE g # h
    <3>1. calls'[g] = calls[g] /\ Top(g)' = Top(g) /\ threadsLock' = threadsLock
      BY <1>2, <1>4, <2>3 DEF OthersSame
    <3>2. \A u \in Thread : runtimeLock'[u] = g <=> runtimeLock[u] = g
      BY <1>4, <2>1, <2>3 DEF IInv, Typed
    <3> QED BY <3>1, <3>2 DEF IInv, LockOwners, At
  <2> QED BY <2>2, <2>3
<1>7. Storage'
  BY <1>2, <1>4, StorageKept DEF IInv, objects
<1>8. Conforming'
  BY <1>2, <1>4, RoutedKept DEF IInv, objects, process
<1>9. Covered'
  BY <1>1, <1>2, <1>4, CoveredKept DEF IInv, WillReach, process, objects
<1> QED
  BY <1>2, <1>5, <1>6, <1>7, <1>8, <1>9 DEF IInv

\* A segment gives the runtime_lock up, whatever follows it.
LEMMA SegmentEndKeeps ==
    ASSUME IInv, NEW h \in Host, NEW at \in {"LOOP", "CALLBACK"}, SegmentEnd(h, at)
    PROVE  IInv'
<1>1. calls[h] # <<>> /\ Top(h).op = "RUN" /\ Top(h).at = "SEGMENT"
  BY DEF SegmentEnd, At
<1>2. /\ calls' \in [Host -> Seq(CallRecord)] /\ CallShapes' /\ OthersSame(h)
      /\ calls'[h] # <<>> /\ Top(h)'.op = "RUN" /\ Top(h)'.at = at /\ Top(h)'.todo = {}
      /\ Top(h)'.thread = Top(h).thread /\ \E t \in Thread : Top(h).thread = {t}
  BY <1>1, RunMoves DEF SegmentEnd
<1>3. PICK t \in Thread : Top(h).thread = {t}
  BY <1>2
<1>4. /\ runtimeLock' = [runtimeLock EXCEPT ![t] = NoHost]
      /\ UNCHANGED <<process, objects, threadsLock, runLock>>
  BY <1>3, TheOne DEF SegmentEnd, AfterSegment
<1>5. Typed'
  BY <1>2, <1>4 DEF IInv, Typed, process, objects
<1>6. LockOwners'
  <2> SUFFICES ASSUME NEW g \in Host
               PROVE  /\ threadsLock' = g <=> calls'[g] # <<>> /\ Top(g)'.at = "WALK"
                      /\ \A u \in Thread :
                            runtimeLock'[u] = g <=> At(g, "RUN", "SEGMENT")' /\ Top(g)'.thread = {u}
    BY DEF LockOwners
  <2>1. g # NoHost /\ runtimeLock[t] = h
    BY <1>1, <1>3, LifecycleAssumption DEF IInv, LockOwners, At
  <2>2. CASE g = h
    <3>1. threadsLock' # h /\ Top(h)'.at # "WALK" /\ Top(h)'.at # "SEGMENT"
      BY <1>1, <1>2, <1>4 DEF IInv, LockOwners
    <3>2. \A u \in Thread : u # t => runtimeLock[u] # h
      BY <1>3 DEF IInv, LockOwners
    <3>3. \A u \in Thread : runtimeLock'[u] # h
      BY <1>4, <2>1, <2>2, <3>2 DEF IInv, Typed
    <3> QED BY <2>2, <3>1, <3>3 DEF At
  <2>3. CASE g # h
    <3>1. calls'[g] = calls[g] /\ Top(g)' = Top(g) /\ threadsLock' = threadsLock
      BY <1>2, <1>4, <2>3 DEF OthersSame
    <3>2. \A u \in Thread : runtimeLock'[u] = g <=> runtimeLock[u] = g
      BY <1>4, <2>1, <2>3 DEF IInv, Typed
    <3> QED BY <3>1, <3>2 DEF IInv, LockOwners, At
  <2> QED BY <2>2, <2>3
<1>7. Storage'
  BY <1>2, <1>4, StorageKept DEF IInv, objects
<1>8. Conforming'
  BY <1>2, <1>4, RoutedKept DEF IInv, objects, process
<1>9. Covered'
  BY <1>1, <1>2, <1>4, CoveredKept DEF IInv, WillReach, process, objects
<1> QED
  BY <1>2, <1>5, <1>6, <1>7, <1>8, <1>9 DEF IInv

\* A callback resumes its run.
LEMMA CallbackEndKeeps ==
    ASSUME IInv, NEW h \in Host, CallbackEnd(h)
    PROVE  IInv'
<1>1. calls[h] # <<>> /\ Top(h).op = "RUN" /\ Top(h).at = "CALLBACK"
  BY DEF CallbackEnd, At
<1>2. /\ calls' \in [Host -> Seq(CallRecord)] /\ CallShapes' /\ OthersSame(h)
      /\ calls'[h] # <<>> /\ Top(h)'.op = "RUN" /\ Top(h)'.at = "LOOP" /\ Top(h)'.todo = {}
  BY <1>1, RunMoves DEF CallbackEnd
<1>3. UNCHANGED <<process, objects, threadsLock, runtimeLock, runLock>>
  BY DEF CallbackEnd
<1>4. Typed'
  BY <1>2, <1>3 DEF IInv, Typed, process, objects
<1>5. LockOwners'
  BY <1>1, <1>2, <1>3, LockOwnersKept DEF IInv
<1>6. Storage'
  BY <1>2, <1>3, StorageKept DEF IInv, objects
<1>7. Conforming'
  BY <1>2, <1>3, RoutedKept DEF IInv, objects, process
<1>8. Covered'
  BY <1>1, <1>2, <1>3, CoveredKept DEF IInv, WillReach, process, objects
<1> QED
  BY <1>2, <1>4, <1>5, <1>6, <1>7, <1>8 DEF IInv

\* A run returns.
LEMMA RunEndKeeps ==
    ASSUME IInv, NEW h \in Host, RunEnd(h)
    PROVE  IInv'
<1>1. calls[h] # <<>> /\ Top(h).op = "RUN" /\ Top(h).at \in {"LOOP", "CALLBACK"}
  BY DEF RunEnd, At
<1>2. Top(h) \in CallRecord /\ WellFormed(Top(h))
  BY <1>1, TopTyped DEF IInv
<1>3. PICK t \in Thread : Top(h).thread = {t}
  BY <1>1, <1>2 DEF WellFormed
<1>4. runLock' = RunUnlocked(t) /\ UNCHANGED <<process, objects, threadsLock, runtimeLock>>
  BY <1>3, TheOne DEF RunEnd
<1>5. /\ calls' \in [Host -> Seq(CallRecord)] /\ CallShapes' /\ OthersSame(h)
      /\ calls'[h] # <<>> =>
            Top(h)'.op = "RUN" /\ Top(h)'.at = "CALLBACK" /\ Top(h)'.todo = {}
  BY <1>1, PopTop DEF RunEnd, IInv
<1>6. Typed'
  BY <1>4, <1>5, RunLockTyped DEF IInv, Typed, process, objects
<1>7. LockOwners'
  BY <1>1, <1>4, <1>5, LockOwnersKept DEF IInv
<1>8. Storage'
  BY <1>4, <1>5, StorageKept DEF IInv, objects
<1>9. Conforming'
  BY <1>4, <1>5, RoutedKept DEF IInv, objects, process
<1>10. Covered'
  BY <1>1, <1>4, <1>5, CoveredKept DEF IInv, WillReach, process, objects
<1> QED
  BY <1>5, <1>6, <1>7, <1>8, <1>9, <1>10 DEF IInv

-----------------------------------------------------------------------------
(* The theorems.                                                            *)

\* The invariant holds initially.
LEMMA IInvInitially == Init => IInv
<1> SUFFICES ASSUME Init
             PROVE  IInv
  OBVIOUS
<1>1. \A h \in Host : calls[h] = <<>>
  BY DEF Init
<1>2. Typed
  <2>1. Unlocked \in Lock
    BY DEF Unlocked, Lock
  <2>2. runLock \in [Thread -> Lock]
    BY <2>1 DEF Init
  <2>3. calls \in [Host -> Seq(CallRecord)]
    BY EmptySeq DEF Init
  <2> QED BY <2>2, <2>3 DEF Init, Typed
<1>3. CallShapes
  <2>1. \A h \in Host : Len(calls[h]) = 0
    BY <1>1, EmptySeq
  <2> QED BY <2>1 DEF CallShapes
<1>4. LockOwners
  BY <1>1, LifecycleAssumption DEF Init, LockOwners, At
<1>5. Storage
  BY <1>1 DEF Init, Storage, Owns
<1>6. Conforming
  BY <1>1 DEF Init, Conforming, Owns
<1>7. Covered
  BY DEF Init, Covered
<1> QED
  BY <1>2, <1>3, <1>4, <1>5, <1>6, <1>7 DEF IInv

\* Every step keeps the invariant.
LEMMA IInvInductive == IInv /\ [Next]_vars => IInv'
<1> SUFFICES ASSUME IInv, [Next]_vars
             PROVE  IInv'
  OBVIOUS
<1>1. ASSUME NEW h \in Host,
             PrepareX86_64(h) \/ PrepareI386(h) \/ RegisterDeferred(h)
      PROVE  IInv'
  BY <1>1, ProcessKeeps
<1>2. CASE Recreate
  <2>1. PICK h \in Host : TRUE
    BY LifecycleAssumption
  <2> QED BY <1>2, <2>1, ProcessKeeps
<1>3. ASSUME NEW h \in Host, NEW register \in BOOLEAN, Prepare(h, register)
      PROVE  IInv'
  BY <1>3, PrepareKeeps
<1>4. ASSUME NEW h \in Host,
             PrepareStore(h) \/ Invalidate(h) \/ WalkStart(h) \/ WalkEnd(h)
      PROVE  IInv'
  BY <1>4, PrepareStoreKeeps, InvalidateKeeps, WalkStartKeeps, WalkEndKeeps
<1>5. ASSUME NEW h \in Host, Publish(h) \/ Free(h)
      PROVE  IInv'
  BY <1>5, PublishKeeps, FreeKeeps
<1>6. ASSUME NEW h \in Host, SegmentBegin(h) \/ CallbackEnd(h) \/ RunEnd(h)
      PROVE  IInv'
  BY <1>6, SegmentBeginKeeps, CallbackEndKeeps, RunEndKeeps
<1>7. ASSUME NEW h \in Host, NEW at \in {"LOOP", "CALLBACK"}, SegmentEnd(h, at)
      PROVE  IInv'
  BY <1>7, SegmentEndKeeps
<1>8. ASSUME NEW h \in Host, NEW t \in Thread,
             WalkThread(h, t) \/ Create(h, t) \/ Destroy(h, t) \/ Run(h, t)
      PROVE  IInv'
  BY <1>8, WalkThreadKeeps, CreateKeeps, DestroyKeeps, RunKeeps
<1>9. CASE UNCHANGED vars
  <2> USE <1>9 DEF vars
  <2>1. \A h \in Host : Top(h)' = Top(h) /\ calls'[h] = calls[h]
    BY DEF Top
  <2>2. Typed' /\ CallShapes'
    BY DEF IInv, Typed, CallShapes
  <2>3. LockOwners'
    BY <2>1 DEF IInv, LockOwners, At
  <2>4. \A h \in Host, t \in Thread : Owns(h, t)' <=> Owns(h, t)
    BY <2>1 DEF Owns
  <2>5. Storage'
    BY <2>1, <2>4 DEF IInv, Storage
  <2>6. Conforming'
    BY <2>1, <2>4 DEF IInv, Conforming
  <2>7. Covered'
    BY <2>1 DEF IInv, Covered, WillReach
  <2> QED BY <2>2, <2>3, <2>5, <2>6, <2>7 DEF IInv
<1> QED
  BY Zenon, <1>1, <1>2, <1>3, <1>4, <1>5, <1>6, <1>7, <1>8, <1>9 DEF Next

\* The invariant holds in every reachable state.
LEMMA Inductive == Spec => []IInv
<1> QED
  BY IInvInitially, IInvInductive, PTL DEF Spec

\* RoutingIsOne: preparing a process for one architecture, registering images and
\* creating threads concurrently never leaves a process with two routings or with
\* a thread of the wrong kind.
THEOREM OneRouting == Spec => []RoutingIsOne
<1>1. IInv => RoutingIsOne
  <2> SUFFICES ASSUME IInv
               PROVE  RoutingIsOne
    OBVIOUS
  <2> DEFINE F == {f \in {"arm", "x64", "i386"} :
                     CASE f = "arm" -> arm [] f = "x64" -> x64 [] f = "i386" -> i386}
  <2>1. "arm" \in F <=> arm
    OBVIOUS
  <2>2. "x64" \in F <=> x64
    OBVIOUS
  <2>3. "i386" \in F <=> i386
    OBVIOUS
  <2>4. F \subseteq {"arm", "x64", "i386"}
    OBVIOUS
  <2> HIDE DEF F
  <2>5. F = {} \/ \E f : F = {f}
    <3>1. CASE arm
      <4>1. F = {"arm"}
        BY <2>1, <2>2, <2>3, <2>4, <3>1 DEF IInv, Conforming
      <4> QED BY <4>1
    <3>2. CASE x64
      <4>1. F = {"x64"}
        BY <2>1, <2>2, <2>3, <2>4, <3>2 DEF IInv, Conforming
      <4> QED BY <4>1
    <3>3. CASE i386
      <4>1. F = {"i386"}
        BY <2>1, <2>2, <2>3, <2>4, <3>3 DEF IInv, Conforming
      <4> QED BY <4>1
    <3>4. CASE ~arm /\ ~x64 /\ ~i386
      BY <2>1, <2>2, <2>3, <2>4, <3>4
    <3> QED BY <3>1, <3>2, <3>3, <3>4
  <2>6. Cardinality(F) \in {0, 1}
    BY <2>5, FS_EmptySet, FS_Singleton
  <2>7. Cardinality(F) <= 1
    BY <2>6
  <2> QED BY <2>7 DEF RoutingIsOne, IInv, Conforming, F
<1> QED
  BY <1>1, Inductive, PTL

\* BrokerReachesEveryThread: whichever threads are created, published or in a
\* segment while gem_wine_process_prepare_arm64ec stores the flag and walks the
\* list, none is left without the broker when no preparation is in flight.
THEOREM NoThreadMissed == Spec => []BrokerReachesEveryThread
<1>1. IInv => BrokerReachesEveryThread
  <2> SUFFICES ASSUME IInv, arm, NEW t \in threads,
                      \A h \in Host : \A i \in 1 .. Len(calls[h]) : calls[h][i].op # "PREPARE"
               PROVE  broker[t]
    BY DEF BrokerReachesEveryThread
  <2>1. ASSUME NEW h \in Host, WillReach(h, t)
        PROVE  FALSE
    <3>1. calls[h] # <<>> /\ Top(h).op = "PREPARE"
      BY <2>1 DEF WillReach
    <3>2. Len(calls[h]) \in 1 .. Len(calls[h])
      BY <3>1, TopTyped DEF IInv
    <3> QED BY <3>1, <3>2 DEF Top
  <2> QED BY <2>1 DEF IInv, Covered
<1> QED
  BY <1>1, Inductive, PTL

\* NoLockCycle: hosts that run, walk, create and call back never wait for each
\* other's threads_lock and runtime_locks in a circle.
THEOREM LocksOrdered == Spec => []NoLockCycle
<1>1. IInv => NoLockCycle
  <2> SUFFICES ASSUME IInv
               PROVE  NoLockCycle
    OBVIOUS
  <2>1. ASSUME NEW h \in Host, NEW g \in WaitsFor(h)
        PROVE  /\ g \in Host /\ calls[h] # <<>> /\ calls[g] # <<>>
               /\ \/ Top(h).at \in {"LOCK", "PUBLISH"} /\ Top(g).at = "WALK"
                  \/ Top(h).at \in {"LOOP", "WALK"} /\ Top(g).at = "SEGMENT"
    <3>1. calls[h] # <<>> /\ g # NoHost
      BY <2>1 DEF WaitsFor
    <3>2. WellFormed(Top(h)) /\ Top(h) \in CallRecord
      BY <3>1, TopTyped DEF IInv
    <3>3. CASE Top(h).at \in {"LOCK", "PUBLISH"} /\ g = threadsLock
      BY <3>1, <3>3 DEF IInv, Typed, LockOwners
    <3>4. ASSUME NEW t \in Thread, g = runtimeLock[t],
                 At(h, "RUN", "LOOP") \/ t \in Top(h).todo
          PROVE  /\ g \in Host /\ calls[g] # <<>> /\ Top(g).at = "SEGMENT"
                 /\ Top(h).at \in {"LOOP", "WALK"}
      <4>1. g \in Host
        BY <3>1, <3>4 DEF IInv, Typed
      <4>2. calls[g] # <<>> /\ Top(g).at = "SEGMENT"
        BY <3>4, <4>1 DEF IInv, LockOwners, At
      <4>3. Top(h).at \in {"LOOP", "WALK"}
        BY <3>2, <3>4 DEF At, WellFormed
      <4> QED BY <4>1, <4>2, <4>3
    <3>5. \/ Top(h).at \in {"LOCK", "PUBLISH"} /\ g = threadsLock
          \/ \E t \in (IF At(h, "RUN", "LOOP") THEN Top(h).thread ELSE Top(h).todo) :
                g = runtimeLock[t]
      BY <2>1, <3>1 DEF WaitsFor
    <3>6. Top(h).thread \subseteq Thread /\ Top(h).todo \subseteq Thread
      BY <3>2 DEF CallRecord
    <3> QED BY <3>1, <3>3, <3>4, <3>5, <3>6
  <2>2. ASSUME NEW h \in Host, h \in WaitsFor(h)
        PROVE  FALSE
    BY <2>1, <2>2
  <2>3. ASSUME NEW h \in Host, NEW g \in WaitsFor(h), h \in WaitsFor(g)
        PROVE  FALSE
    <3>1. g \in Host
      BY <2>1, <2>3
    <3>2. \/ Top(h).at \in {"LOCK", "PUBLISH"} /\ Top(g).at = "WALK"
          \/ Top(h).at \in {"LOOP", "WALK"} /\ Top(g).at = "SEGMENT"
      BY <2>1, <2>3
    <3>3. \/ Top(g).at \in {"LOCK", "PUBLISH"} /\ Top(h).at = "WALK"
          \/ Top(g).at \in {"LOOP", "WALK"} /\ Top(h).at = "SEGMENT"
      BY <2>1, <2>3, <3>1
    <3> QED BY <3>2, <3>3
  <2> QED BY <2>2, <2>3 DEF NoLockCycle
<1> QED
  BY <1>1, Inductive, PTL

-----------------------------------------------------------------------------
(* Storage outlives its users, as long as no callback destroys the thread it *)
(* runs on.                                                                   *)

\* The calls of h that hold the run_lock of t.
Uses(h, t) == {i \in 1 .. Len(calls[h]) :
                 calls[h][i].op \in {"RUN", "DESTROY"} /\ calls[h][i].thread = {t}}

\* A run_lock is as deep as its owner has calls that hold it.
Counted ==
    \A t \in Thread :
        /\ \A h \in Host : h # runLock[t].owner => Uses(h, t) = {}
        /\ \A h \in Host : h = runLock[t].owner => runLock[t].depth = Cardinality(Uses(h, t))
        /\ runLock[t].owner = NoHost => runLock[t].depth = 0

\* A thread in use is alive, and one about to be freed is used by nothing else.
UsedAlive == \A h \in Host, t \in Thread : Uses(h, t) # {} => status[t] = "LIVE"
FreesAlone ==
    \A h \in Host, t \in Thread :
        calls[h] # <<>> /\ Top(h).op = "DESTROY" /\ Top(h).thread = {t} =>
            Uses(h, t) = {Len(calls[h])}

Held == Counted /\ UsedAlive /\ FreesAlone

\* The calls that use a thread can be counted.
LEMMA UsesFinite ==
    ASSUME Typed, NEW h \in Host, NEW t \in Thread
    PROVE  /\ IsFiniteSet(Uses(h, t)) /\ Cardinality(Uses(h, t)) \in Nat
           /\ Cardinality(Uses(h, t)) = 0 <=> Uses(h, t) = {}
<1>1. Len(calls[h]) \in Nat
  BY LenProperties DEF Typed
<1>2. IsFiniteSet(1 .. Len(calls[h]))
  BY <1>1, FS_Interval
<1>3. Uses(h, t) \subseteq 1 .. Len(calls[h])
  BY DEF Uses
<1>4. IsFiniteSet(Uses(h, t))
  BY <1>2, <1>3, FS_Subset
<1> QED
  BY <1>4, FS_EmptySet, FS_CardinalityType

\* A nested call is a use of its thread when it holds the run_lock.
LEMMA PushUses ==
    ASSUME Typed, NEW h \in Host, NEW call \in CallRecord, Push(h, call)
    PROVE  /\ \A t \in Thread : Len(calls'[h]) \notin Uses(h, t)
           /\ \A g \in Host, t \in Thread :
                Uses(g, t)' = IF g = h /\ call.op \in {"RUN", "DESTROY"} /\ call.thread = {t}
                              THEN Uses(g, t) \cup {Len(calls'[h])} ELSE Uses(g, t)
<1>1. /\ Others(h) /\ Len(calls[h]) \in Nat /\ Len(calls'[h]) = Len(calls[h]) + 1
      /\ \A i \in 1 .. Len(calls[h]) : calls'[h][i] = calls[h][i]
      /\ calls'[h][Len(calls[h]) + 1] = call
  BY PushView
<1>2. \A t \in Thread : Len(calls'[h]) \notin Uses(h, t)
  BY <1>1 DEF Uses
<1>3. ASSUME NEW g \in Host, NEW t \in Thread, g # h
      PROVE  Uses(g, t)' = Uses(g, t)
  BY <1>1, <1>3 DEF Uses, Others
<1>4. ASSUME NEW t \in Thread
      PROVE  Uses(h, t)' = IF call.op \in {"RUN", "DESTROY"} /\ call.thread = {t}
                           THEN Uses(h, t) \cup {Len(calls'[h])} ELSE Uses(h, t)
  <2>1. \A i : i \in 1 .. Len(calls'[h]) <=> i \in 1 .. Len(calls[h]) \/ i = Len(calls[h]) + 1
    BY <1>1
  <2>2. Len(calls[h]) + 1 \notin 1 .. Len(calls[h])
    BY <1>1
  <2>3. \A i : i \in Uses(h, t)' <=>
            \/ i \in Uses(h, t)
            \/ i = Len(calls'[h]) /\ call.op \in {"RUN", "DESTROY"} /\ call.thread = {t}
    BY <1>1, <2>1, <2>2 DEF Uses
  <2> QED BY <2>3
<1> QED
  BY <1>2, <1>3, <1>4

\* A return ends the use.
LEMMA PopUses ==
    ASSUME Typed, NEW h \in Host, calls[h] # <<>>, Pop(h)
    PROVE  /\ \A t \in Thread : Uses(h, t)' = Uses(h, t) \ {Len(calls[h])}
           /\ \A g \in Host, t \in Thread : g # h => Uses(g, t)' = Uses(g, t)
<1>1. /\ Others(h) /\ Len(calls[h]) \in Nat \ {0} /\ Len(calls'[h]) = Len(calls[h]) - 1
      /\ \A i \in 1 .. Len(calls[h]) - 1 : calls'[h][i] = calls[h][i]
  BY PopView
<1>2. ASSUME NEW g \in Host, NEW t \in Thread, g # h
      PROVE  Uses(g, t)' = Uses(g, t)
  BY <1>1, <1>2 DEF Uses, Others
<1>3. ASSUME NEW t \in Thread
      PROVE  Uses(h, t)' = Uses(h, t) \ {Len(calls[h])}
  <2>1. \A i : i \in 1 .. Len(calls'[h]) <=> i \in 1 .. Len(calls[h]) /\ i # Len(calls[h])
    BY <1>1
  <2>2. \A i : i \in 1 .. Len(calls'[h]) => calls'[h][i] = calls[h][i]
    BY <1>1
  <2>3. \A i : i \in Uses(h, t)' <=> i \in Uses(h, t) /\ i # Len(calls[h])
    BY <2>1, <2>2 DEF Uses
  <2> QED BY <2>3
<1> QED
  BY <1>2, <1>3

\* A call that goes on about the same thread is as much of a use as before.
LEMMA UpdateUses ==
    ASSUME Typed, NEW h \in Host, calls[h] # <<>>, NEW call \in CallRecord, Update(h, call),
           call.op = Top(h).op, call.thread = Top(h).thread
    PROVE  \A g \in Host, t \in Thread : Uses(g, t)' = Uses(g, t)
<1>1. /\ Others(h) /\ Len(calls[h]) \in Nat \ {0} /\ Len(calls'[h]) = Len(calls[h])
      /\ \A i \in 1 .. Len(calls[h]) - 1 : calls'[h][i] = calls[h][i]
      /\ calls'[h][Len(calls[h])] = call
  BY UpdateView
<1>2. ASSUME NEW g \in Host, NEW t \in Thread, g # h
      PROVE  Uses(g, t)' = Uses(g, t)
  BY <1>1, <1>2 DEF Uses, Others
<1>3. ASSUME NEW t \in Thread
      PROVE  Uses(h, t)' = Uses(h, t)
  <2>1. \A i \in 1 .. Len(calls[h]) : /\ calls'[h][i].op = calls[h][i].op
                                      /\ calls'[h][i].thread = calls[h][i].thread
    BY <1>1 DEF Top
  <2> QED BY <1>1, <2>1 DEF Uses
<1> QED
  BY <1>2, <1>3

\* What is held stays held when no use, no lock and no live thread changes.
LEMMA HeldKept ==
    ASSUME Held, NEW h \in Host, OthersSame(h), UNCHANGED runLock,
           \A g \in Host, t \in Thread : Uses(g, t)' = Uses(g, t),
           \A t \in Thread : status[t] = "LIVE" => status'[t] = "LIVE",
           calls'[h] # <<>> => Top(h)'.op # "DESTROY"
    PROVE  Held'
<1>1. Counted'
  BY DEF Held, Counted
<1>2. UsedAlive'
  BY DEF Held, UsedAlive
<1>3. FreesAlone'
  BY DEF Held, FreesAlone, OthersSame
<1> QED
  BY <1>1, <1>2, <1>3 DEF Held

\* A nested call that locks no thread.
LEMMA PushHeld ==
    ASSUME Typed, Held, NEW h \in Host, NEW call \in CallRecord, Push(h, call),
           call.op \notin {"RUN", "DESTROY"}, UNCHANGED runLock,
           \A t \in Thread : status[t] = "LIVE" => status'[t] = "LIVE"
    PROVE  Held'
<1>1. OthersSame(h) /\ Top(h)' = call
  BY PushView DEF OthersSame, Others, Top
<1>2. \A g \in Host, t \in Thread : Uses(g, t)' = Uses(g, t)
  BY PushUses
<1> QED
  BY <1>1, <1>2, HeldKept

\* A call in progress that frees no thread.
LEMMA UpdateHeld ==
    ASSUME Typed, Held, NEW h \in Host, calls[h] # <<>>, NEW call \in CallRecord,
           Update(h, call), call.op = Top(h).op, call.thread = Top(h).thread,
           call.op # "DESTROY", UNCHANGED <<runLock, status>>
    PROVE  Held'
<1>1. OthersSame(h) /\ Top(h)' = call
  BY UpdateView DEF OthersSame, Others, Top
<1>2. \A g \in Host, t \in Thread : Uses(g, t)' = Uses(g, t)
  BY UpdateUses
<1> QED
  BY <1>1, <1>2, HeldKept

\* The return of a call that locked no thread.
LEMMA PopHeld ==
    ASSUME Typed, CallShapes, Held, NEW h \in Host, calls[h] # <<>>, Pop(h),
           Top(h).op \notin {"RUN", "DESTROY"}, UNCHANGED runLock,
           \A t \in Thread : status[t] = "LIVE" => status'[t] = "LIVE"
    PROVE  Held'
<1>1. OthersSame(h) /\ (calls'[h] # <<>> => Top(h)'.op # "DESTROY")
  BY PopTop
<1>2. \A t \in Thread : Len(calls[h]) \notin Uses(h, t)
  BY DEF Uses, Top
<1>3. \A g \in Host, t \in Thread : Uses(g, t)' = Uses(g, t)
  <2>1. \A t \in Thread : Uses(h, t) \ {Len(calls[h])} = Uses(h, t)
    BY <1>2
  <2> QED BY <2>1, PopUses
<1> QED
  BY <1>1, <1>3, HeldKept

\* gem_wine_thread_run and gem_wine_thread_destroy lock the thread's run_lock.
LEMMA LockHeld ==
    ASSUME IInv, Held, NEW h \in Host, NEW t \in Thread, NEW call \in CallRecord, Push(h, call),
           call.op \in {"RUN", "DESTROY"}, call.thread = {t},
           t \in threads, TryRunLock(h, t), runLock' = RunLocked(h, t), UNCHANGED status,
           call.op = "DESTROY" => Uses(h, t) = {}
    PROVE  Held'
<1>1. OthersSame(h) /\ Top(h)' = call
  BY PushView DEF OthersSame, Others, Top, IInv
<1>2. /\ Len(calls'[h]) \notin Uses(h, t)
      /\ Uses(h, t)' = Uses(h, t) \cup {Len(calls'[h])}
      /\ \A g \in Host, u \in Thread : g # h \/ u # t => Uses(g, u)' = Uses(g, u)
  BY PushUses DEF IInv
<1>3. IsFiniteSet(Uses(h, t))
  BY UsesFinite DEF IInv
<1>4. Cardinality(Uses(h, t)') = Cardinality(Uses(h, t)) + 1
  BY <1>2, <1>3, FS_AddElement
<1>5. runLock[t].owner \in {NoHost, h} /\ h # NoHost /\ runLock[t].depth \in Int
  BY LifecycleAssumption DEF TryRunLock, IInv, Typed, Lock
<1>6. runLock[t].depth = Cardinality(Uses(h, t))
  BY <1>5, UsesFinite DEF Held, Counted, IInv
<1>7. /\ runLock'[t].owner = h /\ runLock'[t].depth = runLock[t].depth + 1
      /\ \A u \in Thread : u # t => runLock'[u] = runLock[u]
  BY DEF RunLocked, IInv, Typed
<1>8. Counted'
  <2> SUFFICES ASSUME NEW u \in Thread
               PROVE  /\ \A g \in Host : g # runLock'[u].owner => Uses(g, u)' = {}
                      /\ \A g \in Host : g = runLock'[u].owner =>
                                           runLock'[u].depth = Cardinality(Uses(g, u)')
                      /\ runLock'[u].owner = NoHost => runLock'[u].depth = 0
    BY DEF Counted
  <2>1. CASE u = t
    <3>1. \A g \in Host : g # h => Uses(g, t) = {}
      BY <1>5, LifecycleAssumption DEF Held, Counted
    <3> QED BY <1>2, <1>4, <1>5, <1>6, <1>7, <2>1, <3>1
  <2>2. CASE u # t
    BY <1>2, <1>7, <2>2 DEF Held, Counted
  <2> QED BY <2>1, <2>2
<1>9. UsedAlive'
  <2>1. status[t] = "LIVE"
    BY DEF IInv, Storage
  <2> QED BY <1>2, <2>1 DEF Held, UsedAlive
<1>10. FreesAlone'
  <2> SUFFICES ASSUME NEW g \in Host, NEW u \in Thread, calls'[g] # <<>>,
                      Top(g)'.op = "DESTROY", Top(g)'.thread = {u}
               PROVE  Uses(g, u)' = {Len(calls'[g])}
    BY DEF FreesAlone
  <2>1. CASE g = h
    BY <1>1, <1>2, <2>1
  <2>2. CASE g # h
    BY <1>1, <1>2, <2>2 DEF Held, FreesAlone, OthersSame
  <2> QED BY <2>1, <2>2
<1> QED
  BY <1>8, <1>9, <1>10 DEF Held

\* Their return unlocks it, the last one for other hosts too.
LEMMA UnlockCounted ==
    ASSUME IInv, Held, NEW h \in Host, NEW t \in Thread, calls[h] # <<>>, Pop(h),
           Top(h).op \in {"RUN", "DESTROY"}, Top(h).thread = {t}, runLock' = RunUnlocked(t)
    PROVE  /\ Counted' /\ runLock[t].owner = h
           /\ \A g \in Host, u \in Thread : Uses(g, u)' \subseteq Uses(g, u)
           /\ Uses(h, t)' = Uses(h, t) \ {Len(calls[h])}
           /\ \A g \in Host, u \in Thread : g # h => Uses(g, u)' = Uses(g, u)
<1>1. Len(calls[h]) \in Uses(h, t) /\ \A u \in Thread : u # t => Len(calls[h]) \notin Uses(h, u)
  BY TopTyped DEF Uses, Top, IInv
<1>2. /\ Uses(h, t)' = Uses(h, t) \ {Len(calls[h])}
      /\ \A g \in Host, u \in Thread : g # h \/ u # t => Uses(g, u)' = Uses(g, u)
  <2>1. \A u \in Thread : u # t => Uses(h, u) \ {Len(calls[h])} = Uses(h, u)
    BY <1>1
  <2> QED BY <2>1, PopUses DEF IInv
<1>3. runLock[t].owner = h
  BY <1>1 DEF Held, Counted
<1>4. IsFiniteSet(Uses(h, t)) /\ Cardinality(Uses(h, t)) \in Nat
  BY UsesFinite DEF IInv
<1>5. Cardinality(Uses(h, t)') = Cardinality(Uses(h, t)) - 1 /\ IsFiniteSet(Uses(h, t)')
  <2> DEFINE U == Uses(h, t)
             x == Len(calls[h])
  <2>1. IsFiniteSet(U) /\ x \in U
    BY <1>1, <1>4
  <2>2. Uses(h, t)' = U \ {x}
    BY <1>2
  <2> HIDE DEF U, x
  <2>3. Cardinality(U \ {x}) = Cardinality(U) - 1 /\ IsFiniteSet(U \ {x})
    BY <2>1, FS_RemoveElement
  <2> QED BY <2>2, <2>3 DEF U
<1>6. runLock[t].depth = Cardinality(Uses(h, t))
  BY <1>3 DEF Held, Counted
<1>7. \A u \in Thread : u # t => runLock'[u] = runLock[u]
  BY DEF RunUnlocked, IInv, Typed
<1>8. Counted'
  <2> SUFFICES ASSUME NEW u \in Thread
               PROVE  /\ \A g \in Host : g # runLock'[u].owner => Uses(g, u)' = {}
                      /\ \A g \in Host : g = runLock'[u].owner =>
                                           runLock'[u].depth = Cardinality(Uses(g, u)')
                      /\ runLock'[u].owner = NoHost => runLock'[u].depth = 0
    BY DEF Counted
  <2>1. \A g \in Host : g # h => Uses(g, t)' = {}
    BY <1>2, <1>3 DEF Held, Counted
  <2>2. h # NoHost /\ NoHost \notin Host
    BY LifecycleAssumption
  <2>3. CASE u = t /\ runLock[t].depth = 1
    <3>1. runLock'[t].owner = NoHost /\ runLock'[t].depth = 0
      BY <2>3 DEF RunUnlocked, Unlocked, IInv, Typed
    <3>2. Uses(h, t)' = {}
      BY <1>4, <1>5, <1>6, <2>3, FS_EmptySet
    <3> QED BY <2>1, <2>2, <2>3, <3>1, <3>2
  <2>4. CASE u = t /\ runLock[t].depth # 1
    <3>1. runLock'[t].owner = h /\ runLock'[t].depth = runLock[t].depth - 1
      BY <1>3, <2>4 DEF RunUnlocked, IInv, Typed
    <3> QED BY <1>5, <1>6, <2>1, <2>2, <2>4, <3>1
  <2>5. CASE u # t
    BY <1>2, <1>7, <2>5 DEF Held, Counted
  <2> QED BY <2>3, <2>4, <2>5
<1> QED
  BY <1>2, <1>3, <1>8

\* A run that changes where it is.
LEMMA RunMovesHeld ==
    ASSUME IInv, Held, NEW h \in Host, calls[h] # <<>>, Top(h).op = "RUN",
           NEW at \in {"LOOP", "SEGMENT", "CALLBACK"}, Update(h, [Top(h) EXCEPT !.at = at]),
           UNCHANGED <<runLock, status>>
    PROVE  Held'
<1> DEFINE call == [Top(h) EXCEPT !.at = at]
<1>1. Top(h) \in CallRecord
  BY TopTyped DEF IInv
<1>2. call \in CallRecord /\ call.op = "RUN" /\ call.thread = Top(h).thread
  BY <1>1 DEF CallRecord
<1>3. Update(h, call)
  OBVIOUS
<1> HIDE DEF call
<1> QED
  BY <1>2, <1>3, UpdateHeld DEF IInv

\* Preparing, registering, invalidating and walking.
LEMMA ProcessHeld ==
    ASSUME IInv, Held, NEW h \in Host,
           \/ PrepareX86_64(h) \/ PrepareI386(h) \/ RegisterDeferred(h)
           \/ \E register \in BOOLEAN : Prepare(h, register)
           \/ PrepareStore(h) \/ Invalidate(h) \/ WalkStart(h) \/ WalkEnd(h)
           \/ \E t \in Thread : WalkThread(h, t)
    PROVE  Held'
<1>1. CASE PrepareX86_64(h) \/ PrepareI386(h) \/ RegisterDeferred(h)
  <2>1. UNCHANGED <<calls, runLock, status>>
    BY <1>1 DEF PrepareX86_64, PrepareI386, RegisterDeferred, objects
  <2>2. \A g \in Host : calls'[g] = calls[g] /\ Top(g)' = Top(g)
    BY <2>1 DEF Top
  <2>3. \A g \in Host, t \in Thread : Uses(g, t)' = Uses(g, t)
    BY <2>1 DEF Uses
  <2> QED BY <2>1, <2>2, <2>3 DEF Held, Counted, UsedAlive, FreesAlone
<1>2. ASSUME NEW register \in BOOLEAN, Prepare(h, register)
      PROVE  Held'
  <2> DEFINE call == NewCall("PREPARE", {}, "STORE")
  <2>1. call \in CallRecord /\ call.op = "PREPARE"
    BY DEF NewCall, CallRecord, Operations
  <2>2. Push(h, call) /\ UNCHANGED <<runLock, status>>
    BY <1>2 DEF Prepare, objects
  <2> HIDE DEF call
  <2> QED BY <2>1, <2>2, PushHeld DEF IInv
<1>3. CASE Invalidate(h)
  <2> DEFINE call == NewCall("INVALIDATE", {}, "LOCK")
  <2>1. call \in CallRecord /\ call.op = "INVALIDATE"
    BY DEF NewCall, CallRecord, Operations
  <2>2. Push(h, call) /\ UNCHANGED <<runLock, status>>
    BY <1>3 DEF Invalidate, objects
  <2> HIDE DEF call
  <2> QED BY <2>1, <2>2, PushHeld DEF IInv
<1>4. CASE PrepareStore(h)
  <2> DEFINE call == [Top(h) EXCEPT !.at = "LOCK"]
  <2>1. calls[h] # <<>> /\ Top(h).op = "PREPARE" /\ Top(h) \in CallRecord
    BY <1>4, TopTyped DEF PrepareStore, At, IInv
  <2>2. call \in CallRecord /\ call.op = Top(h).op /\ call.thread = Top(h).thread
    BY <2>1 DEF CallRecord
  <2>3. Update(h, call) /\ UNCHANGED <<runLock, status>>
    BY <1>4 DEF PrepareStore, objects
  <2> HIDE DEF call
  <2> QED BY <2>1, <2>2, <2>3, UpdateHeld DEF IInv
<1>5. CASE WalkStart(h)
  <2> DEFINE call == [Top(h) EXCEPT !.at = "WALK", !.todo = threads]
  <2>1. calls[h] # <<>> /\ Top(h).at = "LOCK"
    BY <1>5 DEF WalkStart
  <2>2. Top(h) \in CallRecord /\ WellFormed(Top(h)) /\ threads \in SUBSET Thread
    BY <2>1, TopTyped DEF IInv, Typed
  <2>3. Top(h).op # "DESTROY"
    BY <2>1, <2>2 DEF WellFormed
  <2>4. call \in CallRecord /\ call.op = Top(h).op /\ call.thread = Top(h).thread
    BY Zenon, <2>2 DEF CallRecord
  <2>5. Update(h, call) /\ UNCHANGED <<runLock, status>>
    BY <1>5 DEF WalkStart, objects
  <2> HIDE DEF call
  <2> QED BY <2>1, <2>3, <2>4, <2>5, UpdateHeld DEF IInv
<1>6. ASSUME NEW t \in Thread, WalkThread(h, t)
      PROVE  Held'
  <2> DEFINE call == [Top(h) EXCEPT !.todo = IF Top(h).op = "PREPARE" /\ kind[t] = "I386"
                                             THEN {} ELSE @ \ {t}]
  <2>1. calls[h] # <<>> /\ Top(h).at = "WALK"
    BY <1>6 DEF WalkThread
  <2>2. Top(h) \in CallRecord /\ WellFormed(Top(h))
    BY <2>1, TopTyped DEF IInv
  <2>3. Top(h).op # "DESTROY"
    BY <2>1, <2>2 DEF WellFormed
  <2>4. call \in CallRecord /\ call.op = Top(h).op /\ call.thread = Top(h).thread
    BY <2>2 DEF CallRecord
  <2>5. Update(h, call) /\ UNCHANGED <<runLock, status>>
    BY <1>6 DEF WalkThread
  <2> HIDE DEF call
  <2> QED BY <2>1, <2>3, <2>4, <2>5, UpdateHeld DEF IInv
<1>7. CASE WalkEnd(h)
  <2>1. calls[h] # <<>> /\ Top(h).at = "WALK" /\ Pop(h) /\ UNCHANGED <<runLock, status>>
    BY <1>7 DEF WalkEnd, objects
  <2>2. Top(h).op \notin {"RUN", "DESTROY"}
    BY <2>1, TopTyped DEF IInv, WellFormed
  <2> QED BY <2>1, <2>2, PopHeld DEF IInv
<1> QED
  BY <1>1, <1>2, <1>3, <1>4, <1>5, <1>6, <1>7

\* Creating, running and destroying, and the next process.  That no callback
\* destroys the thread it runs on is what FreesAlone needs.
LEMMA ThreadHeld ==
    ASSUME ~SelfDestroy, IInv, Held, NEW h \in Host,
           \/ Publish(h) \/ Free(h) \/ SegmentBegin(h) \/ CallbackEnd(h) \/ RunEnd(h)
           \/ \E at \in {"LOOP", "CALLBACK"} : SegmentEnd(h, at)
           \/ \E t \in Thread : Create(h, t) \/ Destroy(h, t) \/ Run(h, t)
           \/ Recreate
    PROVE  Held'
<1>1. CASE SegmentBegin(h)
  <2>1. /\ calls[h] # <<>> /\ Top(h).op = "RUN" /\ Update(h, [Top(h) EXCEPT !.at = "SEGMENT"])
        /\ UNCHANGED <<runLock, status>>
    BY <1>1 DEF SegmentBegin, At, objects
  <2> QED BY <2>1, RunMovesHeld
<1>2. ASSUME NEW at \in {"LOOP", "CALLBACK"}, SegmentEnd(h, at)
      PROVE  Held'
  <2>1. /\ calls[h] # <<>> /\ Top(h).op = "RUN" /\ Update(h, [Top(h) EXCEPT !.at = at])
        /\ UNCHANGED <<runLock, status>>
    BY <1>2 DEF SegmentEnd, At, objects
  <2> QED BY <2>1, RunMovesHeld
<1>3. CASE CallbackEnd(h)
  <2>1. /\ calls[h] # <<>> /\ Top(h).op = "RUN" /\ Update(h, [Top(h) EXCEPT !.at = "LOOP"])
        /\ UNCHANGED <<runLock, status>>
    BY <1>3 DEF CallbackEnd, At, objects
  <2> QED BY <2>1, RunMovesHeld
<1>4. ASSUME NEW t \in Thread, Create(h, t)
      PROVE  Held'
  <2> DEFINE call == NewCall("CREATE", {t}, "PUBLISH")
  <2>1. call \in CallRecord /\ call.op = "CREATE"
    BY DEF NewCall, CallRecord, Operations
  <2>2. Push(h, call) /\ UNCHANGED runLock
    BY <1>4 DEF Create
  <2>3. \A u \in Thread : status[u] = "LIVE" => status'[u] = "LIVE"
    BY <1>4 DEF Create, IInv, Typed
  <2> HIDE DEF call
  <2> QED BY <2>1, <2>2, <2>3, PushHeld DEF IInv
<1>5. CASE Publish(h)
  <2>1. calls[h] # <<>> /\ Top(h).op = "CREATE" /\ Pop(h) /\ UNCHANGED runLock
    BY <1>5 DEF Publish, At
  <2>2. \A u \in Thread : status[u] = "LIVE" => status'[u] = "LIVE"
    BY <1>5 DEF Publish, IInv, Typed
  <2> QED BY <2>1, <2>2, PopHeld DEF IInv
<1>6. ASSUME NEW t \in Thread, Destroy(h, t)
      PROVE  Held'
  <2> DEFINE call == NewCall("DESTROY", {t}, "FREE")
  <2>1. call \in CallRecord /\ call.op = "DESTROY" /\ call.thread = {t}
    BY DEF NewCall, CallRecord, Operations
  <2>2. /\ Push(h, call) /\ t \in threads /\ TryRunLock(h, t) /\ runLock' = RunLocked(h, t)
        /\ UNCHANGED status
    BY <1>6 DEF Destroy
  <2>3. Uses(h, t) = {}
    BY <1>6 DEF Destroy, Uses
  <2> HIDE DEF call
  <2> QED BY <2>1, <2>2, <2>3, LockHeld
<1>7. ASSUME NEW t \in Thread, Run(h, t)
      PROVE  Held'
  <2> DEFINE call == NewCall("RUN", {t}, "LOOP")
  <2>1. call \in CallRecord /\ call.op = "RUN" /\ call.thread = {t}
    BY DEF NewCall, CallRecord, Operations
  <2>2. /\ Push(h, call) /\ t \in threads /\ TryRunLock(h, t) /\ runLock' = RunLocked(h, t)
        /\ UNCHANGED status
    BY <1>7 DEF Run, objects
  <2> HIDE DEF call
  <2> QED BY <2>1, <2>2, LockHeld
<1>8. CASE Free(h) \/ RunEnd(h)
  <2>1. calls[h] # <<>> /\ Top(h).op \in {"RUN", "DESTROY"} /\ Pop(h)
    BY <1>8 DEF Free, RunEnd, At
  <2>2. PICK t \in Thread : Top(h).thread = {t}
    BY <2>1, TopTyped DEF IInv, WellFormed
  <2>3. runLock' = RunUnlocked(t)
    BY <1>8, <2>2, TheOne DEF Free, RunEnd
  <2>4. /\ Counted' /\ runLock[t].owner = h
        /\ \A g \in Host, u \in Thread : Uses(g, u)' \subseteq Uses(g, u)
        /\ Uses(h, t)' = Uses(h, t) \ {Len(calls[h])}
        /\ \A g \in Host, u \in Thread : g # h => Uses(g, u)' = Uses(g, u)
    BY <2>1, <2>2, <2>3, UnlockCounted
  <2>5. OthersSame(h) /\ (calls'[h] # <<>> => Top(h)'.op # "DESTROY")
    BY <2>1, PopTop DEF IInv
  <2>6. FreesAlone'
    BY <2>4, <2>5 DEF Held, FreesAlone, OthersSame
  <2>7. \A g \in Host, u \in Thread : Uses(g, u)' # {} => status[u] = "LIVE"
    BY <2>4 DEF Held, UsedAlive
  <2>8. UsedAlive'
    <3>1. CASE RunEnd(h)
      BY <2>7, <3>1 DEF UsedAlive, RunEnd, objects
    <3>2. CASE Free(h)
      <4>1. Top(h).op = "DESTROY" /\ status' = [status EXCEPT ![t] = "FREED"]
        BY <2>2, <3>2, TheOne DEF Free, At
      <4>2. Uses(h, t) = {Len(calls[h])}
        BY <2>1, <2>2, <4>1 DEF Held, FreesAlone
      <4>3. \A g \in Host : Uses(g, t)' = {}
        BY <2>4, <4>2 DEF Held, Counted
      <4> QED BY <2>7, <4>1, <4>3 DEF UsedAlive, IInv, Typed
    <3> QED BY <1>8, <3>1, <3>2
  <2> QED BY <2>4, <2>6, <2>8 DEF Held
<1>9. CASE Recreate
  <2>1. \A g \in Host : calls[g] = <<>> /\ calls'[g] = <<>>
    BY <1>9 DEF Recreate, Quiet
  <2>2. \A g \in Host, u \in Thread : Uses(g, u) = {} /\ Uses(g, u)' = {}
    BY <2>1, EmptySeq DEF Uses
  <2>3. runLock' = runLock
    BY <1>9 DEF Recreate
  <2>4. Counted'
    <3>1. \A g \in Host, u \in Thread : Uses(g, u)' = Uses(g, u)
      BY <2>2
    <3> QED BY <2>3, <3>1 DEF Held, Counted
  <2>5. UsedAlive'
    BY <2>2 DEF UsedAlive
  <2>6. FreesAlone'
    BY <2>1 DEF FreesAlone
  <2> QED BY <2>4, <2>5, <2>6 DEF Held
<1> QED
  BY <1>1, <1>2, <1>3, <1>4, <1>5, <1>6, <1>7, <1>8, <1>9

\* No storage is in use initially.
LEMMA HeldInitially == Init => Held
<1> SUFFICES ASSUME Init
             PROVE  Held
  OBVIOUS
<1>1. \A g \in Host : calls[g] = <<>>
  BY DEF Init
<1>2. \A g \in Host, u \in Thread : Uses(g, u) = {}
  BY <1>1, EmptySeq DEF Uses
<1> QED
  BY <1>1, <1>2, LifecycleAssumption DEF Init, Held, Counted, UsedAlive, FreesAlone, Unlocked

\* Every step keeps the counts of the calls that use a thread exact.
LEMMA HeldInductive == ~SelfDestroy /\ IInv /\ Held /\ [Next]_vars => Held'
<1> SUFFICES ASSUME ~SelfDestroy, IInv, Held, [Next]_vars
             PROVE  Held'
  OBVIOUS
<1>1. CASE UNCHANGED vars
  <2>1. UNCHANGED <<calls, runLock, status>>
    BY <1>1 DEF vars
  <2>2. \A g \in Host : calls'[g] = calls[g] /\ Top(g)' = Top(g)
    BY <2>1 DEF Top
  <2>3. \A g \in Host, t \in Thread : Uses(g, t)' = Uses(g, t)
    BY <2>1 DEF Uses
  <2> QED BY <2>1, <2>2, <2>3 DEF Held, Counted, UsedAlive, FreesAlone
<1>2. CASE Recreate
  <2>1. PICK h \in Host : TRUE
    BY LifecycleAssumption
  <2> QED BY <1>2, <2>1, ThreadHeld
<1>3. CASE Next /\ ~Recreate
  <2>1. PICK h \in Host :
          \/ PrepareX86_64(h) \/ PrepareI386(h) \/ RegisterDeferred(h)
          \/ \E register \in BOOLEAN : Prepare(h, register)
          \/ PrepareStore(h) \/ Invalidate(h) \/ WalkStart(h) \/ WalkEnd(h)
          \/ Publish(h) \/ Free(h)
          \/ SegmentBegin(h) \/ CallbackEnd(h) \/ RunEnd(h)
          \/ \E at \in {"LOOP", "CALLBACK"} : SegmentEnd(h, at)
          \/ \E t \in Thread : WalkThread(h, t) \/ Create(h, t) \/ Destroy(h, t) \/ Run(h, t)
    BY Zenon, <1>3 DEF Next
  <2> QED BY Zenon, <2>1, ProcessHeld, ThreadHeld
<1> QED
  BY <1>1, <1>2, <1>3

\* UsedThreadsAreAlive: as long as no callback destroys the thread it runs on
\* (gem_wine_thread_destroy's trylock of a recursive run_lock lets it), no run and
\* no walk of the thread list touches a thread whose storage has been freed.
THEOREM StorageOutlivesUse ==
    ASSUME ~SelfDestroy
    PROVE  Spec => []UsedThreadsAreAlive
<1>1. IInv /\ Held => UsedThreadsAreAlive
  <2> SUFFICES ASSUME IInv, Held, NEW h \in Host, NEW i \in 1 .. Len(calls[h])
               PROVE  /\ calls[h][i].op = "RUN" => status[The(calls[h][i].thread)] = "LIVE"
                      /\ \A t \in calls[h][i].todo : status[t] = "LIVE" /\ t \in threads
    BY DEF UsedThreadsAreAlive
  <2>1. ASSUME calls[h][i].op = "RUN"
        PROVE  status[The(calls[h][i].thread)] = "LIVE"
    <3>1. PICK t \in Thread : calls[h][i].thread = {t}
      BY <2>1 DEF IInv, CallShapes, WellFormed
    <3>2. i \in Uses(h, t)
      BY <2>1, <3>1 DEF Uses
    <3>3. status[t] = "LIVE"
      BY <3>2 DEF Held, UsedAlive
    <3> QED BY <3>1, <3>3, TheOne
  <2>2. ASSUME NEW t \in calls[h][i].todo
        PROVE  status[t] = "LIVE" /\ t \in threads
    <3>1. ~(i < Len(calls[h]))
      BY <2>2 DEF IInv, CallShapes, WellFormed
    <3>2. Len(calls[h]) \in Nat
      BY LenProperties DEF IInv, Typed
    <3>3. calls[h] # <<>> /\ Top(h) = calls[h][i]
      BY <3>1, <3>2, EmptySeq DEF Top
    <3> QED BY <2>2, <3>3 DEF IInv, Storage
  <2> QED BY <2>1, <2>2
<1>2. Init => Held
  BY HeldInitially
<1>3. IInv /\ Held /\ [Next]_vars => Held'
  BY HeldInductive
<1> QED
  BY <1>1, <1>2, <1>3, Inductive, PTL DEF Spec

-----------------------------------------------------------------------------
(* The run loops (WineRun).                                                 *)

\* The coordinator has frames only while it is bound, and its top frame belongs
\* to the one run of the thread whose context names it.
FramesOwned ==
    /\ ~bound => frames = <<>>
    /\ \A i \in 1 .. Len(runs) : runs[i].context.cookie # 0 =>
          /\ bound /\ runs[i].context.cookie = TopCookie
          /\ \A j \in 1 .. Len(runs) : j # i => runs[j].context.cookie = 0
    /\ runs = <<>> /\ published # 0 => bound /\ published = TopCookie

-----------------------------------------------------------------------------
(* The stack of runs.                                                       *)

\* The innermost run.
LEMMA RunningTyped ==
    ASSUME RunTypeOK, runs # <<>>
    PROVE  /\ Len(runs) \in Nat \ {0} /\ Running \in Call
           /\ \A i \in 1 .. Len(runs) : runs[i] \in Call
<1>1. runs \in Seq(Call) /\ Len(runs) \in Nat \ {0}
  BY EmptySeq DEF RunTypeOK
<1>2. \A i \in 1 .. Len(runs) : runs[i] \in Call
  BY <1>1, ElementOfSeq
<1> QED BY <1>1, <1>2 DEF Running

\* The cookie of the top frame is a cookie, and is zero only without frames.
LEMMA TopCookieTyped ==
    ASSUME RunTypeOK
    PROVE  TopCookie \in Cookie /\ (TopCookie = 0 <=> frames = <<>>)
<1>1. CASE frames = <<>>
  BY <1>1, WineRunAssumption DEF TopCookie, Cookie
<1>2. CASE frames # <<>>
  <2>1. Len(frames) \in Nat \ {0}
    BY <1>2, EmptySeq DEF RunTypeOK
  <2>2. frames[Len(frames)] \in Cookie \ {0}
    BY <2>1, ElementOfSeq DEF RunTypeOK
  <2> QED BY <1>2, <2>2 DEF TopCookie
<1> QED BY <1>1, <1>2

\* The same after a step.
LEMMA TopCookieTypedNext == RunTypeOK' => (TopCookie \in Cookie)'
<1>1. RunTypeOK => TopCookie \in Cookie
  BY TopCookieTyped
<1> QED BY <1>1, PTL

\* A run inside the others.
LEMMA EnterView ==
    ASSUME RunTypeOK, NEW call \in Call, runs' = Append(runs, call)
    PROVE  /\ runs' \in Seq(Call) /\ runs' # <<>> /\ Len(runs') = Len(runs) + 1
           /\ \A i \in 1 .. Len(runs) : runs'[i] = runs[i]
           /\ runs'[Len(runs) + 1] = call /\ Len(runs) \in Nat
<1>1. runs \in Seq(Call) /\ Len(runs) \in Nat
  BY LenProperties DEF RunTypeOK
<1> QED BY <1>1, AppendProperties

\* The innermost run ends.
LEMMA ReturnView ==
    ASSUME RunTypeOK, runs # <<>>, NEW c \in Context, Return(c)
    PROVE  /\ runs' \in Seq(Call) /\ Len(runs') = Len(runs) - 1
           /\ \A i \in 1 .. Len(runs) - 1 : runs'[i] = runs[i]
           /\ published' = c.cookie /\ c.cookie \in Cookie /\ Len(runs) \in Nat \ {0}
<1> DEFINE n == Len(runs) - 1
<1>1. Len(runs) \in Nat \ {0} /\ \A i \in 1 .. Len(runs) : runs[i] \in Call
  BY RunningTyped
<1>2. n \in Nat /\ \A i \in 1 .. n : runs[i] \in Call
  BY <1>1
<1>3. runs' = SubSeq(runs, 1, n) /\ published' = c.cookie
  BY DEF Return
<1>4. c.cookie \in Cookie
  BY DEF Context
<1> HIDE DEF n
<1>5. /\ SubSeq(runs, 1, n) \in Seq(Call)
      /\ Len(SubSeq(runs, 1, n)) = IF 1 <= n THEN n - 1 + 1 ELSE 0
      /\ \A i \in 1 .. n - 1 + 1 : SubSeq(runs, 1, n)[i] = runs[1 + i - 1]
  BY <1>2, SubSeqProperties
<1>6. Len(runs') = n /\ \A i \in 1 .. n : runs'[i] = runs[i]
  BY <1>2, <1>3, <1>5
<1> QED BY <1>1, <1>3, <1>4, <1>5, <1>6 DEF n

\* The innermost run goes on.
LEMMA ContinueView ==
    ASSUME RunTypeOK, runs # <<>>, NEW call \in Call, Continue(call)
    PROVE  /\ runs' \in Seq(Call) /\ Len(runs') = Len(runs) /\ runs' # <<>>
           /\ \A i \in 1 .. Len(runs) - 1 : runs'[i] = runs[i]
           /\ runs'[Len(runs)] = call /\ Running' = call
           /\ published' = published /\ Len(runs) \in Nat \ {0}
<1>1. runs \in Seq(Call) /\ Len(runs) \in Nat \ {0}
  BY RunningTyped DEF RunTypeOK
<1>2. runs' = [runs EXCEPT ![Len(runs)] = call] /\ published' = published
  BY DEF Continue
<1>3. runs' \in Seq(Call) /\ Len(runs') = Len(runs)
      /\ \A i \in 1 .. Len(runs) : runs'[i] = IF i = Len(runs) THEN call ELSE runs[i]
  BY <1>1, <1>2, ExceptSeq
<1>4. runs' # <<>>
  BY <1>1, <1>3, EmptySeq
<1>5. /\ \A i \in 1 .. Len(runs) - 1 : runs'[i] = runs[i]
      /\ runs'[Len(runs)] = call
  BY <1>1, <1>3
<1>6. Running' = call
  BY <1>3, <1>5 DEF Running
<1> QED BY <1>1, <1>2, <1>3, <1>4, <1>5, <1>6

-----------------------------------------------------------------------------
(* Frames keep their owners.                                                *)

\* No run but the innermost one has frames.
OthersFrameless == \A i \in 1 .. Len(runs) - 1 : runs[i].context.cookie = 0

\* The step leaves the innermost run, or its caller, with context c, which
\* names the top frame, and takes no frame away from another run.
Settles(c) ==
    /\ ~bound' => frames' = <<>>
    /\ c.cookie # 0 => bound' /\ c.cookie = TopCookie' /\ OthersFrameless
    /\ OthersFrameless \/ UNCHANGED <<bound, frames>>

\* The innermost run ends with context c, or goes on with it.
Moves(c) == Return(c) \/ \E call \in Call : call.context = c /\ Continue(call)

\* What the stack of runs looks like after such a step.
LEMMA MovesView ==
    ASSUME RunTypeOK, runs # <<>>, NEW c \in Context, Moves(c)
    PROVE  /\ runs' \in Seq(Call) /\ Len(runs') <= MaxNesting /\ published' \in Cookie
           /\ \A i \in 1 .. Len(runs) - 1 : runs'[i] = runs[i]
           /\ Len(runs) \in Nat \ {0}
           /\ \/ Len(runs') = Len(runs) - 1 /\ published' = c.cookie
              \/ Len(runs') = Len(runs) /\ runs'[Len(runs)].context = c /\ runs' # <<>>
<1>1. Len(runs) <= MaxNesting /\ MaxNesting \in Nat /\ published \in Cookie
  BY WineRunAssumption DEF RunTypeOK
<1>2. CASE Return(c)
  BY <1>1, <1>2, ReturnView
<1>3. ASSUME NEW call \in Call, call.context = c, Continue(call)
      PROVE  /\ runs' \in Seq(Call) /\ Len(runs') <= MaxNesting /\ published' \in Cookie
             /\ \A i \in 1 .. Len(runs) - 1 : runs'[i] = runs[i]
             /\ Len(runs) \in Nat \ {0}
             /\ Len(runs') = Len(runs) /\ runs'[Len(runs)].context = c /\ runs' # <<>>
  BY <1>1, <1>3, ContinueView
<1> QED BY <1>2, <1>3 DEF Moves

\* ... and it keeps the owners.
LEMMA MovesKeep ==
    ASSUME RunTypeOK, FramesOwned, runs # <<>>, NEW c \in Context, Moves(c), Settles(c)
    PROVE  FramesOwned'
<1>1. /\ \A i \in 1 .. Len(runs) - 1 : runs'[i] = runs[i]
      /\ Len(runs) \in Nat \ {0}
      /\ \/ Len(runs') = Len(runs) - 1 /\ published' = c.cookie
         \/ Len(runs') = Len(runs) /\ runs'[Len(runs)].context = c /\ runs' # <<>>
  BY MovesView
<1>2. \A i \in 1 .. Len(runs) - 1 : runs'[i].context.cookie # 0 =>
         /\ bound' /\ runs'[i].context.cookie = TopCookie'
         /\ \A j \in 1 .. Len(runs) - 1 : j # i => runs'[j].context.cookie = 0
         /\ c.cookie = 0
  <2> TAKE i \in 1 .. Len(runs) - 1
  <2> HAVE runs'[i].context.cookie # 0
  <2>1. runs[i].context.cookie # 0 /\ runs'[i].context.cookie = runs[i].context.cookie
    BY <1>1
  <2>2. ~OthersFrameless
    BY <2>1 DEF OthersFrameless
  <2>3. bound' = bound /\ TopCookie' = TopCookie /\ c.cookie = 0
    BY <2>2 DEF Settles, TopCookie
  <2>4. i \in 1 .. Len(runs) /\ \A j \in 1 .. Len(runs) - 1 : j \in 1 .. Len(runs)
    BY <1>1
  <2>5. /\ bound /\ runs[i].context.cookie = TopCookie
        /\ \A j \in 1 .. Len(runs) : j # i => runs[j].context.cookie = 0
    BY <2>1, <2>4 DEF FramesOwned
  <2> QED BY <1>1, <2>1, <2>3, <2>4, <2>5
<1>3. c.cookie # 0 => /\ bound' /\ c.cookie = TopCookie'
                      /\ \A j \in 1 .. Len(runs) - 1 : runs'[j].context.cookie = 0
  BY <1>1 DEF Settles, OthersFrameless
<1>4. ~bound' => frames' = <<>>
  BY DEF Settles
<1>5. CASE Len(runs') = Len(runs) - 1 /\ published' = c.cookie
  BY <1>2, <1>3, <1>4, <1>5 DEF FramesOwned
<1>6. CASE Len(runs') = Len(runs) /\ runs'[Len(runs)].context = c /\ runs' # <<>>
  <2>1. \A i \in 1 .. Len(runs') : i \in 1 .. Len(runs) - 1 \/ i = Len(runs)
    BY <1>1, <1>6
  <2> QED BY <1>2, <1>3, <1>4, <1>6, <2>1 DEF FramesOwned
<1> QED BY <1>1, <1>5, <1>6

\* A run that goes on after a stop for reason has been charged, and has spent a
\* callback unless it retired something or only changes engines.
Used(call, reason, retired) ==
    /\ call.retired = Running.retired + retired
    /\ \/ call.callbacks > Running.callbacks
       \/ /\ call.callbacks = Running.callbacks /\ call.at = "LOOP"
          /\ retired > 0 \/ reason = "ARCH"

Reasons == {"BUDGET", "SYSCALL", "OTHER", "INVARIANT", "HOST_RETURN", "ARCH"}

\* What the loop does with a stop.
LEMMA DisposeView ==
    ASSUME RunTypeOK, Looping, Running.retired < Total,
           NEW reason \in Reasons, NEW retired \in 0 .. Budget, NEW c \in Context,
           NEW hybrid \in BOOLEAN, reason = "ARCH" => hybrid \/ InImage(c.pc),
           Dispose(reason, retired, c, hybrid)
    PROVE  \/ Return(c)
           \/ \E call \in Call : /\ call.context = c /\ Continue(call)
                                /\ Used(call, reason, retired)
<1> DEFINE call == [Charged(Running, retired) EXCEPT !.context = c]
           back == [call EXCEPT !.callbacks = @ + 1, !.at = "CALLBACK", !.event = reason]
<1>1. Running \in Call /\ Running.at = "LOOP"
  BY RunningTyped DEF Looping
<1>2. /\ Running.retired \in Nat /\ Running.callbacks \in 0 .. MaxCallbacks
      /\ Total \in Nat /\ Segment \in 1 .. Total /\ MaxCallbacks \in Nat
  BY <1>1, WineRunAssumption DEF Call
<1>3. retired \in Nat /\ Running.retired + retired \in 0 .. Total
  BY <1>2 DEF Budget
<1>4. /\ call \in Call /\ call.context = c /\ call.retired = Running.retired + retired
      /\ call.callbacks = Running.callbacks /\ call.at = "LOOP"
  BY <1>1, <1>3 DEF Call, Charged
<1>5. CASE reason = "ARCH"
  BY <1>2, <1>4, <1>5 DEF Dispose, Used
<1>6. CASE reason \in {"HOST_RETURN", "INVARIANT"}
  BY <1>6 DEF Dispose
<1>7. CASE reason = "BUDGET"
  <2>1. IF retired = 0 THEN Return(c) ELSE Continue(call)
    BY <1>7 DEF Dispose, Yields
  <2>2. retired # 0 => Used(call, reason, retired)
    BY <1>3, <1>4 DEF Used
  <2> QED BY <1>4, <2>1, <2>2
<1>8. CASE reason \in {"SYSCALL", "OTHER"}
  <2>1. Return(c) \/ (MayCallBack(call.callbacks) /\ Continue(back))
    BY <1>8 DEF Dispose
  <2>2. CASE MayCallBack(call.callbacks) /\ Continue(back)
    <3>1. call.callbacks + 1 \in 0 .. MaxCallbacks /\ call.callbacks + 1 > Running.callbacks
      BY <1>2, <1>4, <2>2 DEF MayCallBack
    <3>2. back \in Call
      BY <1>4, <1>8, <3>1 DEF Call
    <3>3. back.context = c /\ back.retired = call.retired /\ back.callbacks = call.callbacks + 1
      BY <1>4 DEF Call
    <3>4. Used(back, reason, retired)
      BY <1>4, <3>1, <3>3 DEF Used
    <3> QED BY <2>2, <3>2, <3>3, <3>4
  <2> QED BY <2>1, <2>2
<1> QED BY <1>5, <1>6, <1>7, <1>8 DEF Reasons

\* ... as a move of the stack of runs.
LEMMA DisposeMoves ==
    ASSUME RunTypeOK, Looping, Running.retired < Total,
           NEW reason \in Reasons, NEW retired \in 0 .. Budget, NEW c \in Context,
           NEW hybrid \in BOOLEAN, reason = "ARCH" => hybrid \/ InImage(c.pc),
           Dispose(reason, retired, c, hybrid)
    PROVE  Moves(c) /\ runs # <<>>
  BY DisposeView DEF Moves, Looping

-----------------------------------------------------------------------------
(* The actions.                                                             *)

RunInv == RunTypeOK /\ FramesOwned

\* The coordinator after the step.
CoordinatorTyped ==
    /\ routing \in Routings /\ bound \in BOOLEAN /\ stageIsa \in ISA /\ nativeReturn \in Pc
    /\ frames \in Seq(Cookie \ {0}) /\ Len(frames) <= 2 /\ generation \in Cookie

\* A move of the stack of runs keeps the invariant if it settles.
LEMMA MovesInv ==
    ASSUME RunInv, runs # <<>>, NEW c \in Context, Moves(c), Settles(c), CoordinatorTyped'
    PROVE  RunInv'
<1>1. FramesOwned'
  BY MovesKeep DEF RunInv
<1>2. runs' \in Seq(Call) /\ Len(runs') <= MaxNesting /\ published' \in Cookie
  BY MovesView DEF RunInv
<1> QED BY <1>1, <1>2 DEF RunInv, RunTypeOK, CoordinatorTyped

\* The context the innermost run has already settles while the coordinator rests.
LEMMA RestSettles ==
    ASSUME RunInv, runs # <<>>, UNCHANGED <<routing, coordinator>>, NEW c \in Context,
           c.cookie = Running.context.cookie
    PROVE  Settles(c) /\ CoordinatorTyped'
<1>1. Len(runs) \in Nat \ {0}
  BY RunningTyped DEF RunInv
<1>2. Len(runs) \in 1 .. Len(runs) /\ \A i \in 1 .. Len(runs) - 1 : i \in 1 .. Len(runs) /\ i # Len(runs)
  BY <1>1
<1>3. bound' = bound /\ frames' = frames /\ TopCookie' = TopCookie
  BY DEF coordinator, TopCookie
<1>4. CoordinatorTyped'
  BY DEF CoordinatorTyped, RunInv, RunTypeOK, coordinator
<1>5. Settles(c)
  BY <1>2, <1>3 DEF RunInv, FramesOwned, Settles, OthersFrameless, Running
<1> QED BY <1>4, <1>5

\* A step that changes the frames or the top cookie is one of a run whose own
\* cookie is the top one, and then no other run has frames.
LEMMA OwnerIsAlone ==
    ASSUME RunInv, runs # <<>>, Running.context.cookie = TopCookie
    PROVE  OthersFrameless
<1>1. Len(runs) \in Nat \ {0}
  BY RunningTyped DEF RunInv
<1> SUFFICES ASSUME NEW i \in 1 .. Len(runs) - 1 PROVE runs[i].context.cookie = 0
  BY DEF OthersFrameless
<1>2. i \in 1 .. Len(runs) /\ i # Len(runs) /\ Len(runs) \in 1 .. Len(runs)
  BY <1>1
<1>3. runs[i].context.cookie # 0 =>
         runs[i].context.cookie = TopCookie /\ runs[Len(runs)].context.cookie = 0
  BY <1>2 DEF RunInv, FramesOwned
<1> QED BY <1>3 DEF Running

\* A run starts.
LEMMA EnterKeeps ==
    ASSUME RunInv, NEW c \in Context, Enter(c)
    PROVE  RunInv'
<1> DEFINE call == [context |-> c, retired |-> 0, callbacks |-> 0, at |-> "LOOP",
                    event |-> "OTHER"]
<1>1. call \in Call
  BY WineRunAssumption DEF Call
<1>2. runs' = Append(runs, call) /\ UNCHANGED <<routing, coordinator, published>>
  BY DEF Enter
<1>3. /\ runs' \in Seq(Call) /\ runs' # <<>> /\ Len(runs') = Len(runs) + 1
      /\ \A i \in 1 .. Len(runs) : runs'[i] = runs[i]
      /\ runs'[Len(runs) + 1] = call /\ Len(runs) \in Nat
  BY <1>1, <1>2, EnterView DEF RunInv
<1>4. TopCookie' = TopCookie /\ bound' = bound /\ frames' = frames
  BY <1>2 DEF TopCookie, coordinator
<1>5. Len(runs') <= MaxNesting
  <2>1. CASE runs = <<>>
    BY <1>3, <2>1, WineRunAssumption
  <2>2. CASE runs # <<>>
    BY <1>3, <2>2, WineRunAssumption DEF Enter
  <2> QED BY <2>1, <2>2
<1>6. RunTypeOK'
  BY <1>2, <1>3, <1>5 DEF RunInv, RunTypeOK, coordinator
<1>7. CASE c.cookie = 0
  <2>1. \A i \in 1 .. Len(runs') : i \in 1 .. Len(runs) \/ i = Len(runs) + 1
    BY <1>3
  <2>2. runs'[Len(runs) + 1].context.cookie = 0
    BY <1>3, <1>7
  <2> QED BY <1>3, <1>4, <1>6, <2>1, <2>2 DEF RunInv, FramesOwned
<1>8. CASE c.cookie # 0
  <2>1. runs = <<>> /\ c.cookie = published
    BY <1>8 DEF Enter
  <2>2. Len(runs) = 0
    BY <2>1
  <2>3. bound /\ c.cookie = TopCookie
    BY <1>8, <2>1 DEF RunInv, FramesOwned
  <2>4. \A i \in 1 .. Len(runs') : i = 1 /\ runs'[i].context = c
    BY <1>3, <2>2
  <2> QED BY <1>3, <1>4, <1>6, <2>3, <2>4 DEF RunInv, FramesOwned
<1> QED BY <1>6, <1>7, <1>8

\* A step of the loop or an answer that does not touch the coordinator and
\* returns the context the run has.
LEMMA RestKeeps ==
    ASSUME RunInv, runs # <<>>, Return(Running.context), UNCHANGED <<routing, coordinator>>
    PROVE  RunInv'
<1>1. Running.context \in Context
  BY RunningTyped DEF RunInv, Call
<1>2. Settles(Running.context) /\ CoordinatorTyped' /\ Moves(Running.context)
  BY <1>1, RestSettles DEF Moves
<1> QED BY <1>1, <1>2, MovesInv

\* Wine's answer goes back into the run.
LEMMA ResumeKeeps ==
    ASSUME RunInv, NEW c \in FreshContext, Resume(c)
    PROVE  RunInv'
<1>1. runs # <<>> /\ Running \in Call
  BY RunningTyped DEF RunInv, Resume, InCallback
<1>2. Resumed(c) \in Context /\ Resumed(c).cookie = Running.context.cookie
  BY <1>1 DEF Resumed, FreshContext, Context, Call
<1>3. Moves(Resumed(c))
  <2> DEFINE call == [Running EXCEPT !.context = Resumed(c), !.at = "LOOP", !.event = "OTHER"]
  <2>1. call \in Call /\ call.context = Resumed(c)
    BY <1>1, <1>2 DEF Call
  <2>2. Continue(call)
    BY DEF Resume
  <2> QED BY <2>1, <2>2 DEF Moves
<1>4. Settles(Resumed(c)) /\ CoordinatorTyped'
  BY <1>1, <1>2, RestSettles DEF Resume
<1> QED BY <1>1, <1>2, <1>3, <1>4, MovesInv

\* A segment on one of the thread's own engines.
LEMMA EngineKeeps ==
    ASSUME RunInv, NEW engine \in {"ARM", "X64", "I386"}, NEW reason \in Reasons,
           Routed(engine), NEW retired \in 0 .. Budget, NEW c \in After(Running.context, retired),
           Engine(engine, reason, retired, c)
    PROVE  RunInv'
<1>1. Looping /\ runs # <<>> /\ Running.retired < Total /\ Running.context \in Context
  BY RunningTyped DEF RunInv, Call, Routed, Looping
<1>2. c \in Context /\ c.cookie = Running.context.cookie
  BY DEF After
<1>3. Dispose(reason, retired, c, FALSE) /\ (reason = "ARCH" => InImage(c.pc))
      /\ UNCHANGED <<routing, coordinator>>
  BY DEF Engine
<1>4. Moves(c)
  BY <1>1, <1>2, <1>3, DisposeMoves DEF RunInv
<1> QED BY <1>1, <1>2, <1>3, <1>4, RestSettles, MovesInv

\* The coordinator begins, or refuses to.
LEMMA HybridBeginKeeps == ASSUME RunInv, HybridBegin PROVE RunInv'
<1> DEFINE c == Running.context
<1>1. /\ Looping /\ runs # <<>> /\ Running.retired < Total /\ ~bound
      /\ Running \in Call /\ c \in Context
  BY RunningTyped DEF RunInv, Call, HybridBegin, Routed, Looping
<1>2. routing' = routing /\ generation' = generation
  BY DEF HybridBegin
<1>3. CASE /\ bound' = TRUE /\ stageIsa' = "ARM64EC" /\ frames' = <<>>
           /\ nativeReturn' = (IF SvcBoundaries THEN "host" ELSE c.lr)
           /\ UNCHANGED <<runs, published>>
  <2>1. frames = <<>>
    BY <1>1 DEF RunInv, FramesOwned
  <2>2. nativeReturn' \in Pc
    BY <1>1, <1>3, WineRunAssumption DEF Context, Pc
  <2>3. RunTypeOK'
    BY <1>2, <1>3, <2>1, <2>2 DEF RunInv, RunTypeOK, ISA
  <2>4. FramesOwned'
    BY <1>1, <1>3, <2>1 DEF RunInv, FramesOwned
  <2> QED BY <2>3, <2>4 DEF RunInv
<1>4. CASE /\ Dispose("INVARIANT", 0, c, TRUE)
           /\ UNCHANGED <<bound, stageIsa, frames, nativeReturn>>
  <2>1. Return(c)
    BY <1>4 DEF Dispose
  <2> QED BY <1>1, <1>2, <1>4, <2>1, RestKeeps DEF coordinator
<1> QED BY <1>3, <1>4 DEF HybridBegin

\* A foreign context is refused.
LEMMA HybridRefusesKeeps == ASSUME RunInv, HybridRefuses PROVE RunInv'
<1>1. runs # <<>>
  BY DEF HybridRefuses, Routed, Looping
<1>2. Return(Running.context) /\ UNCHANGED <<routing, coordinator>>
  BY DEF HybridRefuses, Dispose
<1> QED BY <1>1, <1>2, RestKeeps

\* What the steps of a running coordinator know.
LEMMA HybridKnown ==
    ASSUME RunInv, HybridRuns
    PROVE  /\ Looping /\ runs # <<>> /\ Running.retired < Total /\ bound
           /\ Running.context \in Context /\ OthersFrameless
           /\ Budget \in Nat /\ 0 \in 0 .. Budget
<1>1. /\ Looping /\ runs # <<>> /\ Running.retired < Total /\ bound
      /\ Running.context.cookie = TopCookie
  BY DEF HybridRuns, HybridAccepts, Routed, Looping
<1>2. Running \in Call
  BY <1>1, RunningTyped DEF RunInv
<1>3. Budget \in Nat
  BY <1>1, <1>2, WineRunAssumption DEF Call, Budget
<1> QED BY <1>1, <1>2, <1>3, OwnerIsAlone DEF Call

\* After Unbind the coordinator is as it was at first.
LEMMA UnbindSettles ==
    ASSUME RunInv, Unbind, routing' = routing, OthersFrameless, NEW c, c.cookie = 0
    PROVE  Settles(c) /\ CoordinatorTyped'
<1>1. <<>> \in Seq(Cookie \ {0}) /\ Len(<<>>) = 0
  BY EmptySeq
<1>2. frames' \in Seq(Cookie \ {0}) /\ Len(frames') <= 2
  BY <1>1 DEF Unbind
<1>3. CoordinatorTyped'
  BY <1>2 DEF RunInv, RunTypeOK, Unbind, CoordinatorTyped, ISA, Pc
<1> QED BY <1>3 DEF Settles, Unbind

\* The coordinator fails.
LEMMA HybridFailsKeeps == ASSUME RunInv, HybridFails PROVE RunInv'
<1> DEFINE c == [Running.context EXCEPT !.isa = "ARM64EC", !.cookie = 0]
<1>1. runs # <<>> /\ OthersFrameless /\ Running.context \in Context
  BY HybridKnown DEF HybridFails
<1>2. c \in Context /\ c.cookie = 0
  <2>1. 0 \in Cookie /\ "ARM64EC" \in ISA
    BY WineRunAssumption DEF Cookie, ISA
  <2> QED BY <1>1, <2>1 DEF Context
<1>3. Return(c) /\ Unbind /\ routing' = routing
  BY DEF HybridFails, Dispose
<1> QED BY <1>1, <1>2, <1>3, UnbindSettles, MovesInv DEF Moves

\* Control is back in native code.
LEMMA HybridReturnKeeps ==
    ASSUME RunInv, HybridRuns, NEW retired \in 0 .. Budget, NEW lr \in Link,
           HybridReturn(retired, lr)
    PROVE  RunInv'
<1> DEFINE c == [isa |-> "ARM64EC", pc |-> nativeReturn, lr |-> lr, cookie |-> 0]
<1>1. runs # <<>> /\ OthersFrameless /\ Looping /\ Running.retired < Total
  BY HybridKnown
<1>2. c \in Context /\ c.cookie = 0
  BY WineRunAssumption DEF RunInv, RunTypeOK, Context, ISA, Cookie
<1>3. Dispose("ARCH", retired, c, TRUE) /\ Unbind /\ routing' = routing
  BY DEF HybridReturn
<1>4. Moves(c)
  BY <1>1, <1>2, <1>3, DisposeMoves DEF RunInv, Reasons
<1> QED BY <1>1, <1>2, <1>3, <1>4, UnbindSettles, MovesInv

\* A stop that keeps the sidecar, with a frame more, a frame less or neither.
LEMMA HybridStopKeeps ==
    ASSUME RunInv, HybridRuns, NEW reason \in {"BUDGET", "SYSCALL", "OTHER", "INVARIANT"},
           NEW retired \in 0 .. Budget, NEW pc \in Pc, NEW lr \in Link, NEW isa \in ISA, NEW fs,
           HybridStop(reason, retired, pc, lr, isa, fs)
    PROVE  RunInv'
<1> DEFINE top == IF fs = <<>> THEN 0 ELSE fs[Len(fs)]
           c == [isa |-> isa, pc |-> pc, lr |-> lr, cookie |-> top]
<1>1. runs # <<>> /\ OthersFrameless /\ Looping /\ Running.retired < Total /\ bound
  BY HybridKnown
<1>2. /\ frames' = fs /\ bound' = bound /\ routing' = routing /\ nativeReturn' = nativeReturn
      /\ stageIsa' = isa /\ Dispose(reason, retired, c, TRUE)
      /\ generation' = (IF Len(fs) > Len(frames) THEN generation + 1 ELSE generation)
  BY DEF HybridStop
<1>3. fs \in Seq(Cookie \ {0}) /\ Len(fs) <= 2 /\ generation' \in Cookie
  <2>1. frames \in Seq(Cookie \ {0}) /\ Len(frames) \in Nat /\ Len(frames) <= 2
        /\ generation \in 0 .. MaxCookie /\ MaxCookie \in Nat
    BY LenProperties, WineRunAssumption DEF RunInv, RunTypeOK, Cookie
  <2>2. CASE fs = frames
    BY <1>2, <2>1, <2>2 DEF Cookie
  <2>3. CASE fs = SubSeq(frames, 1, Len(frames) - 1)
    <3> DEFINE n == Len(frames) - 1
    <3>1. n \in Int /\ n < Len(frames) /\ n <= 1
      BY <2>1
    <3>2. \A i \in 1 .. n : frames[i] \in Cookie \ {0}
      <4>1. \A i \in 1 .. n : i \in 1 .. Len(frames)
        BY <2>1
      <4> QED BY <2>1, <4>1, ElementOfSeq
    <3> HIDE DEF n
    <3>3. /\ SubSeq(frames, 1, n) \in Seq(Cookie \ {0})
          /\ Len(SubSeq(frames, 1, n)) = IF 1 <= n THEN n - 1 + 1 ELSE 0
      BY <3>1, <3>2, SubSeqProperties
    <3>4. fs \in Seq(Cookie \ {0}) /\ Len(fs) <= Len(frames) /\ Len(fs) <= 2
      BY <2>1, <2>3, <3>1, <3>3 DEF n
    <3>5. generation' = generation
      BY <1>2, <2>1, <3>4, LenProperties
    <3> QED BY <2>1, <3>4, <3>5 DEF Cookie
  <2>4. CASE fs = Append(frames, generation + 1) /\ Len(fs) <= 2 /\ generation < MaxCookie
    <3>1. generation + 1 \in Cookie \ {0}
      BY <2>1, <2>4 DEF Cookie
    <3>2. fs \in Seq(Cookie \ {0}) /\ Len(fs) = Len(frames) + 1
      BY <2>1, <2>4, <3>1, AppendProperties
    <3> QED BY <1>2, <2>1, <2>4, <3>1, <3>2
  <2> QED BY <2>2, <2>3, <2>4 DEF HybridStop
<1>4. top \in Cookie
  <2>1. CASE fs = <<>>
    BY <2>1, WineRunAssumption DEF Cookie
  <2>2. CASE fs # <<>>
    <3>1. Len(fs) \in 1 .. Len(fs)
      BY <1>3, <2>2, EmptySeq
    <3> QED BY <1>3, <2>2, <3>1, ElementOfSeq
  <2> QED BY <2>1, <2>2
<1> HIDE DEF top
<1>5. c \in Context /\ c.cookie = top
  BY <1>4 DEF Context
<1>6. Moves(c)
  <2>1. reason \in Reasons /\ reason # "ARCH"
    BY DEF Reasons
  <2> HIDE DEF c
  <2> QED BY <1>1, <1>2, <1>5, <2>1, DisposeMoves DEF RunInv
<1>7. Settles(c)
  <2>1. TopCookie' = top
    BY <1>2 DEF TopCookie, top
  <2> QED BY <1>1, <1>2, <1>5, <2>1 DEF Settles
<1>8. CoordinatorTyped'
  BY <1>2, <1>3 DEF CoordinatorTyped, RunInv, RunTypeOK
<1> QED BY <1>1, <1>5, <1>6, <1>7, <1>8, MovesInv

\* Every step keeps the invariant.
LEMMA RunNextKeeps == ASSUME RunInv, [RunNext]_runVars PROVE RunInv'
<1>1. CASE \E c \in Context : Enter(c)
  BY <1>1, EnterKeeps
<1>2. CASE TotalExpired \/ NoEngine \/ GiveUp
  <2>1. /\ runs # <<>> /\ Return(Running.context)
        /\ UNCHANGED <<routing, coordinator>>
    BY <1>2 DEF TotalExpired, NoEngine, GiveUp, Routed, Looping, InCallback
  <2> QED BY <2>1, RestKeeps
<1>3. CASE Engines
  BY <1>3, EngineKeeps DEF Engines, Reasons
<1>4. CASE Hybrid
  <2>1. CASE HybridBegin
    BY <2>1, HybridBeginKeeps
  <2>2. CASE HybridRefuses
    BY <2>2, HybridRefusesKeeps
  <2>3. CASE HybridFails
    BY <2>3, HybridFailsKeeps
  <2>4. CASE HybridRuns /\ \E retired \in 0 .. Budget, lr \in Link : HybridReturn(retired, lr)
    BY <2>4, HybridReturnKeeps
  <2>5. CASE HybridRuns /\ \E reason \in {"BUDGET", "SYSCALL", "OTHER", "INVARIANT"},
               retired \in 0 .. Budget, pc \in Pc, lr \in Link, isa \in ISA,
               fs \in {frames, SubSeq(frames, 1, Len(frames) - 1), Append(frames, generation + 1)} :
                  HybridStop(reason, retired, pc, lr, isa, fs)
    BY <2>5, HybridStopKeeps
  <2> QED BY <1>4, <2>1, <2>2, <2>3, <2>4, <2>5 DEF Hybrid
<1>5. CASE \E c \in FreshContext : Resume(c)
  BY <1>5, ResumeKeeps
<1>6. CASE UNCHANGED runVars
  BY <1>6 DEF RunInv, RunTypeOK, FramesOwned, TopCookie, runVars
<1> QED BY <1>1, <1>2, <1>3, <1>4, <1>5, <1>6 DEF RunNext, Loop, Answer

\* An idle thread satisfies it.
LEMMA RunInitKeeps == RunInit => RunInv
<1> SUFFICES ASSUME RunInit PROVE RunInv
  OBVIOUS
<1>1. <<>> \in Seq(Call) /\ <<>> \in Seq(Cookie \ {0}) /\ Len(<<>>) = 0
  BY EmptySeq
<1>2. RunTypeOK
  <2>1. runs \in Seq(Call) /\ Len(runs) = 0 /\ frames \in Seq(Cookie \ {0}) /\ Len(frames) = 0
    BY <1>1 DEF RunInit
  <2>2. Len(runs) <= MaxNesting /\ Len(frames) <= 2 /\ 0 \in Cookie
    BY <2>1, WineRunAssumption DEF Cookie
  <2>3. routing \in Routings /\ bound \in BOOLEAN /\ stageIsa \in ISA /\ nativeReturn \in Pc
    BY DEF RunInit, ISA, Pc
  <2> QED BY <2>1, <2>2, <2>3 DEF RunInit, RunTypeOK
<1>3. FramesOwned
  BY <1>1 DEF RunInit, FramesOwned
<1> QED BY <1>2, <1>3 DEF RunInv

\* The invariant holds throughout.
LEMMA RunInvariant == RunSpec => []RunInv
<1>1. RunInit => RunInv
  BY RunInitKeeps
<1>2. RunInv /\ [RunNext]_runVars => RunInv'
  BY RunNextKeeps
<1> QED BY <1>1, <1>2, PTL DEF RunSpec

\* The variables of a run loop have their types; in particular no run retires
\* more than the total budget or calls back more often than it may.
THEOREM RunsTyped == RunSpec => []RunTypeOK
<1>1. RunInv => RunTypeOK
  BY DEF RunInv
<1> QED BY <1>1, RunInvariant, PTL

\* Whatever a boundary callback starts on the same thread, the frames of the
\* run that is paused in it stay on top of the coordinator, as do those of the
\* run that returned last.
THEOREM PausedRunsKeepFrames == RunSpec => []PausedFramesKept
<1>1. RunInv => PausedFramesKept
  BY DEF RunInv, FramesOwned, PausedFramesKept
<1> QED BY <1>1, RunInvariant, PTL

-----------------------------------------------------------------------------
(* Runs use up what bounds them.                                            *)

\* The return address the coordinator captures is not in an image: it is the
\* host-return sentinel, or code is not entered with such an address in x30.
ReturnsLeaveImage == SvcBoundaries \/ "caller" \notin Link

\* The captured return address.
ReturnsOutside == nativeReturn \notin Image

\* What RunsUseUp says of a step.
StepUses ==
    /\ \A i \in 1 .. Len(runs) - 1 : runs'[i] = runs[i]
    /\ runs # <<>> /\ Len(runs') = Len(runs) => UsesUp

\* The captured address stays outside.
LEMMA OutsideKept ==
    ASSUME RunInv, ReturnsLeaveImage, ReturnsOutside, [RunNext]_runVars
    PROVE  ReturnsOutside'
<1>1. CASE nativeReturn' = nativeReturn
  BY <1>1 DEF ReturnsOutside
<1>2. CASE nativeReturn' = "host"
  BY <1>2 DEF ReturnsOutside, Image
<1>3. CASE HybridBegin
  <2>1. Running.context \in Context
    BY RunningTyped, <1>3 DEF RunInv, Call, HybridBegin, Routed, Looping
  <2>2. Running.context.lr \in {"caller", "native"} /\ (Running.context.lr \in Link)
    BY <2>1, WineRunAssumption DEF Context
  <2> QED BY <1>1, <1>3, <2>2 DEF HybridBegin, ReturnsOutside, Image, ReturnsLeaveImage
<1>4. nativeReturn' = nativeReturn \/ nativeReturn' = "host" \/ HybridBegin
  BY DEF RunNext, Loop, Answer, Enter, TotalExpired, NoEngine, Engines, Engine, Hybrid, HybridRefuses,
         HybridFails, HybridReturn, HybridStop, Unbind, GiveUp, Resume, coordinator, runVars
<1> QED BY <1>1, <1>2, <1>3, <1>4

\* A run that ends.
LEMMA ReturnUses ==
    ASSUME RunInv, runs # <<>>, NEW c \in Context, Return(c)
    PROVE  StepUses
<1>1. /\ Len(runs') = Len(runs) - 1 /\ Len(runs) \in Nat \ {0}
      /\ \A i \in 1 .. Len(runs) - 1 : runs'[i] = runs[i]
  BY ReturnView DEF RunInv
<1>2. Len(runs') # Len(runs)
  BY <1>1
<1> QED BY <1>1, <1>2 DEF StepUses

\* A run that goes on has the counters of its call.
LEMMA ContinueUses ==
    ASSUME RunInv, runs # <<>>, NEW call \in Call, Continue(call),
           \/ call.retired > Running.retired
           \/ /\ call.retired = Running.retired
              /\ \/ call.callbacks > Running.callbacks
                 \/ call.callbacks = Running.callbacks /\ Distance' < Distance
    PROVE  StepUses
<1>1. /\ \A i \in 1 .. Len(runs) - 1 : runs'[i] = runs[i]
      /\ Running' = call
  BY ContinueView DEF RunInv
<1> QED BY <1>1 DEF StepUses, UsesUp

\* A stop of an engine.
LEMMA DisposeUses ==
    ASSUME RunInv, Looping, Running.retired < Total,
           NEW reason \in Reasons, NEW retired \in 0 .. Budget, NEW c \in Context,
           NEW hybrid \in BOOLEAN, reason = "ARCH" => hybrid \/ InImage(c.pc),
           Dispose(reason, retired, c, hybrid),
           \A call \in Call : reason = "ARCH" /\ retired = 0 /\ Continue(call) /\ call.context = c
                                /\ call.at = "LOOP" => Distance' < Distance
    PROVE  StepUses
<1>1. runs # <<>> /\ Running \in Call
  BY RunningTyped DEF RunInv, Looping
<1>2. \/ Return(c)
      \/ \E call \in Call : /\ call.context = c /\ Continue(call) /\ Used(call, reason, retired)
  BY DisposeView DEF RunInv
<1>3. CASE Return(c)
  BY <1>1, <1>3, ReturnUses
<1>4. ASSUME NEW call \in Call, call.context = c, Continue(call), Used(call, reason, retired)
      PROVE  StepUses
  <2>1. Running.retired \in Nat /\ retired \in Nat /\ call.retired = Running.retired + retired
    BY <1>1, <1>4, WineRunAssumption DEF Call, Used
  <2>2. CASE retired > 0
    <3>1. call.retired > Running.retired
      BY <2>1, <2>2
    <3> QED BY <1>1, <1>4, <3>1, ContinueUses
  <2>3. CASE retired = 0
    <3>1. call.retired = Running.retired
      BY <2>1, <2>3
    <3>2. \/ call.callbacks > Running.callbacks
          \/ call.callbacks = Running.callbacks /\ call.at = "LOOP" /\ reason = "ARCH"
      BY <1>4, <2>3 DEF Used
    <3>3. \/ call.callbacks > Running.callbacks
          \/ call.callbacks = Running.callbacks /\ Distance' < Distance
      BY <1>4, <2>3, <3>2
    <3> QED BY <1>1, <1>4, <3>1, <3>3, ContinueUses
  <2> QED BY <2>1, <2>2, <2>3
<1> QED BY <1>2, <1>3, <1>4

\* Wine's answer.
LEMMA ResumeUses ==
    ASSUME RunInv, NEW c \in FreshContext, Resume(c)
    PROVE  StepUses
<1> DEFINE call == [Running EXCEPT !.context = Resumed(c), !.at = "LOOP", !.event = "OTHER"]
<1>1. runs # <<>> /\ Running \in Call /\ Running.at = "CALLBACK"
  BY RunningTyped DEF RunInv, Resume, InCallback
<1>2. Resumed(c) \in Context
  BY <1>1 DEF Resumed, FreshContext, Context, Call
<1>3. /\ call \in Call /\ call.at = "LOOP" /\ call.retired = Running.retired
      /\ call.callbacks = Running.callbacks /\ Continue(call)
  BY <1>1, <1>2 DEF Call, Resume
<1>4. Running' = call
  BY <1>1, <1>3, ContinueView DEF RunInv
<1>5. Distance' < Distance
  <2>1. Distance = 3
    BY <1>1 DEF Distance
  <2>2. Running'.at = "LOOP"
    BY <1>3, <1>4
  <2>3. Distance' \in {0, 1, 2}
    BY <2>2 DEF Distance
  <2> QED BY <2>1, <2>3
<1> QED BY <1>1, <1>3, <1>5, ContinueUses

\* The steps that change the coordinator.
LEMMA HybridUses ==
    ASSUME RunInv, ReturnsOutside, Hybrid
    PROVE  StepUses
<1>1. CASE HybridBegin
  <2>1. Running \in Call /\ Running.context \in Context /\ Looping /\ runs # <<>> /\ ~bound
    BY RunningTyped, <1>1 DEF RunInv, Call, HybridBegin, Routed, Looping
  <2>2. CASE Dispose("INVARIANT", 0, Running.context, TRUE)
    BY <2>1, <2>2, ReturnUses DEF Dispose
  <2>3. CASE bound' = TRUE /\ UNCHANGED <<runs, published>>
    <3>1. Running' = Running /\ Running.at = "LOOP"
      BY <2>1, <2>3 DEF Running, Looping
    <3>2. InImage(Running.context.pc)
      BY <1>1, <2>1 DEF HybridBegin, Routed, Looping
    <3>3. Distance = 2 /\ Distance' = 1
      BY <2>1, <2>3, <3>1, <3>2 DEF Distance
    <3>4. UsesUp
      BY <3>1, <3>3 DEF UsesUp
    <3> QED BY <2>3, <3>4 DEF StepUses
  <2> QED BY <1>1, <2>2, <2>3 DEF HybridBegin
<1>2. CASE HybridRefuses
  <2>1. Running.context \in Context /\ runs # <<>> /\ Return(Running.context)
    BY RunningTyped, <1>2 DEF RunInv, Call, HybridRefuses, Routed, Looping, Dispose
  <2> QED BY <2>1, ReturnUses
<1>3. CASE HybridFails
  <2> DEFINE c == [Running.context EXCEPT !.isa = "ARM64EC", !.cookie = 0]
  <2>1. runs # <<>> /\ Running.context \in Context
    BY <1>3, HybridKnown DEF HybridFails
  <2>2. 0 \in Cookie /\ "ARM64EC" \in ISA
    BY WineRunAssumption DEF Cookie, ISA
  <2>3. c \in Context
    BY <2>1, <2>2 DEF Context
  <2>4. Return(c)
    BY <1>3 DEF HybridFails, Dispose
  <2> QED BY <2>1, <2>3, <2>4, ReturnUses
<1>4. ASSUME HybridRuns, NEW retired \in 0 .. Budget, NEW lr \in Link, HybridReturn(retired, lr)
      PROVE  StepUses
  <2> DEFINE c == [isa |-> "ARM64EC", pc |-> nativeReturn, lr |-> lr, cookie |-> 0]
  <2>1. runs # <<>> /\ Looping /\ Running.retired < Total /\ bound /\ Running.at = "LOOP"
    BY <1>4, HybridKnown DEF Looping
  <2>2. c \in Context
    BY WineRunAssumption DEF RunInv, RunTypeOK, Context, ISA, Cookie
  <2>3. Dispose("ARCH", retired, c, TRUE) /\ bound' = FALSE /\ routing' = routing
    BY <1>4 DEF HybridReturn, Unbind
  <2>4. ASSUME NEW call \in Call, Continue(call), call.context = c, call.at = "LOOP"
        PROVE  Distance' < Distance
    <3>1. Running' = call
      BY <2>1, <2>4, ContinueView DEF RunInv
    <3>2. Running'.at = "LOOP" /\ Running'.context.pc = nativeReturn
      BY <2>4, <3>1
    <3>4. ~(routing' = "ARM64X" /\ Running'.context.pc \in Image)
      BY <3>2 DEF ReturnsOutside
    <3>5. Distance' = 0
      BY <2>3, <3>2, <3>4 DEF Distance, InImage
    <3>6. Distance = 1
      BY <2>1 DEF Distance
    <3> QED BY <3>5, <3>6
  <2>5. "ARCH" \in Reasons
    BY DEF Reasons
  <2> HIDE DEF c
  <2> QED BY <2>1, <2>2, <2>3, <2>4, <2>5, DisposeUses
<1>5. ASSUME HybridRuns, NEW reason \in {"BUDGET", "SYSCALL", "OTHER", "INVARIANT"},
             NEW retired \in 0 .. Budget, NEW pc \in Pc, NEW lr \in Link, NEW isa \in ISA, NEW fs,
             HybridStop(reason, retired, pc, lr, isa, fs)
      PROVE  StepUses
  <2> DEFINE c == [isa |-> isa, pc |-> pc, lr |-> lr,
                   cookie |-> IF fs = <<>> THEN 0 ELSE fs[Len(fs)]]
  <2>1. Looping /\ Running.retired < Total
    BY <1>5, HybridKnown
  <2>2. Dispose(reason, retired, c, TRUE) /\ reason \in Reasons /\ reason # "ARCH"
    BY <1>5 DEF HybridStop, Reasons
  <2>3. c \in Context
    <3>1. RunInv' /\ frames' = fs
      BY <1>5, HybridStopKeeps DEF HybridStop
    <3>2. TopCookie' \in Cookie /\ TopCookie' = c.cookie
      BY <3>1, TopCookieTypedNext DEF RunInv, TopCookie
    <3> QED BY <3>2 DEF Context
  <2> HIDE DEF c
  <2> QED BY <2>1, <2>2, <2>3, DisposeUses
<1> QED BY <1>1, <1>2, <1>3, <1>4, <1>5 DEF Hybrid

\* A segment on one of the thread's own engines.
LEMMA EngineUses ==
    ASSUME RunInv, NEW engine \in {"ARM", "X64", "I386"}, NEW reason \in Reasons,
           Routed(engine), NEW retired \in 0 .. Budget, NEW c \in After(Running.context, retired),
           Engine(engine, reason, retired, c)
    PROVE  StepUses
<1>1. Looping /\ runs # <<>> /\ Running.retired < Total /\ c \in Context
  BY DEF Routed, Looping, After
<1>2. Dispose(reason, retired, c, FALSE) /\ (reason = "ARCH" => InImage(c.pc))
  BY DEF Engine
<1>3. ~(reason = "ARCH" /\ retired = 0)
  <2>1. retired = 0 => c = Running.context
    BY DEF After
  <2>2. ~InImage(Running.context.pc)
    <3>1. InImage(Running.context.pc) => engine = "HYBRID"
      BY DEF Routed
    <3> QED BY <3>1
  <2> QED BY <1>2, <2>1, <2>2
<1> QED BY <1>1, <1>2, <1>3, DisposeUses

\* Every step, also one that would leave everything as it is: there is none.
LEMMA RunNextUses ==
    ASSUME RunInv, ReturnsOutside, RunNext
    PROVE  StepUses
<1>1. CASE \E c \in Context : Enter(c)
  <2> PICK c \in Context : Enter(c)
    BY <1>1
  <2> DEFINE call == [context |-> c, retired |-> 0, callbacks |-> 0, at |-> "LOOP",
                      event |-> "OTHER"]
  <2>1. call \in Call
    BY WineRunAssumption DEF Call
  <2>2. runs' = Append(runs, call)
    BY DEF Enter
  <2>3. /\ Len(runs') = Len(runs) + 1 /\ Len(runs) \in Nat
        /\ \A i \in 1 .. Len(runs) : runs'[i] = runs[i]
    BY <2>1, <2>2, EnterView DEF RunInv
  <2>4. Len(runs') # Len(runs) /\ \A i \in 1 .. Len(runs) - 1 : i \in 1 .. Len(runs)
    BY <2>3
  <2> QED BY <2>3, <2>4 DEF StepUses
<1>2. CASE TotalExpired \/ NoEngine \/ GiveUp
  <2>1. runs # <<>> /\ Return(Running.context)
    BY <1>2 DEF TotalExpired, NoEngine, GiveUp, Routed, Looping, InCallback
  <2>2. Running.context \in Context
    BY <2>1, RunningTyped DEF RunInv, Call
  <2> QED BY <2>1, <2>2, ReturnUses
<1>3. CASE Engines
  BY <1>3, EngineUses DEF Engines, Reasons
<1>4. CASE Hybrid
  BY <1>4, HybridUses
<1>5. CASE \E c \in FreshContext : Resume(c)
  BY <1>5, ResumeUses
<1> QED BY <1>1, <1>2, <1>3, <1>4, <1>5 DEF RunNext, Loop, Answer

\* If the coordinator does not return into an image (otherwise finding 7 of the
\* README), every step of a run uses up budget, callbacks or hand-overs, so that
\* no run of thread_run goes on for ever.
THEOREM RunsAreFinite ==
    ASSUME SvcBoundaries \/ "caller" \notin Link
    PROVE  RunSpec => RunsUseUp
<1>1. RunInit => ReturnsOutside
  BY DEF RunInit, ReturnsOutside, Image
<1>2. RunInv /\ ReturnsOutside /\ [RunNext]_runVars => ReturnsOutside'
  BY OutsideKept DEF ReturnsLeaveImage
<1>3. RunInv /\ ReturnsOutside /\ [RunNext]_runVars
        => [/\ \A i \in 1 .. Len(runs) - 1 : runs'[i] = runs[i]
            /\ runs # <<>> /\ Len(runs') = Len(runs) => UsesUp]_runVars
  BY RunNextUses DEF StepUses
<1> QED BY <1>1, <1>2, <1>3, RunInvariant, PTL DEF RunSpec, RunsUseUp
=============================================================================
