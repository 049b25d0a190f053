----------------------------- MODULE MCGemLocks -----------------------------
(* Three threads: a shared and an exclusive operation and commits that read *)
(* one of two stripes and write the other.  Stripe 3 is what fault handlers *)
(* ask for.                                                                 *)
EXTENDS GemLocks

CONSTANTS t1, t2, t3

MCThreads == {t1, t2, t3}
TwoThreads == {t1, t2}

Exclusive(S) == [reads |-> {}, writes |-> S, commit |-> FALSE]
Shared(S) == [reads |-> S, writes |-> {}, commit |-> FALSE]
Committing(R, W) == [reads |-> R, writes |-> W, commit |-> TRUE]

MCPlans == {Exclusive({1, 2}), Shared({1}), Committing({1}, {2}), Committing({2}, {1}),
            Committing({3}, {1})}
\* A handler that changes the protection of the caller's buffer, and one that
\* changes the protection of the faulting operation's own page.
OtherPage == {Exclusive({3})}
SamePage == {Exclusive({1})}
=============================================================================
