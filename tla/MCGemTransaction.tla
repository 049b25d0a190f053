-------------------------- MODULE MCGemTransaction --------------------------
(* Small instances of GemTransaction.  Pages 1 and 3 are the two views of   *)
(* KUSER, an alias pair from the start; page 2 is free.                     *)
EXTENDS GemTransaction, TLC

CONSTANTS b1, b2, b3, t1, t2

Plain(access) == [access |-> access, guard |-> FALSE]
Guard(access) == [access |-> access, guard |-> TRUE]

MCBackings == {b1, b2, b3}
MCThreads == {t1, t2}
MCSymmetry == Permutations(MCBackings) \cup Permutations(MCThreads)

\* Two cache lines per page, so that a half-copied page differs from both the
\* old and the new one.
MCContents == [1 .. 2 -> 0 .. 1]
MCZero == [l \in 1 .. 2 |-> 0]
MCOnes == [l \in 1 .. 2 |-> 1]
MCStores == {MCOnes}
TwoStores == {MCOnes, MCZero}

\* No two pages or backings share a stripe: a collision only makes threads wait.
MCStripe == [x \in Address \cup Backings |-> x]
MCHash(c) == <<c[1], c[2]>>

AliasRanges == {<<1, 1>>}
AliasProtections == {Plain("READWRITE")}
CopyRanges == {<<2, 1>>}
RaceRanges == {<<2, 1>>, <<4, 1>>}
RaceProtections == {Plain("WRITECOPY"), Plain("READWRITE")}
HostProtections == {Guard("WRITECOPY")}
=============================================================================
