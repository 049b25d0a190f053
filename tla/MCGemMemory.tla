---------------------------- MODULE MCGemMemory ----------------------------
(* Small instances of GemMemory.  Pages 1 and 5 are the KUSER views, pages  *)
(* 2, 3 and 4 are free, page 6 is the unusable last page.                   *)
EXTENDS GemMemory, TLC

CONSTANTS b1, b2, b3, b4

Plain(access) == [access |-> access, guard |-> FALSE]
Guard(access) == [access |-> access, guard |-> TRUE]

MCBackings == {b1, b2, b3, b4}
MCSymmetry == Permutations(MCBackings)

\* Every way to reserve, split and join the three free pages.
TopologyRanges == {<<0, 1>>, <<0, 2>>, <<2, 1>>, <<2, 2>>, <<2, 3>>, <<3, 1>>,
                   <<3, 2>>, <<4, 1>>, <<5, 1>>, <<5, 2>>, <<6, 2>>, <<2, 0>>}
TopologyProtections == {Plain("READWRITE")}

\* Two data pages, both KUSER views, an in-place, a write-copy and a
\* guarded protection.
ContentRanges == {<<1, 1>>, <<2, 1>>, <<2, 2>>}
ContentProtections ==
    {Plain("READWRITE"), Plain("EXECUTE_WRITECOPY"), Guard("READWRITE")}
=============================================================================
