------------------------ MODULE MCHybridCoordinator ------------------------
(* One ARM64EC function and one x64 function.                               *)
EXTENDS HybridCoordinator

CONSTANTS arm, x64, ret, host

MCAddress == {arm, x64, ret, host}
MCResolve ==
    [pc \in MCAddress |->
        [kind |-> CASE pc = arm -> "ARM" [] pc = x64 -> "X64" [] OTHER -> "NONE",
         va |-> pc]]
MCThunk == [pc \in MCAddress |-> pc]
=============================================================================
