-------------------------- MODULE MCHybridOneShot --------------------------
(* One ARM64EC function and two x64 addresses: a function, which is the     *)
(* outer and the inner target, and the address after its call.              *)
EXTENDS HybridOneShot

CONSTANTS arm, x64, after, ret, host

MCAddress == {arm, x64, after, ret, host}
MCResolve ==
    [pc \in MCAddress |->
        [kind |-> CASE pc = arm -> "ARM" [] pc \in {x64, after} -> "X64" [] OTHER -> "NONE",
         va |-> pc]]
MCThunk == [pc \in MCAddress |-> pc]
MCControl == [start |-> arm, outer |-> x64, callback |-> arm, resume |-> after, inner |-> x64,
              finish |-> arm]
=============================================================================
