---------------------------- MODULE ArchCallStack ----------------------------
(***************************************************************************)
(* What the stateful coordinator promises of a guest thread that crosses   *)
(* architectures: its unfinished cross-architecture calls form a stack of  *)
(* continuations, a return resumes exactly the newest one, and a failure   *)
(* drops all of them together.  Code running on either side can move its   *)
(* own pc and sp but no other part of this state.                          *)
(***************************************************************************)
EXTENDS Naturals, Sequences

CONSTANTS Address, StackPointer

VARIABLES
    isa,            \* architecture of the running code
    pc, sp,         \* its program counter and stack pointer
    originalSp,     \* the x64 stack pointer its caller had
    continuations   \* newest last

vars == <<isa, pc, sp, originalSp, continuations>>

ISA == {"ARM64EC", "X64"}
Continuation == [isa : ISA, pc : Address, sp : StackPointer, originalSp : StackPointer]

Init == isa = "ARM64EC" /\ continuations = <<>>

\* The thread runs, or its owner resumes it with new registers.
Execute == UNCHANGED <<isa, originalSp, continuations>>

\* A call to the other architecture saves where and how the caller resumes.
Call ==
    /\ isa' # isa
    /\ Len(continuations') = Len(continuations) + 1
    /\ LET c == continuations'[Len(continuations')]
       IN /\ c \in Continuation /\ c.isa = isa /\ c.originalSp = originalSp
          /\ continuations' = Append(continuations, c)

\* An x64 jump to ARM64EC code leaves the jumper's caller to return to.
TailCall == isa = "X64" /\ isa' = "ARM64EC" /\ UNCHANGED continuations

Return ==
    /\ continuations # <<>>
    /\ LET c == continuations[Len(continuations)]
       IN isa' = c.isa /\ pc' = c.pc /\ sp' = c.sp /\ originalSp' = c.originalSp
    /\ continuations' = SubSeq(continuations, 1, Len(continuations) - 1)

\* A failed transition abandons every pending call, never some of them; a
\* thread without pending calls may also start over with another context.
Abandon == isa' = "ARM64EC" /\ continuations' = <<>>

Next == Execute \/ Call \/ TailCall \/ Return \/ Abandon

Spec == Init /\ [][Next]_vars
=============================================================================
