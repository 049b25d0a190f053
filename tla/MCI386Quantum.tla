--------------------------- MODULE MCI386Quantum ---------------------------
(* One thread's program on two pages.                                       *)
EXTENDS I386Quantum

CONSTANTS t1, x, y

I(op, p) == [op |-> op, page |-> p]

OneThread == {t1}
MCPages == {x, y}

\* A locked and a plain increment, a load of a page others write, a fault.
Straight == [t \in {t1} |-> <<I("inc", x), I("load", y), I("lock", x), I("fault", y)>>]
=============================================================================
