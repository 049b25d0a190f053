------------------------------ MODULE MCWineRun ------------------------------
(* One guest thread, in a process of each routing.                          *)
EXTENDS WineRun
=============================================================================
