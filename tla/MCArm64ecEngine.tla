--------------------------- MODULE MCArm64ecEngine ---------------------------
(* A program that meets every kind of instruction, with a store before and   *)
(* after the load that faults, and redirections with and without the TEB.    *)
EXTENDS Arm64ecEngine

MCProgram == <<"store", "plain", "load", "store", "helper", "redirect", "syscall", "x64",
               "clobber", "redirect", "plain">>
=============================================================================
