---------------------------- MODULE MCKernelSync ----------------------------
(* Small instances of KernelSync for TLC.                                  *)
EXTENDS KernelSync

TwoThreads == {1, 2}        \* both run by Scheduler::run
=============================================================================
