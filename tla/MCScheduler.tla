----------------------------- MODULE MCScheduler -----------------------------
(* A small scheduler for TLC: three threads and two priorities.  No action *)
(* reads a thread's address space, so one value of it is enough.           *)
EXTENDS Scheduler

MCPrio == {0, 1}
MCTicks == {2}
MCBudget == {1, 3}
=============================================================================
