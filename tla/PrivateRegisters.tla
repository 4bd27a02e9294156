-------------------------- MODULE PrivateRegisters --------------------------
(* What "each thread carries its CPU context" promises (hos/Thread.h:3), of *)
(* one register: every thread has its own, and only the thread that runs    *)
(* changes its own.  A register the contexts leave out is common: there is  *)
(* one for all, and whoever runs, the main program too, changes it.         *)
CONSTANTS Thread, Main, Data, Zero

VARIABLES
  common,   \* the contexts leave this register out
  turn,     \* who runs: a thread, or the main program
  file      \* what the register of each thread holds

Init == common \in BOOLEAN /\ turn = Main /\ file = [t \in Thread |-> Zero]

Compute ==
  /\ ~common
  /\ \E d \in Data : turn \in Thread /\ file' = [file EXCEPT ![turn] = d]
  /\ UNCHANGED <<common, turn>>

Overwrite ==
  /\ common
  /\ \E d \in Data : file' = [t \in Thread |-> d]
  /\ UNCHANGED <<common, turn>>

Switch == turn' \in Thread \cup {Main} /\ UNCHANGED <<common, file>>

Spec == Init /\ [][Compute \/ Overwrite \/ Switch]_<<common, turn, file>>
=============================================================================
