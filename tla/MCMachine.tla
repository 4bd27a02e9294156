------------------------------ MODULE MCMachine ------------------------------
(* Two threads and the main program on a machine of three general and two  *)
(* SIMD registers, observed in each register in turn.                      *)
EXTENDS Machine

\* The link register is 30.
MCReg == {0, 1, 30}
=============================================================================
