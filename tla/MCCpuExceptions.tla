--------------------------- MODULE MCCpuExceptions ---------------------------
(* A processor for TLC: areas of two instructions and a timer that is set  *)
(* to expire in the second turn or never before the end.                   *)
EXTENDS CpuExceptions

MCCompare == {2, 9}
=============================================================================
