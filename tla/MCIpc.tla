-------------------------------- MODULE MCIpc --------------------------------
(* A booted service, and a port the guest makes and no dispatcher serves.  *)
EXTENDS Ipc

CONSTANTS vi, own

MCName == {vi, own}
MCBooted == {vi}
MCGuest == {own, vi}
NoGuest == {}
=============================================================================
