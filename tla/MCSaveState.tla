----------------------------- MODULE MCSaveState -----------------------------
(* One port of the guest's own.                                            *)
EXTENDS SaveState

CONSTANT own

MCGuestPorts == {own}
=============================================================================
