---------------------------- MODULE MCGuestMemory ----------------------------
(* RAM of one, a heap of at most two above it, room for aliases: four      *)
(* requests can map three regions besides RAM and unmap one, which moves   *)
(* another.                                                                *)
EXTENDS GuestMemory

\* Read and write, and read only.
MCPerms == {{"r", "w"}, {"r"}}
=============================================================================
