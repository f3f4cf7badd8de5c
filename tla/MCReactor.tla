----------------------------- MODULE MCReactor -----------------------------
(* Descriptors 0, 1 and 2 (0 is the one that select alone cannot serve)    *)
(* and three handler addresses, which the allocator hands out again once   *)
(* they are freed.                                                         *)
EXTENDS ReactorClient

MCSockets == 0..2

MCFalse == {FALSE}
=============================================================================
