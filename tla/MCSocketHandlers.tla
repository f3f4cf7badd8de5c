--------------------------- MODULE MCSocketHandlers ---------------------------
(***************************************************************************)
(* A TCP and a UDP handler, and three streams of two buffers: two streams  *)
(* can wait in the queue of a handler whose first one is being sent.  The  *)
(* options of a descriptor depend on none of that: one of them is set, and *)
(* OptionsInForce looks at every second call.                              *)
(***************************************************************************)
EXTENDS SocketHandlers

CONSTANTS tcp, udp, noDelay, keepAlive

MCSockets == {tcp, udp}
MCUDP == {udp}
MCFlags == {noDelay, keepAlive}
MCDurations == {-1001, -1, 0, 1, 1001, IntMax, IntMax + 1}
=============================================================================
