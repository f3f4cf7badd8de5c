-------------------------- MODULE MCNetworkContext --------------------------
(* Two ids, three handler addresses, and descriptors 1 to 3: enough for an *)
(* id to be reused twice while the other is open, and to run out.          *)
EXTENDS NetworkContext

MCSockets == 1..3
=============================================================================
