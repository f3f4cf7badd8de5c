--------------------------- MODULE MCNetworkStatus ---------------------------
(***************************************************************************)
(* Two connections and four waitables: a reader, a sender and somebody who *)
(* disconnects on one of them, while the other connects.  An EventType has *)
(* 16 bits; with fewer than five values ToldTheTruth would be violated.     *)
(***************************************************************************)
EXTENDS NetworkStatus, TLC

CONSTANTS id1, id2, w1, w2, w3, w4

MCIds == {id1, id2}
MCWaiters == {w1, w2, w3, w4}
MCSymmetry == Permutations(MCWaiters) \cup Permutations(MCIds)
=============================================================================
