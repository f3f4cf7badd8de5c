-------------------------- MODULE MCClientRunnable --------------------------
(* Two posters of two messages each, and an array of two: a deque longer   *)
(* than the array, a batch left half handled while posts come in, and a    *)
(* second use of the array all happen.                                     *)
EXTENDS ClientRunnable
=============================================================================
