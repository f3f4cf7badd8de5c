---------------------------- MODULE MCUIMessages ----------------------------
(* Two posters of two messages each: they interleave with each other, with *)
(* the UI thread and with the collector.                                   *)
EXTENDS UIMessages
=============================================================================
