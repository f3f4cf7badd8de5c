------------------------------ MODULE MCStartup ------------------------------
(* The synchronizer with two threads, and the application with its one.    *)
EXTENDS Startup
=============================================================================
