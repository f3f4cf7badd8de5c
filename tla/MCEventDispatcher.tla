------------------------- MODULE MCEventDispatcher -------------------------
(* Two types and two handlers, and a dispatch within a dispatch: a handler *)
(* meets itself, another handler, and a change of the set it was copied    *)
(* from.  No action prefers one type or handler, and no property is about  *)
(* liveness: the symmetry is sound.                                        *)
EXTENDS EventDispatcher, TLC

Symmetry == Permutations(Events) \cup Permutations(Handlers)
=============================================================================
