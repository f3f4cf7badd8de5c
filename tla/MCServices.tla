------------------------------ MODULE MCServices ------------------------------
(***************************************************************************)
(* The UI thread and another one, a context, two services and three        *)
(* requests for a table of two references, so that the third is refused.   *)
(***************************************************************************)
EXTENDS Services

CONSTANTS ui, worker, context, s1, s2, r1, r2, r3

MCThreads == {ui, worker}
MCJContexts == {context}
MCServicesMade == {s1, s2}
MCRequests == {r1, r2, r3}
=============================================================================
