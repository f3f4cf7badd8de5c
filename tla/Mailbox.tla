------------------------------ MODULE Mailbox ------------------------------
(***************************************************************************)
(* What posting to a thread's message queue promises: every message that   *)
(* was accepted is consumed once, in the order of acceptance, until the    *)
(* process ends.                                                           *)
(***************************************************************************)
EXTENDS Sequences

CONSTANT Messages

VARIABLES pending,    \* accepted, not consumed yet
          consumed,   \* consumed, in order
          open        \* the process runs

vars == <<pending, consumed, open>>

Elements(seq) == { seq[i] : i \in DOMAIN seq }

Init == /\ pending = <<>>
        /\ consumed = <<>>
        /\ open = TRUE

Accept(m) == /\ open
             /\ m \notin Elements(pending) \cup Elements(consumed)
             /\ pending' = Append(pending, m)
             /\ UNCHANGED <<consumed, open>>

Consume == /\ open
           /\ pending # <<>>
           /\ pending' = Tail(pending)
           /\ consumed' = Append(consumed, Head(pending))
           /\ UNCHANGED open

End == /\ open' = FALSE
       /\ UNCHANGED <<pending, consumed>>

Next == (\E m \in Messages : Accept(m)) \/ Consume \/ End

Safety == Init /\ [][Next]_vars

Spec == Safety /\ WF_vars(Consume)
=============================================================================
