-------------------------- MODULE HandlerRegistry --------------------------
(***************************************************************************)
(* What Net::SocketReactor promises its users, with none of its parked     *)
(* lists: a map from sockets to the handlers it owns.  A handler that is   *)
(* replaced or removed may stay allocated for a while, and may even be     *)
(* called again, but it is reclaimed in the end, never while it is called  *)
(* and never while it is registered.  The promise has one gap: a socket    *)
(* that was removed from within a call is unsteady from then on, and what  *)
(* is registered under it later may go without being removed.              *)
(***************************************************************************)
CONSTANTS Sockets, Handlers, None

VARIABLES registered,   \* the map, as the users asked for it
          owned,        \* the handler objects that are allocated
          calling,      \* the handler being called, or None
          unsteady      \* the sockets that were removed from within a call

vars == <<registered, owned, calling, unsteady>>

Registered(m) == { m[s] : s \in { t \in Sockets : m[t] # None } }

Init == /\ registered = [s \in Sockets |-> None]
        /\ owned = {}
        /\ calling = None
        /\ unsteady = {}

Without(m, gone) == [s \in Sockets |-> IF s \in gone THEN None ELSE m[s]]

(* Objects that nobody registered any more may be freed, apart from the one *)
(* being called.                                                           *)
Frees(objects) ==
  owned' \in { objects \ freed :
                  freed \in SUBSET (objects \ (Registered(registered') \cup {calling})) }

(* Ownership of h passes to the registry, under s.                         *)
Register(s, h) ==
  /\ h \notin owned
  /\ registered' = [registered EXCEPT ![s] = h]
  /\ Frees(owned \cup {h})
  /\ UNCHANGED <<calling, unsteady>>

Remove(s) ==
  /\ \E lost \in SUBSET unsteady : registered' = Without(registered, lost \cup {s})
  /\ unsteady' = IF calling = None THEN unsteady ELSE unsteady \cup {s}
  /\ Frees(owned)
  /\ UNCHANGED calling

Reclaim ==
  /\ \E lost \in SUBSET unsteady : registered' = Without(registered, lost)
  /\ Frees(owned)
  /\ UNCHANGED <<calling, unsteady>>

(* A call of a handler ends before the next one begins.                    *)
Call(h) ==
  /\ h \in owned
  /\ calling' = h
  /\ UNCHANGED <<registered, owned, unsteady>>

Return ==
  /\ calling' = None
  /\ UNCHANGED <<registered, owned, unsteady>>

Next == \/ \E s \in Sockets : Remove(s)
        \/ \E s \in Sockets, h \in Handlers : Register(s, h)
        \/ \E h \in Handlers : Call(h)
        \/ Reclaim
        \/ Return

Safety == Init /\ [][Next]_vars

(* Every object that is not registered is reclaimed in the end.            *)
Spec == Safety /\ []<>(owned = Registered(registered))
=============================================================================
