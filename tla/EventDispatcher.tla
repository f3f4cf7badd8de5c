-------------------------- MODULE EventDispatcher --------------------------
(***************************************************************************)
(* Dispatch::EventDispatcher on the thread it is attached to: handlers are *)
(* registered per event type and called by Dispatch.  A handler may        *)
(* register and unregister handlers, itself included, and dispatch further *)
(* events through a Notifier, while Dispatch is calling it.  Handlers are  *)
(* shared pointers: one is destroyed with its last owner.                  *)
(***************************************************************************)
EXTENDS Naturals, Sequences

CONSTANTS Events,             \* event types
          Handlers,           \* handler objects
          None,
          MaxDepth            \* bound: dispatches within dispatches

ASSUME DispatcherAssumption == /\ None \notin Handlers
                               /\ MaxDepth \in Nat \ {0}

VARIABLES handlers,  \* _handlers: the types that have an entry, to their sets
          calls,     \* the activations of Dispatch, the innermost last
          held,      \* handlers that somebody outside the dispatcher owns
          wanted,    \* history: the pairs registered and not unregistered since
          alive      \* the process has not been terminated

vars == <<handlers, calls, held, wanted, alive>>

(* What Dispatch has on its stack: the handlers its copy of the set still  *)
(* has to call, the handlers the copy owns, and the one being called;      *)
(* heard and due are histories.                                            *)
Frame == [ event : Events, todo : SUBSET Handlers, owned : SUBSET Handlers,
           current : Handlers \cup {None},
           heard : SUBSET Handlers, due : SUBSET Handlers ]

Tables == UNION { [E -> SUBSET Handlers] : E \in SUBSET Events }

Of(ev) == IF ev \in DOMAIN handlers THEN handlers[ev] ELSE {}

Due(ev) == { h \in Handlers : <<ev, h>> \in wanted }

Top == calls[Len(calls)]

(* Outside Dispatch, or inside a handler that it calls.                    *)
Outside == alive /\ calls = <<>>
Inside == alive /\ calls # <<>> /\ Top.current # None
UserCode == Outside \/ Inside

With(ev, hs) == [e \in DOMAIN handlers \cup {ev} |-> IF e = ev THEN hs ELSE handlers[e]]

Init == /\ handlers = [e \in {} |-> {}]
        /\ calls = <<>>
        /\ held = Handlers
        /\ wanted = {}
        /\ alive = TRUE

-----------------------------------------------------------------------------
(* Registration.                                                           *)

(* Mutant: the handlers that were registered for the event are lost.       *)
RegisterReplaces(ev, hs) ==
  /\ UserCode
  /\ hs \subseteq held
  /\ handlers' = With(ev, hs)
  /\ wanted' = wanted \cup ({ev} \X hs)
  /\ UNCHANGED <<calls, held, alive>>

(* The form with a set of handlers, null pointers removed.  An empty set   *)
(* leaves an empty entry behind; one handler is the case of a singleton.   *)
Register(ev, hs) ==
  /\ UserCode
  /\ hs \subseteq held
  /\ handlers' = With(ev, Of(ev) \cup hs)
  /\ wanted' = wanted \cup ({ev} \X hs)
  /\ UNCHANGED <<calls, held, alive>>

(* The form with a set of events.                                          *)
RegisterFor(evs, h) ==
  /\ UserCode
  /\ h \in held
  /\ handlers' = [e \in DOMAIN handlers \cup evs |-> IF e \in evs THEN Of(e) \cup {h}
                                                                  ELSE handlers[e]]
  /\ wanted' = wanted \cup (evs \X {h})
  /\ UNCHANGED <<calls, held, alive>>

(* "remove all the handler by specific event"                              *)
UnregisterEvent(ev) ==
  /\ UserCode
  /\ handlers' = [e \in DOMAIN handlers \ {ev} |-> handlers[e]]
  /\ wanted' = wanted \ ({ev} \X Handlers)
  /\ UNCHANGED <<calls, held, alive>>

(* The entry stays when its set becomes empty.                             *)
Unregister(ev, h) ==
  /\ UserCode
  /\ h \in held
  /\ handlers' = IF ev \in DOMAIN handlers THEN With(ev, Of(ev) \ {h}) ELSE handlers
  /\ wanted' = wanted \ {<<ev, h>>}
  /\ UNCHANGED <<calls, held, alive>>

(* "remove specific handler registered any events": the loop variable is a *)
(* copy of each entry, and the handler is erased from the copies, so that  *)
(* it stays registered though it is not wanted.                            *)
UnregisterHandler(h) ==
  /\ UserCode
  /\ h \in held
  /\ wanted' = wanted \ (Events \X {h})
  /\ UNCHANGED <<handlers, calls, held, alive>>

(* An owner outside the dispatcher gives its handler up.                   *)
Release(h) ==
  /\ UserCode
  /\ h \in held
  /\ held' = held \ {h}
  /\ UNCHANGED <<handlers, calls, wanted, alive>>

-----------------------------------------------------------------------------
(* Dispatch: called by the thread's loop for an event message, or by a     *)
(* handler through Notifier::Notify.                                       *)

(* Mutant: the loop runs over the registered set, not over a copy.         *)
DispatchByReference(ev) ==
  /\ UserCode
  /\ Len(calls) < MaxDepth
  /\ ev \in DOMAIN handlers
  /\ calls' = Append(calls, [ event |-> ev, todo |-> handlers[ev], owned |-> {},
                              current |-> None, heard |-> {}, due |-> Due(ev) ])
  /\ UNCHANGED <<handlers, held, wanted, alive>>

Dispatch(ev) ==
  /\ UserCode
  /\ Len(calls) < MaxDepth
  /\ ev \in DOMAIN handlers
  /\ calls' = Append(calls, [ event |-> ev, todo |-> handlers[ev], owned |-> handlers[ev],
                              current |-> None, heard |-> {}, due |-> Due(ev) ])
  /\ UNCHANGED <<handlers, held, wanted, alive>>

(* No entry for the type: nothing is called.                               *)
DispatchNothing(ev) ==
  /\ UserCode
  /\ ev \notin DOMAIN handlers
  /\ UNCHANGED vars

(* The set is ordered by address, which says nothing: any order.           *)
Call(h) ==
  /\ alive /\ calls # <<>>
  /\ Top.current = None
  /\ h \in Top.todo
  /\ calls' = [calls EXCEPT ![Len(calls)].todo = @ \ {h}, ![Len(calls)].current = h,
                            ![Len(calls)].heard = @ \cup {h}]
  /\ UNCHANGED <<handlers, held, wanted, alive>>

Return ==
  /\ Inside
  /\ calls' = [calls EXCEPT ![Len(calls)].current = None]
  /\ UNCHANGED <<handlers, held, wanted, alive>>

(* An exception out of a handler meets Dispatch's NOEXCEPT.                *)
Throw ==
  /\ Inside
  /\ alive' = FALSE
  /\ UNCHANGED <<handlers, calls, held, wanted>>

EndDispatch ==
  /\ alive /\ calls # <<>>
  /\ Top.current = None /\ Top.todo = {}
  /\ calls' = SubSeq(calls, 1, Len(calls) - 1)
  /\ UNCHANGED <<handlers, held, wanted, alive>>

Next == \/ \E ev \in Events, hs \in SUBSET Handlers : Register(ev, hs)
        \/ \E evs \in SUBSET Events, h \in Handlers : RegisterFor(evs, h)
        \/ \E ev \in Events : \/ UnregisterEvent(ev)
                              \/ Dispatch(ev)
                              \/ DispatchNothing(ev)
        \/ \E ev \in Events, h \in Handlers : Unregister(ev, h)
        \/ \E h \in Handlers : UnregisterHandler(h) \/ Release(h) \/ Call(h)
        \/ Return
        \/ Throw
        \/ EndDispatch

Spec == Init /\ [][Next]_vars

-----------------------------------------------------------------------------
(* Types; only the innermost activation is between two calls.              *)
TypeOK == /\ handlers \in Tables
          /\ calls \in Seq(Frame)
          /\ \A i \in 1..(Len(calls) - 1) : calls[i].current # None
          /\ held \subseteq Handlers
          /\ wanted \subseteq Events \X Handlers
          /\ alive \in BOOLEAN

(* A handler is never destroyed while one of its activations is on the     *)
(* stack, though it unregisters itself and its owners give it up meanwhile *)
(* (the copy at EventDispatch.cpp:87 is what keeps it).                    *)
RunningIsOwned ==
  \A i \in DOMAIN calls :
     LET h == calls[i].current
     IN  h # None => \/ h \in held
                     \/ \E ev \in Events : h \in Of(ev)
                     \/ \E j \in DOMAIN calls : h \in calls[j].owned

(* A dispatch is heard by every handler that was registered for its event, *)
(* and not unregistered by any form of Unregister, when it began, whatever *)
(* the handlers register, unregister or dispatch in the meantime           *)
(* (EventDispatch.cpp:81-94).  One that was unregistered may hear it still.*)
EveryoneHears ==
  [][ Len(calls') < Len(calls) => Top.due \subseteq Top.heard ]_vars
=============================================================================
