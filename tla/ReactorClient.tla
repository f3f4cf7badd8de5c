--------------------------- MODULE ReactorClient ---------------------------
(***************************************************************************)
(* One thread that uses a SocketReactor: it registers and removes handlers *)
(* and calls Run, and the handlers Run calls register and remove handlers  *)
(* in turn.  Run's loop over the handlers is taken apart into one step per *)
(* call, with the calls a handler makes as steps in between.  The class is *)
(* "thread NOT safe" (SocketReactor.h:31): nothing else interleaves.       *)
(***************************************************************************)
EXTENDS SocketReactor

CONSTANTS GarbageRunning,  \* what the uninitialised _isRunning may first be
          DeferredAdds     \* do handlers register handlers?

ASSUME GarbageAssumption == GarbageRunning \subseteq BOOLEAN
ASSUME DisciplineAssumption == DeferredAdds \in BOOLEAN

VARIABLES reactor,   \* the members of the class
          stage,     \* where Run is: "idle", "pass" between two calls, or "handling"
          at,        \* the iterator of the pass: 1 + the last key visited
          wanted     \* history: the last handler registered, unless removed since

vars == <<reactor, stage, at, wanted>>

Current == CHOOSE s \in Sockets : s + 1 = at

Init == /\ \E garbage \in GarbageRunning : reactor = NewReactor(garbage)
        /\ stage = "idle"
        /\ at = 0
        /\ wanted = EmptyMap

(* RegisterHandler of a handler that `new' has just allocated, called from *)
(* outside Run or from a handler.                                          *)
Register(s, h) ==
  /\ stage = "idle" \/ (stage = "handling" /\ DeferredAdds)
  /\ h \notin reactor.live
  /\ reactor' = RegisterHandler([reactor EXCEPT !.live = @ \cup {h}], s, h)
  /\ wanted' = [wanted EXCEPT ![s] = h]
  /\ UNCHANGED <<stage, at>>

Remove(s) ==
  /\ stage \in {"idle", "handling"}
  /\ reactor' = RemoveHandler(reactor, s)
  /\ wanted' = [wanted EXCEPT ![s] = None]
  /\ UNCHANGED <<stage, at>>

(* Run finds no descriptor to select on and returns.                       *)
RunNoFd(accepted) ==
  /\ stage = "idle"
  /\ ~Selectable(accepted)
  /\ reactor' = Poll(reactor)
  /\ UNCHANGED <<stage, at, wanted>>

(* select times out or fails: Run throws, or returns for an errno that     *)
(* OnSocketError does not know.  The same for a timeout that is too large. *)
RunFails(accepted) ==
  /\ stage = "idle"
  /\ Selectable(accepted)
  /\ reactor' = Poll(reactor)
  /\ UNCHANGED <<stage, at, wanted>>

(* select reports descriptors: the pass over all handlers begins.          *)
RunReady(accepted) ==
  /\ stage = "idle"
  /\ Selectable(accepted)
  /\ reactor' = BeginPass(Poll(reactor))
  /\ stage' = "pass"
  /\ at' = 0
  /\ UNCHANGED wanted

(* Mutant: the iterator is not advanced.                                   *)
HandleWithoutAdvance(s) ==
  /\ stage = "pass"
  /\ IsNext(reactor.handlers, at, s)
  /\ reactor' = Call(reactor, {s})
  /\ stage' = "handling"
  /\ UNCHANGED <<at, wanted>>

(* The next handler is called, whether or not its descriptor is ready.     *)
Handle(s) ==
  /\ stage = "pass"
  /\ IsNext(reactor.handlers, at, s)
  /\ reactor' = Call(reactor, {s})
  /\ stage' = "handling"
  /\ at' = s + 1
  /\ UNCHANGED wanted

Return ==
  /\ stage = "handling"
  /\ stage' = "pass"
  /\ UNCHANGED <<reactor, at, wanted>>

(* The iteration is over: the parked calls are executed, Run returns.      *)
EndPass ==
  /\ stage = "pass"
  /\ IsLast(reactor.handlers, at)
  /\ reactor' = Flush(reactor)
  /\ stage' = "idle"
  /\ at' = 0
  /\ UNCHANGED wanted

Run == \E accepted \in SUBSET Keys(reactor.handlers) :
          \/ RunNoFd(accepted)
          \/ RunFails(accepted)
          \/ RunReady(accepted)

Next == \/ \E s \in Sockets : Remove(s)
        \/ \E s \in Sockets, h \in Handlers : Register(s, h)
        \/ Run
        \/ \E s \in Sockets : Handle(s)
        \/ Return
        \/ EndPass

(* A pass that has begun goes on: Handle is NOEXCEPT, and is taken to      *)
(* return.  Nothing makes the client call Run, or a descriptor ready.      *)
Fairness == /\ WF_vars(\E s \in Sockets : Handle(s))
            /\ WF_vars(Return)
            /\ WF_vars(EndPass)

Spec == Init /\ [][Next]_vars /\ Fairness

-----------------------------------------------------------------------------
(* Types, and where the iterator is in each stage of Run.                  *)
TypeOK == /\ reactor \in ReactorType
          /\ stage \in {"idle", "pass", "handling"}
          /\ at \in {0} \cup { s + 1 : s \in Sockets }
          /\ stage = "idle" => at = 0
          /\ stage = "handling" => at > 0
          /\ wanted \in HandlerMap

(* The reactor deletes no object twice and calls no deleted one: "take     *)
(* ownership" (SocketReactor.h:48) means each handler is deleted once, by  *)
(* whichever of replacement, removal and the parked removal comes first.   *)
(* This is so for any calls except registrations from inside a handler     *)
(* (DeferredAdds), whose replay breaks it.                                 *)
MemorySafe == ~reactor.corrupt

(* Every allocated handler is in the map: nothing the reactor took         *)
(* ownership of is ever forgotten.                                         *)
NoLeak == reactor.live = Pointers(reactor.handlers)

(* While a handler runs, its own entry stays in the map (the iterator of   *)
(* the pass points at it) and its object stays allocated, even when it     *)
(* removes itself: that is what the parked removals are for.               *)
HandlerOutlivesCall ==
  stage = "handling" => /\ reactor.handlers[Current] # None
                        /\ reactor.handlers[Current] \in reactor.live

(* The descriptor s was removed inside a pass, at some time, and is not in *)
(* the map: RemoveHandler and Run remove it again and again.               *)
Lost(s) == s \in reactor.aboutRemove /\ reactor.handlers[s] = None

(* Between two calls of Run the map is what the calls of Register- and     *)
(* RemoveHandler asked for: no removed handler stays or comes back, and a  *)
(* registration is there unless its descriptor had once been removed       *)
(* inside a pass, whatever descriptors are registered again.  (Again as    *)
(* long as handlers register none.)                                        *)
IdleInSync ==
  stage = "idle" => \A s \in Sockets : reactor.handlers[s] = wanted[s] \/ Lost(s)

(* Whatever was asked of the reactor takes effect in the end, parked or    *)
(* not, but for the registrations that a replayed removal takes away.      *)
Settles == \A s \in Sockets : []<>(reactor.handlers[s] = wanted[s] \/ Lost(s))

(* What the reactor still stands for of what was asked.                    *)
Promised == [s \in Sockets |-> IF Lost(s) THEN None ELSE wanted[s]]

(* The reactor implements the registry: parked removals are registry       *)
(* removals that have not been reclaimed yet, and what they take away when *)
(* they are replayed are unsteady sockets.                                 *)
Registry == INSTANCE HandlerRegistry WITH
              registered <- Promised,
              owned <- reactor.live,
              calling <- IF stage = "handling"
                           THEN reactor.handlers[Current] ELSE None,
              unsteady <- reactor.aboutRemove

ImplementsRegistry == Registry!Spec
=============================================================================
