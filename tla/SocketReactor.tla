--------------------------- MODULE SocketReactor ---------------------------
(***************************************************************************)
(* The class Net::SocketReactor (Network/SocketReactor.h, .cpp) as data:   *)
(* a record with the class's members, and one operator per method or loop  *)
(* that maps the record before the call to the record after it.  The       *)
(* modules that drive a reactor (ReactorClient, NetworkContext) compose    *)
(* these operators into the actions of their handlers.                     *)
(*                                                                         *)
(* The reactor owns the SocketEventHandler objects it is given, through    *)
(* raw pointers.  `live' is the set of handler objects that are allocated  *)
(* and `corrupt' becomes TRUE when a method deletes, or calls, an object   *)
(* that is not: both are ghost fields, the heap as the class should see it.*)
(***************************************************************************)
EXTENDS Naturals

CONSTANTS Sockets,        \* the file descriptors, the keys of the std::maps
          Handlers,       \* the addresses of SocketEventHandler objects
          None            \* no entry under that key

ASSUME SocketsAssumption == Sockets \subseteq Nat
ASSUME NoneAssumption == None \notin Handlers

HandlerMap == [Sockets -> Handlers \cup {None}]

EmptyMap == [s \in Sockets |-> None]

(* _aboutRemoveHandlers is a vector that only grows; removing the same     *)
(* socket twice in a row finds nothing the second time, so the set of its  *)
(* elements is what the loops over it depend on.                           *)
ReactorType == [ running : BOOLEAN,
                 handlers : HandlerMap,
                 aboutAdd : HandlerMap,
                 aboutRemove : SUBSET Sockets,
                 live : SUBSET Handlers,
                 corrupt : BOOLEAN ]

(* No constructor initialises _isRunning: its first value is whatever the  *)
(* memory held.                                                            *)
NewReactor(garbage) == [ running |-> garbage,
                         handlers |-> EmptyMap,
                         aboutAdd |-> EmptyMap,
                         aboutRemove |-> {},
                         live |-> {},
                         corrupt |-> FALSE ]

Keys(m) == { s \in Sockets : m[s] # None }
Pointers(m) == { m[s] : s \in Keys(m) }

(* `delete foundpair->second' for every socket of gone, whose entries are  *)
(* all present.  Deleting a freed object, or one object twice, corrupts    *)
(* the heap.                                                               *)
Delete(r, gone) ==
  [ r EXCEPT !.live = @ \ { r.handlers[s] : s \in gone },
             !.corrupt = \/ @
                         \/ \E s \in gone : r.handlers[s] \notin r.live
                         \/ \E s, t \in gone :
                              s # t /\ r.handlers[s] = r.handlers[t] ]

(* Mutant: a replaced handler is not deleted.                              *)
OnRegisterAllKeepsOld(r, adds) ==
  [ r EXCEPT !.handlers = [s \in Sockets |-> IF s \in Keys(adds) THEN adds[s] ELSE @[s]] ]

(* OnRegisterHandler for every entry of adds: an entry with another        *)
(* handler under its key is deleted and replaced, the same handler is left *)
(* alone, a missing one is inserted.                                       *)
OnRegisterAll(r, adds) ==
  LET replaced == { s \in Keys(adds) : r.handlers[s] \notin {None, adds[s]} }
  IN  [ Delete(r, replaced) EXCEPT
          !.handlers = [s \in Sockets |-> IF s \in Keys(adds) THEN adds[s]
                                                              ELSE @[s]] ]

(* Mutant: the handler is deleted, its entry is not erased.                *)
OnRemoveAllKeepsEntry(r, gone) == Delete(r, gone \cap Keys(r.handlers))

(* OnRemoveHandler for every socket of gone: present entries are deleted   *)
(* and erased, missing ones are ignored.                                   *)
OnRemoveAll(r, gone) ==
  [ Delete(r, gone \cap Keys(r.handlers)) EXCEPT
      !.handlers = [s \in Sockets |-> IF s \in gone THEN None ELSE @[s]] ]

(* Mutant: a handler that is already registered is not replaced.           *)
RegisterHandlerKeepsOld(r, s, h) ==
  IF r.running \/ r.handlers[s] # None
    THEN r
    ELSE OnRegisterAll(r, [EmptyMap EXCEPT ![s] = h])

(* RegisterHandler of a valid socket and a handler.  While a pass runs the *)
(* entry is parked with std::map::insert, which keeps an entry that is     *)
(* already there; otherwise the parked entries are registered first, and   *)
(* stay parked.                                                            *)
RegisterHandler(r, s, h) ==
  IF r.running
    THEN [ r EXCEPT !.aboutAdd[s] = IF @ = None THEN h ELSE @ ]
    ELSE OnRegisterAll(OnRegisterAll(r, r.aboutAdd), [EmptyMap EXCEPT ![s] = h])

(* Mutant: a removal is executed at once, even while a pass runs.          *)
RemoveHandlerAtOnce(r, s) == OnRemoveAll(OnRemoveAll(r, r.aboutRemove), {s})

(* Mutant: a removal that cannot be executed at once is forgotten.         *)
RemoveHandlerForgets(r, s) == IF r.running THEN r ELSE RemoveHandlerAtOnce(r, s)

(* RemoveHandler: parked while a pass runs; otherwise every parked removal *)
(* is executed again before this one.                                      *)
RemoveHandler(r, s) ==
  IF r.running
    THEN [ r EXCEPT !.aboutRemove = @ \cup {s} ]
    ELSE OnRemoveAll(OnRemoveAll(r, r.aboutRemove), {s})

(* Calling Accept or Handle on the handlers of the sockets `called'.       *)
Call(r, called) ==
  [ r EXCEPT !.corrupt = @ \/ \E s \in called : r.handlers[s] \notin r.live ]

(* Run asks every handler which modes it accepts.                          *)
Poll(r) == Call(r, Keys(r.handlers))

(* nfd starts at 0 and only a larger descriptor replaces it: descriptor 0  *)
(* alone leaves nothing to select on and Run returns.                      *)
Selectable(accepted) == \E s \in accepted : s > 0

(* Autobool sets the flag for the duration of the loop over the handlers.  *)
BeginPass(r) == [ r EXCEPT !.running = TRUE ]

(* Mutant: only the parked additions are executed.                         *)
FlushAddsOnly(r) ==
  LET idle == [ r EXCEPT !.running = FALSE ] IN OnRegisterAll(idle, idle.aboutAdd)

(* Autobool clears the flag; then both parked lists are executed.  Neither *)
(* is cleared.                                                             *)
Flush(r) ==
  LET idle == [ r EXCEPT !.running = FALSE ]
      added == OnRegisterAll(idle, idle.aboutAdd)
  IN  OnRemoveAll(added, added.aboutRemove)

(* The successor of key `at' in the iteration of the std::map m: the least *)
(* key above it.  The iteration begins below every key.                    *)
IsNext(m, at, s) == /\ s \in Keys(m) /\ s + 1 > at
                    /\ \A t \in Keys(m) : t + 1 > at => s <= t

IsLast(m, at) == \A s \in Keys(m) : s + 1 <= at
=============================================================================
