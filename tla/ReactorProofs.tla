--------------------------- MODULE ReactorProofs ---------------------------
(***************************************************************************)
(* What ReactorClient's runs check on three sockets and three handlers,    *)
(* proved for all of them.                                                 *)
(*                                                                         *)
(* The argument: as long as no handler registers a handler and _isRunning  *)
(* starts FALSE, nothing is ever parked for addition; then every allocated *)
(* object is in the map exactly once (Owned), so each `delete' meets a     *)
(* live object and each object is deleted at most once.                    *)
(***************************************************************************)
EXTENDS ReactorClient, TLAPS

(* The map holds every allocated object, each under one key, and the heap  *)
(* is sound.                                                               *)
Owned(r) == /\ ~r.corrupt
            /\ r.live = Pointers(r.handlers)
            /\ \A s, t \in Keys(r.handlers) :
                  r.handlers[s] = r.handlers[t] => s = t

(* Executing removals on a reactor that owns its handlers frees each of    *)
(* them once: the loops over OnRemoveHandler (SocketReactor.cpp:131, 164). *)
LEMMA RemoveAllFields ==
  ASSUME NEW r \in ReactorType, NEW gone \in SUBSET Sockets
  PROVE  LET q == OnRemoveAll(r, gone)
         IN  /\ q \in ReactorType
             /\ q.running = r.running
             /\ q.aboutAdd = r.aboutAdd
             /\ q.aboutRemove = r.aboutRemove
             /\ q.handlers = [s \in Sockets |-> IF s \in gone THEN None ELSE r.handlers[s]]
             /\ q.live = r.live \ { r.handlers[s] : s \in gone \cap Keys(r.handlers) }
BY DEF OnRemoveAll, Delete, ReactorType, HandlerMap, Keys

LEMMA RemoveAllOwned ==
  ASSUME NEW r \in ReactorType, NEW gone \in SUBSET Sockets, Owned(r)
  PROVE  Owned(OnRemoveAll(r, gone))
<1> DEFINE q == OnRemoveAll(r, gone)
<1>1. /\ q.handlers = [s \in Sockets |-> IF s \in gone THEN None ELSE r.handlers[s]]
      /\ q.live = r.live \ { r.handlers[s] : s \in gone \cap Keys(r.handlers) }
  BY RemoveAllFields
<1>2. q.corrupt = ( \/ r.corrupt
                    \/ \E s \in gone \cap Keys(r.handlers) : r.handlers[s] \notin r.live
                    \/ \E s, t \in gone \cap Keys(r.handlers) :
                         s # t /\ r.handlers[s] = r.handlers[t] )
  BY DEF OnRemoveAll, Delete, ReactorType
<1>3. ~q.corrupt
  BY <1>2 DEF Owned, Pointers
<1>4. Keys(q.handlers) = Keys(r.handlers) \ gone
  BY <1>1 DEF Keys
<1>5. q.live = Pointers(q.handlers)
  <2>1. Pointers(q.handlers) = { r.handlers[s] : s \in Keys(r.handlers) \ gone }
    BY <1>1, <1>4 DEF Pointers, Keys
  <2>2. /\ r.live = { r.handlers[s] : s \in Keys(r.handlers) }
        /\ \A s, t \in Keys(r.handlers) : r.handlers[s] = r.handlers[t] => s = t
    BY DEF Owned, Pointers
  <2>3. { r.handlers[s] : s \in Keys(r.handlers) \ gone }
          = { r.handlers[s] : s \in Keys(r.handlers) }
            \ { r.handlers[s] : s \in gone \cap Keys(r.handlers) }
    BY <2>2
  <2> QED
    BY <1>1, <2>1, <2>2, <2>3
<1>6. \A s, t \in Keys(q.handlers) : q.handlers[s] = q.handlers[t] => s = t
  BY <1>1, <1>4 DEF Owned, Keys
<1> QED
  BY <1>3, <1>5, <1>6 DEF Owned

(* Replaying an empty list of parked additions changes nothing.            *)
LEMMA RegisterNothing ==
  ASSUME NEW r \in ReactorType
  PROVE  OnRegisterAll(r, EmptyMap) = r
<1>1. Keys(EmptyMap) = {}
  BY DEF Keys, EmptyMap
<1>2. Delete(r, {}) = r
  BY DEF Delete, ReactorType
<1>3. [s \in Sockets |-> IF s \in Keys(EmptyMap) THEN EmptyMap[s] ELSE r.handlers[s]]
        = r.handlers
  BY <1>1 DEF ReactorType, HandlerMap
<1> QED
  BY <1>1, <1>2, <1>3 DEF OnRegisterAll, ReactorType

(* Registering a freshly allocated handler (SocketReactor.cpp:171-189):    *)
(* the handler it replaces is freed, the map owns the new one.             *)
LEMMA RegisterOneOwned ==
  ASSUME NEW r \in ReactorType, Owned(r),
         NEW s \in Sockets, NEW h \in Handlers, h \notin r.live
  PROVE  LET q == OnRegisterAll([r EXCEPT !.live = @ \cup {h}], [EmptyMap EXCEPT ![s] = h])
         IN  /\ q \in ReactorType
             /\ Owned(q)
             /\ q.running = r.running
             /\ q.aboutAdd = r.aboutAdd
             /\ q.aboutRemove = r.aboutRemove
             /\ q.handlers = [r.handlers EXCEPT ![s] = h]
<1> DEFINE one == [EmptyMap EXCEPT ![s] = h]
           old == { t \in Keys(one) : r.handlers[t] \notin {None, one[t]} }
           p == [r EXCEPT !.live = @ \cup {h}]
           q == OnRegisterAll(p, one)
<1>1. Keys(one) = {s} /\ one[s] = h
  BY NoneAssumption DEF Keys, EmptyMap
<1>2. p \in ReactorType /\ p.handlers = r.handlers /\ p.corrupt = r.corrupt
      /\ p.live = r.live \cup {h} /\ p.running = r.running
      /\ p.aboutAdd = r.aboutAdd /\ p.aboutRemove = r.aboutRemove
  BY DEF ReactorType
<1>3. /\ r.live = { r.handlers[t] : t \in Keys(r.handlers) }
      /\ \A t, u \in Keys(r.handlers) : r.handlers[t] = r.handlers[u] => t = u
      /\ ~r.corrupt
  BY DEF Owned, Pointers
<1>4. r.handlers[s] # h
  BY <1>3, NoneAssumption DEF Keys
<1>5. old = IF r.handlers[s] = None THEN {} ELSE {s}
  BY <1>1, <1>4
<1>6. q.handlers = [t \in Sockets |-> IF t \in Keys(one) THEN one[t] ELSE r.handlers[t]]
      /\ q.live = (r.live \cup {h}) \ { r.handlers[t] : t \in old }
      /\ q.running = r.running /\ q.aboutAdd = r.aboutAdd /\ q.aboutRemove = r.aboutRemove
  BY <1>2 DEF OnRegisterAll, Delete, ReactorType
<1>7. q.corrupt = ( \/ p.corrupt
                    \/ \E t \in old : p.handlers[t] \notin p.live
                    \/ \E t, u \in old : t # u /\ p.handlers[t] = p.handlers[u] )
  BY <1>2 DEF OnRegisterAll, Delete, ReactorType
<1>8. q.corrupt = FALSE
  BY <1>2, <1>3, <1>5, <1>7 DEF Keys
<1>9. q.handlers = [r.handlers EXCEPT ![s] = h]
  BY <1>1, <1>6 DEF ReactorType, HandlerMap
<1>10. q \in ReactorType
  <2>1. q = [ p EXCEPT !.live = q.live, !.corrupt = q.corrupt, !.handlers = q.handlers ]
    BY <1>2 DEF OnRegisterAll, Delete, ReactorType
  <2>2. q.handlers \in HandlerMap
    BY <1>9 DEF ReactorType, HandlerMap
  <2>3. q.live \in SUBSET Handlers
    BY <1>6 DEF ReactorType
  <2>4. q.corrupt \in BOOLEAN
    BY <1>8
  <2> QED
    BY <1>2, <2>1, <2>2, <2>3, <2>4 DEF ReactorType
<1> HIDE DEF q, p, old
<1>11. Keys(q.handlers) = Keys(r.handlers) \cup {s}
  BY <1>9, NoneAssumption DEF Keys, ReactorType, HandlerMap
<1>12. q.live = { q.handlers[t] : t \in Keys(q.handlers) }
  <2>1. \A t \in Keys(r.handlers) : t # s => r.handlers[t] # r.handlers[s]
    BY <1>3 DEF Keys
  <2>2. \A t \in Sockets : q.handlers[t] = IF t = s THEN h ELSE r.handlers[t]
    BY <1>9 DEF ReactorType, HandlerMap
  <2> HIDE DEF one
  <2>3. CASE r.handlers[s] = None
    <3>1. q.live = { r.handlers[t] : t \in Keys(r.handlers) } \cup {h}
      BY <2>3, <1>3, <1>5, <1>6
    <3>2. s \notin Keys(r.handlers)
      BY <2>3 DEF Keys
    <3> QED
      BY <3>1, <3>2, <2>2, <1>11 DEF Keys
  <2>4. CASE r.handlers[s] # None
    <3>1. s \in Keys(r.handlers) /\ q.live = (r.live \cup {h}) \ {r.handlers[s]}
      BY <2>4, <1>5, <1>6 DEF Keys
    <3>2. q.live = { r.handlers[t] : t \in Keys(r.handlers) \ {s} } \cup {h}
      BY <3>1, <2>1, <1>3, <1>4
    <3>3. Keys(q.handlers) = (Keys(r.handlers) \ {s}) \cup {s}
      BY <3>1, <1>11
    <3> QED
      BY <3>2, <3>3, <2>2 DEF Keys
  <2> QED
    BY <2>3, <2>4
<1>13. \A t, u \in Keys(q.handlers) : q.handlers[t] = q.handlers[u] => t = u
  BY <1>3, <1>9, <1>11 DEF Keys, ReactorType, HandlerMap
<1> QED
  BY <1>6, <1>8, <1>9, <1>10, <1>12, <1>13 DEF Owned, Pointers, p, q

-----------------------------------------------------------------------------
(* The inductive invariant.  MemorySafe alone is not inductive: it needs   *)
(* the ownership of the map, the empty list of parked additions and the    *)
(* agreement of the flag with the stage of Run.                            *)
Ind == /\ TypeOK
       /\ Owned(reactor)
       /\ reactor.aboutAdd = EmptyMap
       /\ reactor.running = (stage # "idle")
       /\ stage = "handling" => \E s \in Keys(reactor.handlers) : at = s + 1

Sober == DeferredAdds = FALSE /\ GarbageRunning \subseteq {FALSE}

(* `at' names one socket.                                                  *)
LEMMA CurrentIs ==
  ASSUME NEW s \in Sockets, at = s + 1
  PROVE  Current = s
<1>1. \A t \in Sockets : t + 1 = at => t = s
  BY SocketsAssumption
<1> QED
  BY <1>1 DEF Current

(* What each action that can disturb the reactor makes of it.              *)
LEMMA RegisterStep ==
  ASSUME Ind, Sober, NEW s \in Sockets, NEW h \in Handlers, Register(s, h)
  PROVE  /\ stage = "idle"
         /\ reactor' \in ReactorType
         /\ Owned(reactor')
         /\ reactor'.running = reactor.running
         /\ reactor'.aboutAdd = EmptyMap
         /\ reactor'.aboutRemove = reactor.aboutRemove
         /\ reactor'.handlers = [reactor.handlers EXCEPT ![s] = h]
<1> DEFINE p == [reactor EXCEPT !.live = @ \cup {h}]
<1>1. stage = "idle" /\ reactor.running = FALSE /\ reactor \in ReactorType
      /\ Owned(reactor) /\ reactor.aboutAdd = EmptyMap /\ h \notin reactor.live
  BY DEF Sober, Register, Ind, TypeOK
<1>2. p \in ReactorType /\ p.running = FALSE /\ p.aboutAdd = EmptyMap
  BY <1>1 DEF ReactorType
<1>3. reactor' = OnRegisterAll(OnRegisterAll(p, p.aboutAdd), [EmptyMap EXCEPT ![s] = h])
  BY <1>2 DEF Register, RegisterHandler
<1>4. reactor' = OnRegisterAll(p, [EmptyMap EXCEPT ![s] = h])
  BY <1>2, <1>3, RegisterNothing
<1> QED
  BY <1>1, <1>4, RegisterOneOwned

LEMMA RemoveStep ==
  ASSUME Ind, NEW s \in Sockets, Remove(s)
  PROVE  /\ reactor' \in ReactorType
         /\ Owned(reactor')
         /\ reactor'.running = reactor.running
         /\ reactor'.aboutAdd = EmptyMap
         /\ IF stage = "idle"
              THEN /\ reactor'.aboutRemove = reactor.aboutRemove
                   /\ reactor'.handlers =
                        [t \in Sockets |-> IF t \in reactor.aboutRemove \cup {s}
                                             THEN None ELSE reactor.handlers[t]]
              ELSE /\ reactor'.aboutRemove = reactor.aboutRemove \cup {s}
                   /\ reactor'.handlers = reactor.handlers
                   /\ reactor'.live = reactor.live
<1>1. reactor \in ReactorType /\ Owned(reactor) /\ reactor.aboutAdd = EmptyMap
      /\ reactor.running = (stage # "idle")
  BY DEF Ind, TypeOK
<1>2. CASE stage = "idle"
  <2> DEFINE p == OnRemoveAll(reactor, reactor.aboutRemove)
             q == OnRemoveAll(p, {s})
  <2>1. reactor' = q
    BY <1>1, <1>2 DEF Remove, RemoveHandler
  <2>2. reactor.aboutRemove \in SUBSET Sockets
    BY <1>1 DEF ReactorType
  <2>3. /\ p \in ReactorType /\ Owned(p) /\ p.running = reactor.running
        /\ p.aboutAdd = reactor.aboutAdd /\ p.aboutRemove = reactor.aboutRemove
        /\ p.handlers = [t \in Sockets |-> IF t \in reactor.aboutRemove
                                             THEN None ELSE reactor.handlers[t]]
    BY <1>1, <2>2, RemoveAllFields, RemoveAllOwned
  <2> HIDE DEF p
  <2>4. /\ q \in ReactorType /\ Owned(q) /\ q.running = p.running
        /\ q.aboutAdd = p.aboutAdd /\ q.aboutRemove = p.aboutRemove
        /\ q.handlers = [t \in Sockets |-> IF t \in {s} THEN None ELSE p.handlers[t]]
    <3>1. {s} \in SUBSET Sockets
      OBVIOUS
    <3>2. Owned(q)
      BY <2>3, <3>1, RemoveAllOwned
    <3> QED
      BY <2>3, <3>1, <3>2, RemoveAllFields
  <2>5. q.handlers = [t \in Sockets |-> IF t \in reactor.aboutRemove \cup {s}
                                          THEN None ELSE reactor.handlers[t]]
    BY <2>3, <2>4
  <2>6. q.running = reactor.running /\ q.aboutAdd = EmptyMap
        /\ q.aboutRemove = reactor.aboutRemove
    BY <1>1, <2>3, <2>4
  <2> HIDE DEF q
  <2> QED
    BY <1>2, <2>1, <2>4, <2>5, <2>6
<1>3. CASE stage # "idle"
  <2>1. reactor' = [ reactor EXCEPT !.aboutRemove = @ \cup {s} ]
    BY <1>1, <1>3 DEF Remove, RemoveHandler
  <2>2. /\ reactor' \in ReactorType
        /\ reactor'.aboutRemove = reactor.aboutRemove \cup {s}
        /\ reactor'.handlers = reactor.handlers /\ reactor'.live = reactor.live
        /\ reactor'.corrupt = reactor.corrupt /\ reactor'.running = reactor.running
        /\ reactor'.aboutAdd = reactor.aboutAdd
    BY <1>1, <2>1 DEF ReactorType
  <2>3. Owned(reactor')
    BY <1>1, <2>2 DEF Owned
  <2> QED
    BY <1>1, <1>3, <2>2, <2>3
<1> QED
  BY <1>2, <1>3

(* Calling handlers that the map owns changes nothing.                     *)
LEMMA CallOwned ==
  ASSUME NEW r \in ReactorType, Owned(r), NEW called \in SUBSET Keys(r.handlers)
  PROVE  Call(r, called) = r
<1>1. \A s \in called : r.handlers[s] \in r.live
  BY DEF Owned, Pointers
<1>2. (r.corrupt \/ \E s \in called : r.handlers[s] \notin r.live) = FALSE
  BY <1>1 DEF Owned
<1>3. r.corrupt = FALSE
  BY DEF Owned, ReactorType
<1> QED
  BY <1>2, <1>3 DEF Call, ReactorType

LEMMA RunStep ==
  ASSUME Ind, Run
  PROVE  /\ stage = "idle"
         /\ \/ UNCHANGED vars
            \/ /\ reactor' = [reactor EXCEPT !.running = TRUE]
               /\ stage' = "pass"
               /\ at' = 0
               /\ UNCHANGED wanted
<1>1. reactor \in ReactorType /\ Owned(reactor)
  BY DEF Ind, TypeOK
<1>2. Poll(reactor) = reactor
  BY <1>1, CallOwned DEF Poll
<1> QED
  BY <1>2 DEF Run, RunNoFd, RunFails, RunReady, BeginPass, vars

LEMMA HandleStep ==
  ASSUME Ind, NEW s \in Sockets, Handle(s)
  PROVE  /\ s \in Keys(reactor.handlers)
         /\ stage = "pass" /\ stage' = "handling"
         /\ at' = s + 1
         /\ UNCHANGED <<reactor, wanted>>
<1>1. reactor \in ReactorType /\ Owned(reactor)
  BY DEF Ind, TypeOK
<1>2. s \in Keys(reactor.handlers)
  BY DEF Handle, IsNext
<1>3. Call(reactor, {s}) = reactor
  BY <1>1, <1>2, CallOwned
<1> QED
  BY <1>2, <1>3 DEF Handle

LEMMA EndPassStep ==
  ASSUME Ind, EndPass
  PROVE  /\ reactor' \in ReactorType
         /\ Owned(reactor')
         /\ reactor'.running = FALSE
         /\ reactor'.aboutAdd = EmptyMap
         /\ reactor'.aboutRemove = reactor.aboutRemove
         /\ reactor'.handlers =
              [t \in Sockets |-> IF t \in reactor.aboutRemove
                                   THEN None ELSE reactor.handlers[t]]
<1> DEFINE idle == [ reactor EXCEPT !.running = FALSE ]
           q == OnRemoveAll(idle, idle.aboutRemove)
<1>1. reactor \in ReactorType /\ Owned(reactor) /\ reactor.aboutAdd = EmptyMap
  BY DEF Ind, TypeOK
<1>2. /\ idle \in ReactorType /\ idle.running = FALSE
      /\ idle.aboutAdd = EmptyMap /\ idle.aboutRemove = reactor.aboutRemove
      /\ idle.handlers = reactor.handlers /\ idle.live = reactor.live
      /\ idle.corrupt = reactor.corrupt /\ idle.aboutRemove \in SUBSET Sockets
  BY <1>1 DEF ReactorType
<1>3. Owned(idle)
  BY <1>1, <1>2 DEF Owned
<1>4. OnRegisterAll(idle, idle.aboutAdd) = idle
  BY <1>2, RegisterNothing
<1>5. reactor' = q
  BY <1>4 DEF EndPass, Flush
<1> HIDE DEF idle
<1>6. /\ q \in ReactorType /\ Owned(q) /\ q.running = idle.running
      /\ q.aboutAdd = idle.aboutAdd /\ q.aboutRemove = idle.aboutRemove
      /\ q.handlers = [t \in Sockets |-> IF t \in idle.aboutRemove
                                           THEN None ELSE idle.handlers[t]]
  BY <1>2, <1>3, RemoveAllFields, RemoveAllOwned
<1> QED
  BY <1>2, <1>5, <1>6

-----------------------------------------------------------------------------
LEMMA IndInit ==
  ASSUME Sober, Init
  PROVE  Ind
<1>1. reactor = NewReactor(FALSE)
  BY DEF Init, Sober
<1>2. /\ reactor.running = FALSE /\ reactor.aboutAdd = EmptyMap
      /\ reactor.handlers = EmptyMap /\ reactor.live = {} /\ reactor.corrupt = FALSE
  BY <1>1 DEF NewReactor
<1>3. EmptyMap \in HandlerMap
  BY DEF EmptyMap, HandlerMap
<1>4. reactor \in ReactorType
  BY <1>1, <1>3 DEF NewReactor, ReactorType
<1>5. Keys(reactor.handlers) = {}
  BY <1>2 DEF Keys, EmptyMap
<1>6. Owned(reactor)
  BY <1>2, <1>5 DEF Owned, Pointers
<1>7. stage = "idle" /\ at = 0 /\ wanted = EmptyMap
  BY DEF Init
<1>8. TypeOK
  BY <1>3, <1>4, <1>7 DEF TypeOK
<1> QED
  BY <1>2, <1>6, <1>7, <1>8 DEF Ind

LEMMA IndNext ==
  ASSUME Ind, Sober, [Next]_vars
  PROVE  Ind'
<1> USE DEF Ind
<1>1. ASSUME NEW s \in Sockets, NEW h \in Handlers, Register(s, h)
      PROVE  Ind'
  <2>1. /\ stage = "idle" /\ reactor' \in ReactorType /\ Owned(reactor')
        /\ reactor'.running = reactor.running /\ reactor'.aboutAdd = EmptyMap
    BY <1>1, RegisterStep
  <2>2. TypeOK'
    BY <1>1, <2>1 DEF Register, TypeOK, HandlerMap
  <2> QED
    BY <1>1, <2>1, <2>2 DEF Register, Owned
<1>2. ASSUME NEW s \in Sockets, Remove(s)
      PROVE  Ind'
  <2>1. /\ reactor' \in ReactorType /\ Owned(reactor')
        /\ reactor'.running = reactor.running /\ reactor'.aboutAdd = EmptyMap
        /\ stage # "idle" => reactor'.handlers = reactor.handlers
    BY <1>2, RemoveStep
  <2>2. TypeOK'
    BY <1>2, <2>1 DEF Remove, TypeOK, HandlerMap
  <2> QED
    BY <1>2, <2>1, <2>2 DEF Remove, Owned, Keys
<1>3. ASSUME Run PROVE Ind'
  <2>1. CASE UNCHANGED vars
    BY <2>1 DEF vars, TypeOK, Owned, Pointers, Keys
  <2>2. CASE ~UNCHANGED vars
    <3>1. /\ reactor' = [reactor EXCEPT !.running = TRUE] /\ stage' = "pass" /\ at' = 0
          /\ UNCHANGED wanted
      BY <1>3, <2>2, RunStep
    <3>2. /\ reactor' \in ReactorType /\ reactor'.running = TRUE
          /\ reactor'.handlers = reactor.handlers /\ reactor'.live = reactor.live
          /\ reactor'.corrupt = reactor.corrupt /\ reactor'.aboutAdd = reactor.aboutAdd
      BY <3>1 DEF ReactorType, TypeOK
    <3>3. TypeOK'
      BY <3>1, <3>2 DEF TypeOK
    <3>4. Owned(reactor')
      BY <3>2 DEF Owned, Pointers, Keys
    <3> QED
      BY <3>1, <3>2, <3>3, <3>4
  <2> QED
    BY <2>1, <2>2
<1>4. ASSUME NEW s \in Sockets, Handle(s)
      PROVE  Ind'
  <2>1. /\ s \in Keys(reactor.handlers) /\ stage = "pass" /\ stage' = "handling"
        /\ at' = s + 1 /\ UNCHANGED <<reactor, wanted>>
    BY <1>4, HandleStep
  <2>2. TypeOK'
    BY <2>1, SocketsAssumption DEF TypeOK
  <2> QED
    BY <2>1, <2>2 DEF Owned, Pointers, Keys
<1>5. ASSUME Return PROVE Ind'
  BY <1>5 DEF Return, TypeOK, Owned, Pointers, Keys
<1>6. ASSUME EndPass PROVE Ind'
  <2>1. /\ reactor' \in ReactorType /\ Owned(reactor')
        /\ reactor'.running = FALSE /\ reactor'.aboutAdd = EmptyMap
    BY <1>6, EndPassStep
  <2>2. TypeOK'
    BY <1>6, <2>1 DEF EndPass, TypeOK
  <2> QED
    BY <1>6, <2>1, <2>2 DEF EndPass
<1>7. ASSUME UNCHANGED vars PROVE Ind'
  BY <1>7 DEF vars, TypeOK, Owned, Pointers, Keys
<1> QED
  BY <1>1, <1>2, <1>3, <1>4, <1>5, <1>6, <1>7 DEF Next

THEOREM IndInvariant == ASSUME Sober PROVE Spec => []Ind
<1>1. Init => Ind
  BY IndInit
<1>2. Ind /\ [Next]_vars => Ind'
  BY IndNext
<1> QED
  BY <1>1, <1>2, PTL DEF Spec

(* The reactor's record and the client's variables keep their types.       *)
THEOREM TypeCorrect == ASSUME Sober PROVE Spec => []TypeOK
<1>1. Ind => TypeOK
  BY DEF Ind
<1> QED
  BY <1>1, IndInvariant, PTL

(* No schedule of registrations, removals and passes makes the reactor     *)
(* delete a handler twice or call a deleted one (SocketReactor.h:48).      *)
(* Descriptors may be reused: only registering from inside a handler, and  *)
(* an _isRunning that starts TRUE, are excluded.                           *)
THEOREM MemorySafety == ASSUME Sober PROVE Spec => []MemorySafe
<1>1. Ind => MemorySafe
  BY DEF Ind, Owned, MemorySafe
<1> QED
  BY <1>1, IndInvariant, PTL

(* Every handler whose ownership was passed to the reactor is still in its *)
(* map, until it is freed.                                                 *)
THEOREM NothingLeaks == ASSUME Sober PROVE Spec => []NoLeak
<1>1. Ind => NoLeak
  BY DEF Ind, Owned, NoLeak
<1> QED
  BY <1>1, IndInvariant, PTL

(* A handler that removes itself, or is removed by another handler, is     *)
(* neither erased nor freed before it returns.                             *)
THEOREM HandlersOutliveCalls == ASSUME Sober PROVE Spec => []HandlerOutlivesCall
<1>1. Ind => HandlerOutlivesCall
  <2> SUFFICES ASSUME Ind, stage = "handling"
               PROVE  /\ reactor.handlers[Current] # None
                      /\ reactor.handlers[Current] \in reactor.live
    BY DEF HandlerOutlivesCall
  <2>1. PICK s \in Keys(reactor.handlers) : at = s + 1
    BY DEF Ind
  <2>2. s \in Sockets /\ reactor.handlers[s] # None
    BY <2>1 DEF Keys
  <2>3. Current = s
    BY <2>1, <2>2, CurrentIs
  <2>4. reactor.handlers[s] \in reactor.live
    BY <2>1 DEF Ind, Owned, Pointers
  <2> QED
    BY <2>2, <2>3, <2>4
<1> QED
  BY <1>1, IndInvariant, PTL

-----------------------------------------------------------------------------
(* The map and what was asked for differ, besides what a replayed removal  *)
(* has taken away, in the removals that a pass has parked.                 *)
InSync == \A s \in Sockets :
             \/ reactor.handlers[s] = wanted[s]
             \/ Lost(s)
             \/ stage # "idle" /\ s \in reactor.aboutRemove /\ wanted[s] = None

LEMMA InSyncNext ==
  ASSUME Ind, InSync, Sober, [Next]_vars
  PROVE  InSync'
<1> USE DEF Ind, InSync, TypeOK, Lost
<1>1. ASSUME NEW s \in Sockets, NEW h \in Handlers, Register(s, h)
      PROVE  InSync'
  <2>1. /\ stage = "idle" /\ reactor'.aboutRemove = reactor.aboutRemove
        /\ reactor'.handlers = [reactor.handlers EXCEPT ![s] = h]
    BY <1>1, RegisterStep
  <2>2. wanted' = [wanted EXCEPT ![s] = h] /\ stage' = stage
    BY <1>1 DEF Register
  <2> QED
    BY <2>1, <2>2 DEF ReactorType, HandlerMap
<1>2. ASSUME NEW s \in Sockets, Remove(s)
      PROVE  InSync'
  <2>1. wanted' = [wanted EXCEPT ![s] = None] /\ stage' = stage
    BY <1>2 DEF Remove
  <2>2. CASE stage = "idle"
    <3>1. /\ reactor'.aboutRemove = reactor.aboutRemove
          /\ reactor'.handlers =
               [t \in Sockets |-> IF t \in reactor.aboutRemove \cup {s}
                                    THEN None ELSE reactor.handlers[t]]
      BY <1>2, <2>2, RemoveStep
    <3> QED
      BY <2>1, <2>2, <3>1 DEF HandlerMap
  <2>3. CASE stage # "idle"
    <3>1. reactor'.aboutRemove = reactor.aboutRemove \cup {s}
          /\ reactor'.handlers = reactor.handlers
      BY <1>2, <2>3, RemoveStep
    <3> QED
      BY <2>1, <2>3, <3>1 DEF HandlerMap
  <2> QED
    BY <2>2, <2>3
<1>3. ASSUME Run PROVE InSync'
  <2>1. \/ UNCHANGED vars
        \/ /\ reactor' = [reactor EXCEPT !.running = TRUE]
           /\ stage = "idle" /\ stage' = "pass" /\ UNCHANGED wanted
    BY <1>3, RunStep
  <2> QED
    BY <2>1 DEF vars, ReactorType
<1>4. ASSUME NEW s \in Sockets, Handle(s)
      PROVE  InSync'
  <2>1. stage = "pass" /\ stage' = "handling" /\ UNCHANGED <<reactor, wanted>>
    BY <1>4, HandleStep
  <2> QED
    BY <2>1
<1>5. ASSUME Return PROVE InSync'
  BY <1>5 DEF Return
<1>6. ASSUME EndPass PROVE InSync'
  <2>1. /\ reactor'.aboutRemove = reactor.aboutRemove
        /\ reactor'.handlers =
              [t \in Sockets |-> IF t \in reactor.aboutRemove
                                   THEN None ELSE reactor.handlers[t]]
    BY <1>6, EndPassStep
  <2> QED
    BY <1>6, <2>1 DEF EndPass
<1>7. ASSUME UNCHANGED vars PROVE InSync'
  BY <1>7 DEF vars
<1> QED
  BY <1>1, <1>2, <1>3, <1>4, <1>5, <1>6, <1>7 DEF Next

THEOREM InSyncInvariant == ASSUME Sober PROVE Spec => [](Ind /\ InSync)
<1>1. Init => InSync
  <2>1. Init => reactor.handlers = EmptyMap /\ wanted = EmptyMap
    BY DEF Init, NewReactor
  <2> QED
    BY <2>1 DEF InSync
<1>2. Init => Ind
  BY IndInit
<1>3. Ind /\ InSync /\ [Next]_vars => Ind' /\ InSync'
  BY IndNext, InSyncNext
<1> QED
  BY <1>1, <1>2, <1>3, PTL DEF Spec

(* Between two calls of Run the map is what its users asked for, whatever  *)
(* descriptors are registered again: the removals that Run and             *)
(* RemoveHandler replay and never clear take away nothing but what is      *)
(* registered under a descriptor that was once removed inside a pass.      *)
THEOREM StaysInSync == ASSUME Sober PROVE Spec => []IdleInSync
<1>1. Ind /\ InSync => IdleInSync
  BY DEF InSync, IdleInSync
<1> QED
  BY <1>1, InSyncInvariant, PTL

-----------------------------------------------------------------------------
Calling == IF stage = "handling" THEN reactor.handlers[Current] ELSE None

(* Between passes the registry is the map; in a pass it lacks what has     *)
(* been parked for removal.                                                *)
LEMMA PromisedIs ==
  ASSUME Ind, InSync
  PROVE  /\ Promised \in HandlerMap
         /\ \A s \in Sockets : \/ Promised[s] = reactor.handlers[s]
                               \/ /\ stage # "idle" /\ s \in reactor.aboutRemove
                                  /\ Promised[s] = None
         /\ stage = "idle" => Promised = reactor.handlers
BY DEF Ind, InSync, TypeOK, ReactorType, HandlerMap, Promised, Lost

LEMMA OwnedIsPromised ==
  ASSUME Ind, InSync
  PROVE  /\ Registry!Registered(Promised) \subseteq reactor.live
         /\ stage = "idle" => reactor.live = Registry!Registered(Promised)
<1>1. /\ \A s \in Sockets : Promised[s] # None => Promised[s] = reactor.handlers[s]
      /\ stage = "idle" => Promised = reactor.handlers
  BY PromisedIs
<1>2. reactor.live = { reactor.handlers[s] : s \in { t \in Sockets : reactor.handlers[t] # None } }
  BY DEF Ind, Owned, Pointers, Keys
<1> QED
  BY <1>1, <1>2 DEF Registry!Registered

(* Objects may go that are neither promised afterwards nor being called.   *)
LEMMA FreesWhatGoes ==
  ASSUME NEW objects, reactor'.live \subseteq objects,
         Registry!Registered(Promised') \subseteq reactor'.live,
         Calling = None \/ Calling \in reactor'.live, None \notin objects
  PROVE  Registry!Frees(objects)
<1>. PICK freed : freed = objects \ reactor'.live
  OBVIOUS
<1>1. freed \in SUBSET (objects \ (Registry!Registered(Promised') \cup {Calling}))
  OBVIOUS
<1>2. reactor'.live = objects \ freed
  OBVIOUS
<1> QED
  BY <1>1, <1>2 DEF Registry!Frees, Calling

LEMMA RegistryStep ==
  ASSUME Ind, InSync, Ind', InSync', Sober, [Next]_vars
  PROVE  [Registry!Next]_(Registry!vars)
<1> USE DEF Calling
<1>a. reactor.live \subseteq Handlers /\ None \notin Handlers
  BY NoneAssumption DEF Ind, TypeOK, ReactorType
<1>b. /\ Promised' \in HandlerMap
      /\ stage' = "idle" => Promised' = reactor'.handlers
      /\ Registry!Registered(Promised') \subseteq reactor'.live
  <2>1. (Promised \in HandlerMap /\ (stage = "idle" => Promised = reactor.handlers))'
    BY PromisedIs, PTL
  <2>2. (Registry!Registered(Promised) \subseteq reactor.live)'
    BY OwnedIsPromised, PTL
  <2> QED
    BY <2>1, <2>2 DEF Registry!Registered
<1>c. /\ Promised \in HandlerMap
      /\ stage = "idle" => Promised = reactor.handlers
  BY PromisedIs
<1>1. ASSUME NEW s \in Sockets, NEW h \in Handlers, Register(s, h)
      PROVE  Registry!Register(s, h)
  <2>1. /\ stage = "idle" /\ stage' = "idle"
        /\ reactor'.handlers = [reactor.handlers EXCEPT ![s] = h]
        /\ reactor'.aboutRemove = reactor.aboutRemove
    BY <1>1, RegisterStep DEF Register
  <2>2. h \notin reactor.live
    BY <1>1 DEF Register
  <2>3. Promised' = [Promised EXCEPT ![s] = h]
    BY <1>b, <1>c, <2>1
  <2>4. reactor'.live \subseteq reactor.live \cup {h}
    <3>1. /\ reactor'.live = { reactor'.handlers[t] : t \in Keys(reactor'.handlers) }
          /\ reactor.live = { reactor.handlers[t] : t \in Keys(reactor.handlers) }
      BY DEF Ind, Owned, Pointers
    <3>2. \A t \in Sockets : reactor'.handlers[t] = IF t = s THEN h ELSE reactor.handlers[t]
      BY <2>1 DEF Ind, TypeOK, ReactorType, HandlerMap
    <3> QED
      BY <3>1, <3>2, NoneAssumption DEF Keys
  <2>5. Registry!Frees(reactor.live \cup {h})
    BY <1>a, <1>b, <2>1, <2>4, FreesWhatGoes
  <2> QED
    BY <2>1, <2>2, <2>3, <2>5 DEF Registry!Register
<1>2. ASSUME NEW s \in Sockets, Remove(s)
      PROVE  Registry!Remove(s)
  <2>1. wanted' = [wanted EXCEPT ![s] = None] /\ stage' = stage /\ at' = at
        /\ stage \in {"idle", "handling"}
    BY <1>2 DEF Remove
  <2>2. reactor.aboutRemove \in SUBSET Sockets
    BY DEF Ind, TypeOK, ReactorType
  <2>3. CASE stage = "idle"
    <3>1. /\ reactor'.aboutRemove = reactor.aboutRemove
          /\ reactor'.handlers =
               [t \in Sockets |-> IF t \in reactor.aboutRemove \cup {s}
                                    THEN None ELSE reactor.handlers[t]]
      BY <1>2, <2>3, RemoveStep
    <3>2. Promised' = Registry!Without(Promised, reactor.aboutRemove \cup {s})
      BY <1>b, <1>c, <2>1, <2>3, <3>1 DEF Registry!Without
    <3>3. reactor'.live \subseteq reactor.live
      <4>1. /\ reactor'.live = { reactor'.handlers[t] : t \in Keys(reactor'.handlers) }
            /\ reactor.live = { reactor.handlers[t] : t \in Keys(reactor.handlers) }
        BY DEF Ind, Owned, Pointers
      <4> QED
        BY <3>1, <4>1 DEF Keys
    <3>4. Registry!Frees(reactor.live)
      BY <1>a, <1>b, <2>3, <3>3, FreesWhatGoes
    <3> QED
      BY <2>1, <2>3, <3>1, <3>2, <3>4 DEF Registry!Remove
  <2>4. CASE stage = "handling"
    <3>1. /\ reactor'.live = reactor.live /\ reactor'.handlers = reactor.handlers
          /\ reactor'.aboutRemove = reactor.aboutRemove \cup {s}
      BY <1>2, <2>4, RemoveStep
    <3>2. Promised' = Registry!Without(Promised, {} \cup {s})
      <4>1. \A t \in Sockets : Promised'[t] = IF t = s THEN None ELSE Promised[t]
        BY <2>1, <3>1 DEF Promised, Lost, Ind, TypeOK, HandlerMap
      <4>2. Promised' \in [Sockets -> Handlers \cup {None}]
        BY <1>b DEF HandlerMap
      <4> QED
        BY <4>1, <4>2 DEF Registry!Without
    <3>3. PICK t \in Keys(reactor.handlers) : at = t + 1
      BY <2>4 DEF Ind
    <3>4. t \in Sockets /\ Current = t
      BY <3>3, CurrentIs DEF Keys
    <3>5. Calling # None /\ Calling \in reactor.live
      BY <2>4, <3>3, <3>4 DEF Ind, Owned, Pointers, Keys
    <3>6. Calling' = Calling
      BY <2>1, <3>1 DEF Current
    <3>7. Registry!Frees(reactor.live)
      BY <1>a, <1>b, <3>1, <3>5, FreesWhatGoes
    <3>8. {} \in SUBSET reactor.aboutRemove
      OBVIOUS
    <3> QED
      BY <3>1, <3>2, <3>5, <3>6, <3>7, <3>8 DEF Registry!Remove
  <2> QED
    BY <2>1, <2>3, <2>4
<1>3. ASSUME Run PROVE UNCHANGED Registry!vars
  <2>1. \/ UNCHANGED vars
        \/ /\ reactor' = [reactor EXCEPT !.running = TRUE]
           /\ stage = "idle" /\ stage' = "pass" /\ wanted' = wanted
    BY <1>3, RunStep
  <2>2. CASE UNCHANGED vars
    BY <2>2 DEF vars, Registry!vars, Current, Promised, Lost
  <2>3. CASE stage = "idle" /\ stage' = "pass" /\ wanted' = wanted
             /\ reactor' = [reactor EXCEPT !.running = TRUE]
    <3>1. /\ reactor'.live = reactor.live /\ reactor'.handlers = reactor.handlers
          /\ reactor'.aboutRemove = reactor.aboutRemove
      BY <2>3 DEF Ind, TypeOK, ReactorType
    <3>2. Promised' = Promised
      BY <2>3, <3>1 DEF Promised, Lost
    <3> QED
      BY <2>3, <3>1, <3>2 DEF Registry!vars
  <2> QED
    BY <2>1, <2>2, <2>3
<1>4. ASSUME NEW s \in Sockets, Handle(s)
      PROVE  \E h \in Handlers : Registry!Call(h)
  <2>1. /\ s \in Keys(reactor.handlers) /\ stage' = "handling" /\ at' = s + 1
        /\ UNCHANGED <<reactor, wanted>>
    BY <1>4, HandleStep
  <2>2. Current' = s
    <3>1. \A t \in Sockets : t + 1 = at' => t = s
      BY <2>1, SocketsAssumption
    <3> QED
      BY <2>1, <3>1 DEF Current
  <2>3. reactor.handlers[s] \in reactor.live
    BY <2>1 DEF Ind, Owned, Pointers
  <2>4. Calling' = reactor.handlers[s]
    BY <2>1, <2>2
  <2>5. Promised' = Promised
    BY <2>1 DEF Promised, Lost
  <2> QED
    BY <1>a, <2>1, <2>3, <2>4, <2>5 DEF Registry!Call
<1>5. ASSUME Return PROVE Registry!Return
  BY <1>5 DEF Return, Registry!Return, Promised, Lost
<1>6. ASSUME EndPass PROVE Registry!Reclaim
  <2>1. /\ stage = "pass" /\ stage' = "idle" /\ wanted' = wanted
        /\ reactor'.aboutRemove = reactor.aboutRemove
        /\ reactor'.handlers =
              [t \in Sockets |-> IF t \in reactor.aboutRemove
                                   THEN None ELSE reactor.handlers[t]]
    BY <1>6, EndPassStep DEF EndPass
  <2>2. reactor.aboutRemove \in SUBSET Sockets
    BY DEF Ind, TypeOK, ReactorType
  <2>3. \A s \in Sockets \ reactor.aboutRemove : Promised[s] = reactor.handlers[s]
    BY PromisedIs
  <2>4. Promised' = Registry!Without(Promised, reactor.aboutRemove)
    BY <1>b, <2>1, <2>3 DEF Registry!Without
  <2>5. reactor'.live \subseteq reactor.live
    <3>1. /\ reactor'.live = { reactor'.handlers[t] : t \in Keys(reactor'.handlers) }
          /\ reactor.live = { reactor.handlers[t] : t \in Keys(reactor.handlers) }
      BY DEF Ind, Owned, Pointers
    <3> QED
      BY <2>1, <3>1 DEF Keys
  <2>6. Registry!Frees(reactor.live)
    BY <1>a, <1>b, <2>1, <2>5, FreesWhatGoes
  <2> QED
    BY <2>1, <2>4, <2>6 DEF Registry!Reclaim
<1>7. ASSUME UNCHANGED vars PROVE UNCHANGED Registry!vars
  BY <1>7 DEF vars, Registry!vars, Current, Promised, Lost
<1> QED
  BY <1>1, <1>2, <1>3, <1>4, <1>5, <1>6, <1>7 DEF Next, Registry!Next

(* The reactor, with its parked and replayed lists, is a registry of       *)
(* handlers: every step is a step of HandlerRegistry or changes nothing    *)
(* there.  (That objects are reclaimed in the end is left to TLC.)         *)
THEOREM RefinesRegistry == ASSUME Sober PROVE Spec => Registry!Safety
<1>1. Init => Registry!Init
  BY DEF Init, NewReactor, EmptyMap, Registry!Init, Promised, Lost
<1>2. (Ind /\ InSync) /\ (Ind /\ InSync)' /\ [Next]_vars => [Registry!Next]_(Registry!vars)
  BY RegistryStep
<1> QED
  BY <1>1, <1>2, InSyncInvariant, PTL DEF Spec, Registry!Safety
=============================================================================
