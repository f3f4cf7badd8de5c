------------------------- MODULE NetworkContextProofs -------------------------
(***************************************************************************)
(* The network thread's engine, for any connection ids, descriptors and    *)
(* handlers: its two maps agree, no handler is deleted twice or called     *)
(* once deleted, and the socket of a known connection is never shut down.  *)
(*                                                                         *)
(* The argument: while a pass runs, a handler that is not that of a known  *)
(* connection has been called in this pass and its removal is parked; and  *)
(* a descriptor whose removal was ever parked is never handed out again,   *)
(* so that executing the removal a second time finds nothing.              *)
(***************************************************************************)
EXTENDS NetworkContext, TLAPS

-----------------------------------------------------------------------------
(* The lemmas about the class SocketReactor, taken over from the proofs    *)
(* about its other client.  Their variables do not matter: they are about  *)
(* records.                                                                *)

Reactor == INSTANCE ReactorProofs
  WITH GarbageRunning <- {FALSE}, DeferredAdds <- FALSE, wanted <- EmptyMap

Owned(r) == Reactor!Owned(r)

LEMMA SameOperators ==
  /\ Reactor!ReactorType = ReactorType
  /\ Reactor!EmptyMap = EmptyMap
  /\ \A m : Reactor!Keys(m) = Keys(m)
  /\ \A r, gone : Reactor!OnRemoveAll(r, gone) = OnRemoveAll(r, gone)
  /\ \A r, adds : Reactor!OnRegisterAll(r, adds) = OnRegisterAll(r, adds)
  /\ \A r, called : Reactor!Call(r, called) = Call(r, called)
<1>1. Reactor!ReactorType = ReactorType /\ Reactor!EmptyMap = EmptyMap
  BY Zenon DEF Reactor!ReactorType, Reactor!HandlerMap, ReactorType, HandlerMap,
               Reactor!EmptyMap, EmptyMap
<1>2. \A m : Reactor!Keys(m) = Keys(m)
  BY Zenon DEF Reactor!Keys, Keys
<1>3. \A r, gone : Reactor!Delete(r, gone) = Delete(r, gone)
  BY Zenon DEF Reactor!Delete, Delete
<1>4. \A r, gone : Reactor!OnRemoveAll(r, gone) = OnRemoveAll(r, gone)
  BY Zenon, <1>2, <1>3 DEF Reactor!OnRemoveAll, OnRemoveAll
<1>5. \A r, adds : Reactor!OnRegisterAll(r, adds) = OnRegisterAll(r, adds)
  BY Zenon, <1>2, <1>3 DEF Reactor!OnRegisterAll, OnRegisterAll
<1>6. \A r, called : Reactor!Call(r, called) = Call(r, called)
  BY Zenon DEF Reactor!Call, Call
<1>. QED  BY <1>1, <1>2, <1>4, <1>5, <1>6

LEMMA OwnedMeans ==
  ASSUME NEW r
  PROVE  Owned(r) <=> /\ ~r.corrupt
                      /\ r.live = { r.handlers[s] : s \in Keys(r.handlers) }
                      /\ \A s, t \in Keys(r.handlers) :
                            r.handlers[s] = r.handlers[t] => s = t
BY DEF Owned, Reactor!Owned, Reactor!Pointers, Reactor!Keys, Keys

LEMMA RemoveAll ==
  ASSUME NEW r \in ReactorType, NEW gone \in SUBSET Sockets, Owned(r)
  PROVE  LET q == OnRemoveAll(r, gone)
         IN  /\ q \in ReactorType /\ Owned(q)
             /\ q.running = r.running
             /\ q.aboutAdd = r.aboutAdd
             /\ q.aboutRemove = r.aboutRemove
             /\ q.handlers = [s \in Sockets |-> IF s \in gone THEN None ELSE r.handlers[s]]
<1>1. r \in Reactor!ReactorType /\ Reactor!Owned(r)
  BY SameOperators DEF Owned
<1>2. Owned(OnRemoveAll(r, gone))
  BY <1>1, SameOperators, Reactor!RemoveAllOwned, SocketsAssumption, NoneAssumption DEF Owned
<1>3. LET q == Reactor!OnRemoveAll(r, gone)
      IN  /\ q \in Reactor!ReactorType
          /\ q.running = r.running
          /\ q.aboutAdd = r.aboutAdd
          /\ q.aboutRemove = r.aboutRemove
          /\ q.handlers = [s \in Sockets |-> IF s \in gone THEN None ELSE r.handlers[s]]
  BY <1>1, Reactor!RemoveAllFields, SocketsAssumption, NoneAssumption
<1>. QED  BY <1>2, <1>3, SameOperators

LEMMA RegisterOne ==
  ASSUME NEW r \in ReactorType, Owned(r),
         NEW s \in Sockets, NEW h \in Handlers, h \notin r.live
  PROVE  LET q == OnRegisterAll([r EXCEPT !.live = @ \cup {h}], [EmptyMap EXCEPT ![s] = h])
         IN  /\ q \in ReactorType /\ Owned(q)
             /\ q.running = r.running
             /\ q.aboutAdd = r.aboutAdd
             /\ q.aboutRemove = r.aboutRemove
             /\ q.handlers = [r.handlers EXCEPT ![s] = h]
<1>1. r \in Reactor!ReactorType /\ Reactor!Owned(r)
  BY SameOperators DEF Owned
<1>2. LET q == Reactor!OnRegisterAll([r EXCEPT !.live = @ \cup {h}],
                                     [Reactor!EmptyMap EXCEPT ![s] = h])
      IN  /\ q \in Reactor!ReactorType /\ Reactor!Owned(q)
          /\ q.running = r.running
          /\ q.aboutAdd = r.aboutAdd
          /\ q.aboutRemove = r.aboutRemove
          /\ q.handlers = [r.handlers EXCEPT ![s] = h]
  BY <1>1, Reactor!RegisterOneOwned, SocketsAssumption, NoneAssumption
<1>. QED  BY <1>2, SameOperators DEF Owned

LEMMA RegisterNothing ==
  ASSUME NEW r \in ReactorType
  PROVE  OnRegisterAll(r, EmptyMap) = r
<1>1. r \in Reactor!ReactorType
  BY SameOperators
<1>2. Reactor!OnRegisterAll(r, Reactor!EmptyMap) = r
  BY <1>1, Reactor!RegisterNothing, SocketsAssumption, NoneAssumption
<1>. QED  BY <1>2, SameOperators

LEMMA CallOwned ==
  ASSUME NEW r \in ReactorType, Owned(r), NEW called \in SUBSET Keys(r.handlers)
  PROVE  Call(r, called) = r
<1>1. r \in Reactor!ReactorType /\ Reactor!Owned(r)
      /\ called \in SUBSET Reactor!Keys(r.handlers)
  BY SameOperators DEF Owned
<1>2. Reactor!Call(r, called) = r
  BY <1>1, Reactor!CallOwned, SocketsAssumption, NoneAssumption
<1>. QED  BY <1>2, SameOperators

(* A handler that is allocated but not yet registered does not mind.       *)
LEMMA RemoveBeside ==
  ASSUME NEW r \in ReactorType, Owned(r), NEW gone \in SUBSET Sockets,
         NEW h \in Handlers, h \notin r.live
  PROVE  OnRemoveAll([r EXCEPT !.live = @ \cup {h}], gone)
           = [OnRemoveAll(r, gone) EXCEPT !.live = @ \cup {h}]
<1> DEFINE p == [r EXCEPT !.live = @ \cup {h}]
           present == gone \cap Keys(r.handlers)
           twice == \E s, t \in present : s # t /\ r.handlers[s] = r.handlers[t]
<1>1. p.handlers = r.handlers /\ p.live = r.live \cup {h} /\ p.corrupt = r.corrupt
  BY DEF ReactorType
<1>2. \A s \in present : r.handlers[s] \in r.live
  BY OwnedMeans
<1>3. (r.live \cup {h}) \ { r.handlers[s] : s \in present }
        = (r.live \ { r.handlers[s] : s \in present }) \cup {h}
  BY <1>2
<1>4. /\ (\E s \in present : p.handlers[s] \notin p.live) = FALSE
      /\ (\E s \in present : r.handlers[s] \notin r.live) = FALSE
  BY <1>1, <1>2
<1>5. Delete(p, present) = [p EXCEPT !.live = p.live \ { r.handlers[s] : s \in present },
                                     !.corrupt = r.corrupt \/ FALSE \/ twice]
  <2>1. { p.handlers[s] : s \in present } = { r.handlers[s] : s \in present }
    BY <1>1
  <2>2. (\E s, t \in present : s # t /\ p.handlers[s] = p.handlers[t]) = twice
    BY <1>1
  <2>. QED  BY <1>1, <1>4, <2>1, <2>2, Zenon DEF Delete
<1>6. Delete(r, present) = [r EXCEPT !.live = r.live \ { r.handlers[s] : s \in present },
                                     !.corrupt = r.corrupt \/ FALSE \/ twice]
  BY <1>4 DEF Delete
<1> HIDE DEF present, twice
<1>7. Delete(p, present) = [Delete(r, present) EXCEPT !.live = @ \cup {h}]
  BY <1>1, <1>3, <1>5, <1>6 DEF ReactorType
<1>8. Delete(r, present).handlers = r.handlers /\ Delete(p, present).handlers = r.handlers
  BY <1>1, <1>5, <1>6 DEF ReactorType
<1> DEFINE left == [s \in Sockets |-> IF s \in gone THEN None ELSE r.handlers[s]]
<1>9. OnRemoveAll(p, gone) = [Delete(p, present) EXCEPT !.handlers = left]
  BY <1>1, <1>8, SMTT(60) DEF OnRemoveAll, present
<1>10. OnRemoveAll(r, gone) = [Delete(r, present) EXCEPT !.handlers = left]
  BY <1>8, SMTT(60) DEF OnRemoveAll, present
<1> HIDE DEF left, p
<1>11. Delete(r, present) = [ running |-> r.running, handlers |-> r.handlers,
                              aboutAdd |-> r.aboutAdd, aboutRemove |-> r.aboutRemove,
                              live |-> Delete(r, present).live,
                              corrupt |-> Delete(r, present).corrupt ]
  BY <1>6 DEF ReactorType
<1>. QED  BY <1>7, <1>9, <1>10, <1>11 DEF p

(* RemoveHandler between two passes, also while a handler waits to be      *)
(* registered: the parked removals and this one are executed.              *)
LEMMA RemoveHandlerIdle ==
  ASSUME NEW r \in ReactorType, Owned(r), r.running = FALSE, NEW s \in Sockets
  PROVE  LET q == RemoveHandler(r, s)
         IN  /\ q \in ReactorType /\ Owned(q)
             /\ q.running = FALSE
             /\ q.aboutAdd = r.aboutAdd
             /\ q.aboutRemove = r.aboutRemove
             /\ q.handlers = [t \in Sockets |-> IF t \in r.aboutRemove \cup {s}
                                                  THEN None ELSE r.handlers[t]]
             /\ \A h \in Handlers \ r.live :
                  /\ h \notin q.live
                  /\ RemoveHandler([r EXCEPT !.live = @ \cup {h}], s)
                       = [q EXCEPT !.live = @ \cup {h}]
<1> DEFINE p == OnRemoveAll(r, r.aboutRemove)
           q == OnRemoveAll(p, {s})
<1>1. r.aboutRemove \in SUBSET Sockets /\ {s} \in SUBSET Sockets
  BY DEF ReactorType
<1>2. /\ p \in ReactorType /\ Owned(p) /\ p.running = r.running
      /\ p.aboutAdd = r.aboutAdd /\ p.aboutRemove = r.aboutRemove
      /\ p.handlers = [t \in Sockets |-> IF t \in r.aboutRemove
                                            THEN None ELSE r.handlers[t]]
  BY <1>1, RemoveAll
<1> HIDE DEF p
<1>3. /\ q \in ReactorType /\ Owned(q) /\ q.running = p.running
      /\ q.aboutAdd = p.aboutAdd /\ q.aboutRemove = p.aboutRemove
      /\ q.handlers = [t \in Sockets |-> IF t \in {s} THEN None ELSE p.handlers[t]]
  BY <1>1, <1>2, RemoveAll
<1>4. RemoveHandler(r, s) = q
  BY DEF RemoveHandler, p
<1>5. q.handlers = [t \in Sockets |-> IF t \in r.aboutRemove \cup {s}
                                         THEN None ELSE r.handlers[t]]
  BY <1>2, <1>3
<1>6. ASSUME NEW h \in Handlers \ r.live
      PROVE  /\ h \notin q.live
             /\ RemoveHandler([r EXCEPT !.live = @ \cup {h}], s)
                  = [q EXCEPT !.live = @ \cup {h}]
  <2> DEFINE more == [r EXCEPT !.live = @ \cup {h}]
  <2>1. OnRemoveAll(more, r.aboutRemove) = [p EXCEPT !.live = @ \cup {h}]
    BY <1>1, RemoveBeside DEF p
  <2>2. p.live \subseteq r.live
    <3>1. /\ p.live = { p.handlers[t] : t \in Keys(p.handlers) }
          /\ r.live = { r.handlers[t] : t \in Keys(r.handlers) }
      BY <1>2, OwnedMeans
    <3>. QED  BY <3>1, <1>2 DEF Keys
  <2>3. q.live \subseteq p.live
    <3>1. /\ p.live = { p.handlers[t] : t \in Keys(p.handlers) }
          /\ q.live = { q.handlers[t] : t \in Keys(q.handlers) }
      BY <1>2, <1>3, OwnedMeans
    <3>. QED  BY <3>1, <1>3 DEF Keys
  <2> HIDE DEF q
  <2>4. OnRemoveAll([p EXCEPT !.live = @ \cup {h}], {s}) = [q EXCEPT !.live = @ \cup {h}]
    <3>1. h \in Handlers /\ h \notin p.live /\ p \in ReactorType /\ Owned(p)
      BY <1>2, <2>2
    <3>2. \A gone \in SUBSET Sockets :
            OnRemoveAll([p EXCEPT !.live = @ \cup {h}], gone)
              = [OnRemoveAll(p, gone) EXCEPT !.live = @ \cup {h}]
      BY <3>1, RemoveBeside
    <3>. QED  BY <1>1, <3>2 DEF q
  <2>5. more.running = FALSE /\ more.aboutRemove = r.aboutRemove
    BY DEF ReactorType
  <2>6. RemoveHandler(more, s) = OnRemoveAll(OnRemoveAll(more, r.aboutRemove), {s})
    BY <2>5, Zenon DEF RemoveHandler
  <2>. QED  BY <2>1, <2>2, <2>3, <2>4, <2>6
<1> HIDE DEF q
<1>. QED  BY <1>2, <1>3, <1>4, <1>5, <1>6

(* RemoveHandler during a pass is parked.                                  *)
LEMMA RemoveHandlerParked ==
  ASSUME NEW r \in ReactorType, Owned(r), r.running = TRUE, NEW s \in Sockets
  PROVE  LET q == RemoveHandler(r, s)
         IN  /\ q \in ReactorType /\ Owned(q)
             /\ q.running = TRUE
             /\ q.aboutAdd = r.aboutAdd
             /\ q.aboutRemove = r.aboutRemove \cup {s}
             /\ q.handlers = r.handlers
<1> DEFINE q == [ r EXCEPT !.aboutRemove = @ \cup {s} ]
<1>1. RemoveHandler(r, s) = q
  BY DEF RemoveHandler
<1>2. /\ q \in ReactorType /\ q.running = TRUE /\ q.aboutAdd = r.aboutAdd
      /\ q.aboutRemove = r.aboutRemove \cup {s} /\ q.handlers = r.handlers
      /\ q.live = r.live /\ q.corrupt = r.corrupt
  BY DEF ReactorType
<1> HIDE DEF q
<1>3. Owned(q)
  BY <1>2, OwnedMeans
<1>. QED  BY <1>1, <1>2, <1>3

-----------------------------------------------------------------------------
Served == { connections[id].socket : id \in Known(connections) }

(* A descriptor that is in the map, or whose removal was ever parked, is   *)
(* not handed out again; the latter never belongs to a known connection.   *)
NotReused == /\ \A s \in Keys(reactor.handlers) : kernel[s] # "unused"
             /\ \A s \in reactor.aboutRemove : kernel[s] # "unused" /\ s \notin Served

(* A handler without a connection was called in this pass, and goes when   *)
(* the pass ends.                                                          *)
Orphans == \A s \in Keys(reactor.handlers) \ Served :
             stage = "pass" /\ s \in reactor.aboutRemove /\ s + 1 <= at

Ind == /\ TypeOK
       /\ Owned(reactor)
       /\ reactor.aboutAdd = EmptyMap
       /\ reactor.running = (stage = "pass")
       /\ FoundIsRegistered
       /\ KnownSocketsOpen
       /\ NotReused
       /\ Orphans

LEMMA Knows ==
  ASSUME TypeOK, NEW id \in Known(connections)
  PROVE  /\ id \in Ids
         /\ connections[id] \in Conn
         /\ connections[id].socket \in Sockets
         /\ connections[id].handler \in Handlers
BY DEF TypeOK, Known, Conn

(* Each handler in the map has one key, and each served one is known by    *)
(* its own id.                                                             *)
LEMMA OneConnectionEach ==
  ASSUME Ind, NEW i \in Known(connections), NEW j \in Known(connections),
         connections[i].socket = connections[j].socket
  PROVE  i = j
<1>1. connections[i].handler = connections[j].handler
  BY DEF Ind, FoundIsRegistered
<1>. QED  BY <1>1 DEF Ind, FoundIsRegistered

(* The handler that is called next is that of a known connection, and      *)
(* knows it.                                                               *)
LEMMA NextIsServed ==
  ASSUME Ind, NEW s \in Sockets, Visit(s)
  PROVE  /\ s \in Keys(reactor.handlers)
         /\ idOf[Handler(s)] \in Known(connections)
         /\ connections[idOf[Handler(s)]].socket = s
         /\ connections[idOf[Handler(s)]].handler = Handler(s)
         /\ stage = "pass"
<1>1. s \in Keys(reactor.handlers) /\ s + 1 > at /\ stage = "pass"
  BY DEF Visit, IsNext
<1>2. s \in Nat /\ at \in Nat
  BY SocketsAssumption DEF Ind, TypeOK
<1>3. s \in Served
  BY <1>1, <1>2 DEF Ind, Orphans
<1>4. PICK id \in Known(connections) : connections[id].socket = s
  BY <1>3 DEF Served
<1>5. Handler(s) = connections[id].handler /\ idOf[Handler(s)] = id
  BY <1>4 DEF Ind, FoundIsRegistered, Handler
<1>. QED  BY <1>1, <1>4, <1>5

(* Between passes the map has the known connections and no others.         *)
LEMMA IdleServes ==
  ASSUME Ind, stage = "idle"
  PROVE  /\ Keys(reactor.handlers) = Served
         /\ reactor.aboutRemove \cap Keys(reactor.handlers) = {}
         /\ reactor.running = FALSE
<1>1. Keys(reactor.handlers) \subseteq Served
  BY DEF Ind, Orphans
<1>2. ASSUME NEW id \in Known(connections)
      PROVE  connections[id].socket \in Keys(reactor.handlers)
  <2>1. reactor.handlers[connections[id].socket] \in Handlers
        /\ connections[id].socket \in Sockets
    BY Knows DEF Ind, FoundIsRegistered
  <2>. QED  BY <2>1, NoneAssumption DEF Keys
<1>3. Keys(reactor.handlers) = Served
  BY <1>1, <1>2 DEF Served
<1>. QED  BY <1>3 DEF Ind, NotReused

States == {"unused", "fresh", "connected", "shut"}

(* Shutting sockets down touches no others, and makes none unused.         *)
LEMMA ShutDownStep ==
  ASSUME NEW k \in [Sockets -> States], NEW gone \in SUBSET Sockets,
         kernel' \in ShutDown(k, gone)
  PROVE  /\ kernel' \in [Sockets -> States]
         /\ \A s \in Sockets \ gone : kernel'[s] = k[s]
         /\ \A s \in Sockets : kernel'[s] = k[s] \/ kernel'[s] = "shut"
BY DEF ShutDown, States

LEMMA RegisteredIsLive ==
  ASSUME NEW r, Owned(r), NEW s \in Keys(r.handlers)
  PROVE  r.handlers[s] \in r.live
BY OwnedMeans

-----------------------------------------------------------------------------
(* The socket that Add shuts down because its id is taken over.            *)
Replaced(id) == { connections[i].socket : i \in {id} \cap Known(connections) }

LEMMA RequestStep ==
  ASSUME Ind, NEW id \in Ids, NEW s \in Sockets, NEW h \in Handlers, Request(id, s, h)
  PROVE  /\ reactor' \in ReactorType /\ Owned(reactor')
         /\ reactor'.running = FALSE
         /\ reactor'.aboutAdd = EmptyMap
         /\ reactor'.aboutRemove = reactor.aboutRemove
         /\ reactor'.handlers = [t \in Sockets |->
                                   IF t = s THEN h ELSE
                                   IF t \in Replaced(id) THEN None ELSE reactor.handlers[t]]
<1> DEFINE old == Replaced(id)
           p == [reactor EXCEPT !.live = @ \cup {h}]
           q == RemoveConn(reactor, connections, id)
<1>1. /\ reactor \in ReactorType /\ Owned(reactor) /\ reactor.aboutAdd = EmptyMap
      /\ h \in Handlers \ reactor.live /\ stage = "idle" /\ reactor.running = FALSE
      /\ reactor.handlers \in [Sockets -> Handlers \cup {None}]
  BY IdleServes DEF Ind, TypeOK, Request, Idle, ReactorType, HandlerMap
<1>2. reactor' = RegisterHandler(RemoveConn(p, connections, id), s, h)
  BY DEF Request, AddConn
<1>3. /\ q \in ReactorType /\ Owned(q) /\ q.running = FALSE
      /\ q.aboutAdd = EmptyMap /\ q.aboutRemove = reactor.aboutRemove
      /\ q.handlers = [t \in Sockets |-> IF t \in old THEN None ELSE reactor.handlers[t]]
      /\ h \notin q.live
      /\ RemoveConn(p, connections, id) = [q EXCEPT !.live = @ \cup {h}]
  <2>1. CASE id \in Known(connections)
    <3> DEFINE c == connections[id].socket
    <3>1. c \in Sockets /\ old = {c}
      BY <2>1, Knows DEF Ind, Replaced
    <3>2. q = RemoveHandler(reactor, c) /\ RemoveConn(p, connections, id) = RemoveHandler(p, c)
      BY <2>1 DEF RemoveConn
    <3> HIDE DEF c, q, old
    <3>3. /\ q \in ReactorType /\ Owned(q) /\ q.running = FALSE
          /\ q.aboutAdd = EmptyMap /\ q.aboutRemove = reactor.aboutRemove
          /\ q.handlers = [t \in Sockets |-> IF t \in reactor.aboutRemove \cup {c}
                                               THEN None ELSE reactor.handlers[t]]
          /\ h \notin q.live
          /\ RemoveHandler(p, c) = [q EXCEPT !.live = @ \cup {h}]
      <4> DEFINE Result(x) ==
            /\ x \in ReactorType /\ Owned(x) /\ x.running = FALSE
            /\ x.aboutAdd = reactor.aboutAdd /\ x.aboutRemove = reactor.aboutRemove
            /\ x.handlers = [t \in Sockets |-> IF t \in reactor.aboutRemove \cup {c}
                                                 THEN None ELSE reactor.handlers[t]]
            /\ \A g \in Handlers \ reactor.live :
                 /\ g \notin x.live
                 /\ RemoveHandler([reactor EXCEPT !.live = @ \cup {g}], c)
                      = [x EXCEPT !.live = @ \cup {g}]
      <4>1. Result(RemoveHandler(reactor, c))
        BY <1>1, <3>1, RemoveHandlerIdle
      <4>2. Result(q)
        <5> HIDE DEF Result
        <5>. QED  BY <3>2, <4>1
      <4>. QED  BY <1>1, <4>2
    <3>4. \A t \in Sockets : t \in reactor.aboutRemove => reactor.handlers[t] = None
      BY <1>1, IdleServes DEF Keys
    <3>. QED  BY <3>1, <3>2, <3>3, <3>4
  <2>2. CASE id \notin Known(connections)
    <3>1. q = reactor /\ RemoveConn(p, connections, id) = p /\ old = {}
      BY <2>2 DEF RemoveConn, Replaced
    <3>. QED  BY <1>1, <3>1
  <2>. QED  BY <2>1, <2>2
<1> DEFINE more == [q EXCEPT !.live = @ \cup {h}]
<1> HIDE DEF q, old
<1>4. more \in ReactorType /\ more.running = FALSE /\ more.aboutAdd = EmptyMap
  BY <1>3 DEF ReactorType
<1>5. reactor' = OnRegisterAll(OnRegisterAll(more, EmptyMap), [EmptyMap EXCEPT ![s] = h])
  BY <1>2, <1>3, <1>4 DEF RegisterHandler
<1>6. reactor' = OnRegisterAll(more, [EmptyMap EXCEPT ![s] = h])
  BY <1>4, <1>5, RegisterNothing
<1>7. /\ reactor' \in ReactorType /\ Owned(reactor')
      /\ reactor'.running = q.running
      /\ reactor'.aboutAdd = q.aboutAdd
      /\ reactor'.aboutRemove = q.aboutRemove
      /\ reactor'.handlers = [q.handlers EXCEPT ![s] = h]
  BY <1>1, <1>3, <1>6, RegisterOne
<1>8. reactor'.handlers = [t \in Sockets |->
                             IF t = s THEN h ELSE
                             IF t \in old THEN None ELSE reactor.handlers[t]]
  BY <1>3, <1>7
<1>. QED  BY <1>3, <1>7, <1>8 DEF old

LEMMA RequestKeeps ==
  ASSUME Ind, NEW id \in Ids, NEW s \in Sockets, NEW h \in Handlers, Request(id, s, h)
  PROVE  Ind'
<1> DEFINE old == Replaced(id)
<1>1. /\ reactor' \in ReactorType /\ Owned(reactor')
      /\ reactor'.running = FALSE
      /\ reactor'.aboutAdd = EmptyMap
      /\ reactor'.aboutRemove = reactor.aboutRemove
      /\ \A t \in Sockets : reactor'.handlers[t] =
             IF t = s THEN h ELSE IF t \in old THEN None ELSE reactor.handlers[t]
  <2> DEFINE F == [t \in Sockets |->
                     IF t = s THEN h ELSE
                     IF t \in Replaced(id) THEN None ELSE reactor.handlers[t]]
  <2>1. /\ reactor' \in ReactorType /\ Owned(reactor')
        /\ reactor'.running = FALSE
        /\ reactor'.aboutAdd = EmptyMap
        /\ reactor'.aboutRemove = reactor.aboutRemove
        /\ reactor'.handlers = F
    BY RequestStep, Zenon
  <2>2. \A t \in Sockets : F[t] =
             IF t = s THEN h ELSE IF t \in old THEN None ELSE reactor.handlers[t]
    OBVIOUS
  <2> HIDE DEF F, old
  <2>. QED  BY <2>1, <2>2
<1>2. /\ stage = "idle" /\ kernel[s] = "unused" /\ h \notin reactor.live
      /\ connections' = [connections EXCEPT ![id] = [socket |-> s, handler |-> h]]
      /\ kernel' \in ShutDown([kernel EXCEPT ![s] = "fresh"], old)
      /\ idOf' = [idOf EXCEPT ![h] = id]
      /\ connected' = [connected EXCEPT ![h] = FALSE]
      /\ UNCHANGED <<stage, at, ready, alive>>
  BY DEF Request, Idle, NewSocket, Replaced
<1>3. kernel \in [Sockets -> States] /\ connections \in [Ids -> Conn \cup {NoConn}]
      /\ idOf \in [Handlers -> Ids]
  BY DEF Ind, TypeOK, States
<1>4. old \subseteq Served /\ old \subseteq Sockets
  BY Knows DEF Ind, Served, Replaced
<1>5. \A t \in Served : kernel[t] \in {"fresh", "connected"} /\ t \in Sockets /\ t # s
  BY <1>2, Knows DEF Ind, Served, KnownSocketsOpen
<1>6. /\ kernel' \in [Sockets -> States]
      /\ kernel'[s] = "fresh"
      /\ \A t \in Sockets \ (old \cup {s}) : kernel'[t] = kernel[t]
      /\ \A t \in Sockets : kernel[t] # "unused" => kernel'[t] # "unused"
  <2> DEFINE k == [kernel EXCEPT ![s] = "fresh"]
  <2>1. k \in [Sockets -> States] /\ k[s] = "fresh"
        /\ \A t \in Sockets \ {s} : k[t] = kernel[t]
    BY <1>3 DEF States
  <2> HIDE DEF k, old
  <2>2. /\ kernel' \in [Sockets -> States]
        /\ \A t \in Sockets \ old : kernel'[t] = k[t]
        /\ \A t \in Sockets : kernel'[t] = k[t] \/ kernel'[t] = "shut"
    BY <1>2, <1>4, <2>1, ShutDownStep DEF k
  <2>. QED  BY <1>4, <1>5, <2>1, <2>2
<1>7. /\ Known(connections') = Known(connections) \cup {id}
      /\ connections'[id] = [socket |-> s, handler |-> h]
      /\ \A i \in Ids \ {id} : connections'[i] = connections[i]
  BY <1>2, <1>3, NoneAssumption DEF Known, NoConn
<1>8. ASSUME NEW i \in Known(connections), i # id
      PROVE  connections[i].socket \notin old \cup {s}
  <2>1. connections[i].socket # s
    BY <1>5 DEF Served
  <2>2. connections[i].socket \notin old
    BY <1>8, OneConnectionEach DEF Replaced
  <2>. QED  BY <2>1, <2>2
<1>9. Served' = (Served \ old) \cup {s}
  <2>1. \A i \in Known(connections') : connections'[i].socket \in (Served \ old) \cup {s}
    BY <1>7, <1>8 DEF Served, Known
  <2>2. \A i \in Known(connections) : i # id => connections[i].socket \in Served'
    BY <1>7 DEF Served, Known
  <2>3. s \in Served'
    BY <1>7 DEF Served
  <2>4. \A t \in Served \ old : t \in Served'
    BY <2>2 DEF Served, Replaced
  <2>. QED  BY <2>1, <2>3, <2>4 DEF Served
<1> HIDE DEF old
<1>10. TypeOK'
  <2>1. [socket |-> s, handler |-> h] \in Conn
    BY DEF Conn
  <2>2. connections' \in [Ids -> Conn \cup {NoConn}]
    BY <1>2, <1>3, <2>1
  <2>. QED  BY <1>1, <1>2, <1>6, <2>2 DEF Ind, TypeOK, States
<1>11. FoundIsRegistered'
  <2> SUFFICES ASSUME NEW i \in Known(connections')
               PROVE  /\ reactor'.handlers[connections'[i].socket] = connections'[i].handler
                      /\ connections'[i].handler \in reactor'.live
                      /\ idOf'[connections'[i].handler] = i
    BY DEF FoundIsRegistered
  <2>1. CASE i = id
    <3>1. reactor'.handlers[s] = h /\ s \in Keys(reactor'.handlers)
      BY <1>1, NoneAssumption DEF Keys
    <3>2. h \in reactor'.live
      BY <1>1, <3>1, RegisteredIsLive
    <3>. QED  BY <2>1, <1>2, <1>3, <1>7, <3>1, <3>2
  <2>2. CASE i # id
    <3>1. i \in Known(connections) /\ connections'[i] = connections[i]
      BY <2>2, <1>7 DEF Known
    <3>2. /\ connections[i].socket \in Sockets \ (old \cup {s})
          /\ connections[i].handler \in Handlers
          /\ reactor.handlers[connections[i].socket] = connections[i].handler
          /\ connections[i].handler \in reactor.live
          /\ idOf[connections[i].handler] = i
      BY <2>2, <3>1, <1>8, Knows DEF Ind, FoundIsRegistered
    <3>3. reactor'.handlers[connections[i].socket] = connections[i].handler
          /\ connections[i].socket \in Keys(reactor'.handlers)
      BY <1>1, <3>2, NoneAssumption DEF Keys
    <3>4. connections[i].handler \in reactor'.live
      BY <1>1, <3>3, RegisteredIsLive
    <3>. QED  BY <1>2, <1>3, <3>1, <3>2, <3>3, <3>4
  <2>. QED  BY <2>1, <2>2
<1>12. KnownSocketsOpen'
  <2>1. \A t \in Served' : kernel'[t] \in {"fresh", "connected"}
    BY <1>5, <1>6, <1>9
  <2>. QED  BY <2>1 DEF KnownSocketsOpen, Served
<1>13. NotReused'
  <2>1. \A t \in Keys(reactor'.handlers) : t = s \/ t \in Keys(reactor.handlers)
    BY <1>1 DEF Keys
  <2>2. Keys(reactor'.handlers) \subseteq Sockets /\ reactor.aboutRemove \subseteq Sockets
    BY DEF Keys, Ind, TypeOK, ReactorType
  <2>. QED  BY <1>1, <1>2, <1>6, <1>9, <2>1, <2>2 DEF Ind, NotReused
<1>14. Orphans'
  <2>1. \A t \in Keys(reactor'.handlers) : t = s \/ t \in Keys(reactor.handlers) \ old
    BY <1>1, NoneAssumption DEF Keys
  <2>. QED  BY <1>2, <1>9, <2>1, IdleServes DEF Orphans
<1>. QED  BY <1>1, <1>2, <1>10, <1>11, <1>12, <1>13, <1>14 DEF Ind

-----------------------------------------------------------------------------
(* The connections of gone leave between two passes: Close, ShutdownAll.   *)
LEMMA DropKeeps ==
  ASSUME Ind, stage = "idle", NEW gone \in SUBSET Ids,
         reactor' \in ReactorType, Owned(reactor'), reactor'.running = FALSE,
         reactor'.aboutAdd = EmptyMap, reactor'.aboutRemove = reactor.aboutRemove,
         \A t \in Sockets : reactor'.handlers[t] =
            IF \E i \in gone \cap Known(connections) : connections[i].socket = t
              THEN None ELSE reactor.handlers[t],
         connections' = [i \in Ids |-> IF i \in gone THEN NoConn ELSE connections[i]],
         kernel' \in [Sockets -> States],
         \A t \in Sockets : kernel'[t] = kernel[t] \/ kernel'[t] = "shut",
         \A i \in Known(connections) \ gone :
            kernel'[connections[i].socket] = kernel[connections[i].socket],
         UNCHANGED <<idOf, connected, stage, at, ready, alive>>
  PROVE  Ind'
<1>1. /\ Known(connections') = Known(connections) \ gone
      /\ \A i \in Known(connections') : connections'[i] = connections[i]
  BY DEF Known
<1>2. TypeOK'
  <2>1. connections' \in [Ids -> Conn \cup {NoConn}]
    BY DEF Ind, TypeOK
  <2>. QED  BY <2>1 DEF Ind, TypeOK, States
<1>3. ASSUME NEW i \in Known(connections')
      PROVE  /\ i \in Known(connections) \ gone /\ connections'[i] = connections[i]
             /\ connections[i].socket \in Keys(reactor.handlers)
             /\ connections[i].socket \in Sockets
             /\ connections[i].handler \in Handlers
             /\ reactor'.handlers[connections[i].socket] = connections[i].handler
             /\ idOf[connections[i].handler] = i
             /\ kernel[connections[i].socket] \in {"fresh", "connected"}
  <2>1. i \in Known(connections) \ gone /\ connections'[i] = connections[i]
    BY <1>1
  <2>2. /\ connections[i].socket \in Sockets /\ connections[i].handler \in Handlers
        /\ reactor.handlers[connections[i].socket] = connections[i].handler
        /\ idOf[connections[i].handler] = i
        /\ kernel[connections[i].socket] \in {"fresh", "connected"}
    BY <2>1, Knows DEF Ind, FoundIsRegistered, KnownSocketsOpen
  <2>3. ~ \E j \in gone \cap Known(connections) :
             connections[j].socket = connections[i].socket
    BY <2>1, OneConnectionEach
  <2>. QED  BY <2>1, <2>2, <2>3, NoneAssumption DEF Keys
<1>4. FoundIsRegistered'
  <2> SUFFICES ASSUME NEW i \in Known(connections')
               PROVE  /\ reactor'.handlers[connections'[i].socket] = connections'[i].handler
                      /\ connections'[i].handler \in reactor'.live
                      /\ idOf'[connections'[i].handler] = i
    BY DEF FoundIsRegistered
  <2>1. connections[i].socket \in Keys(reactor'.handlers)
    BY <1>3, NoneAssumption DEF Keys
  <2>2. connections[i].handler \in reactor'.live
    BY <2>1, <1>3, RegisteredIsLive
  <2>. QED  BY <2>2, <1>3
<1>5. KnownSocketsOpen'
  BY <1>3 DEF KnownSocketsOpen
<1>6. Keys(reactor'.handlers) \subseteq Keys(reactor.handlers) /\ Served' \subseteq Served
  BY <1>3 DEF Keys, Served
<1>7. NotReused'
  <2>1. reactor.aboutRemove \subseteq Sockets /\ Keys(reactor.handlers) \subseteq Sockets
    BY DEF Ind, TypeOK, ReactorType, Keys
  <2>. QED  BY <1>6, <2>1 DEF Ind, NotReused
<1>8. Keys(reactor'.handlers) \subseteq Served'
  <2> SUFFICES ASSUME NEW t \in Keys(reactor'.handlers) PROVE t \in Served'
    OBVIOUS
  <2>1. t \in Served /\ t \in Sockets
    BY <1>6, IdleServes DEF Keys
  <2>2. PICK i \in Known(connections) : connections[i].socket = t
    BY <2>1 DEF Served
  <2>3. i \notin gone
    BY <2>1, <2>2 DEF Keys
  <2>. QED  BY <1>1, <2>2, <2>3 DEF Served
<1>9. Orphans'
  BY <1>8 DEF Orphans
<1>. QED  BY <1>2, <1>4, <1>5, <1>7, <1>9 DEF Ind

LEMMA CloseKeeps ==
  ASSUME Ind, NEW id \in Ids, Close(id)
  PROVE  Ind'
<1>1. /\ stage = "idle" /\ reactor.running = FALSE
      /\ reactor' = RemoveConn(reactor, connections, id)
      /\ connections' = [connections EXCEPT ![id] = NoConn]
      /\ UNCHANGED <<idOf, connected, kernel, stage, at, ready, alive>>
  BY IdleServes DEF Close, Idle
<1>2. /\ reactor \in ReactorType /\ Owned(reactor) /\ reactor.aboutAdd = EmptyMap
      /\ kernel \in [Sockets -> States]
      /\ connections \in [Ids -> Conn \cup {NoConn}]
  BY DEF Ind, TypeOK, States
<1>3. connections' = [i \in Ids |-> IF i \in {id} THEN NoConn ELSE connections[i]]
  BY <1>1, <1>2
<1>4. /\ reactor' \in ReactorType /\ Owned(reactor') /\ reactor'.running = FALSE
      /\ reactor'.aboutAdd = EmptyMap /\ reactor'.aboutRemove = reactor.aboutRemove
      /\ \A t \in Sockets : reactor'.handlers[t] =
            IF \E i \in {id} \cap Known(connections) : connections[i].socket = t
              THEN None ELSE reactor.handlers[t]
  <2>1. CASE id \in Known(connections)
    <3> DEFINE c == connections[id].socket
               Result(x) ==
                 /\ x \in ReactorType /\ Owned(x) /\ x.running = FALSE
                 /\ x.aboutAdd = reactor.aboutAdd /\ x.aboutRemove = reactor.aboutRemove
                 /\ x.handlers = [t \in Sockets |-> IF t \in reactor.aboutRemove \cup {c}
                                                      THEN None ELSE reactor.handlers[t]]
    <3>1. c \in Sockets
      BY <2>1, Knows DEF Ind
    <3>2. reactor' = RemoveHandler(reactor, c)
      BY <1>1, <2>1 DEF RemoveConn
    <3>3. \A t \in Sockets : t \in reactor.aboutRemove => reactor.handlers[t] = None
      BY <1>1, IdleServes DEF Keys
    <3> HIDE DEF c
    <3>4. Result(RemoveHandler(reactor, c))
      BY <1>1, <1>2, <3>1, RemoveHandlerIdle
    <3>5. Result(reactor')
      <4> HIDE DEF Result
      <4>. QED  BY <3>2, <3>4
    <3>. QED  BY <1>2, <2>1, <3>3, <3>5 DEF c
  <2>2. CASE id \notin Known(connections)
    BY <1>1, <1>2, <2>2 DEF RemoveConn
  <2>. QED  BY <2>1, <2>2
<1>5. \A gone \in SUBSET Ids : gone = {id} => Ind'
  BY <1>1, <1>2, <1>3, <1>4, DropKeeps
<1>. QED  BY <1>5

LEMMA ShutdownAllKeeps ==
  ASSUME Ind, ShutdownAll
  PROVE  Ind'
<1>1. /\ stage = "idle" /\ reactor.running = FALSE
      /\ reactor' = RemoveEach(reactor, Served)
      /\ kernel' \in ShutDown(kernel, Served)
      /\ connections' = [i \in Ids |-> NoConn]
      /\ UNCHANGED <<idOf, connected, stage, at, ready, alive>>
  BY IdleServes DEF ShutdownAll, Idle, Served
<1>2. /\ reactor \in ReactorType /\ Owned(reactor) /\ reactor.aboutAdd = EmptyMap
      /\ kernel \in [Sockets -> States]
      /\ reactor.aboutRemove \in SUBSET Sockets
  BY DEF Ind, TypeOK, States, ReactorType
<1>3. Served \in SUBSET Sockets
  BY Knows DEF Ind, Served
<1>4. /\ reactor' \in ReactorType /\ Owned(reactor') /\ reactor'.running = FALSE
      /\ reactor'.aboutAdd = EmptyMap /\ reactor'.aboutRemove = reactor.aboutRemove
      /\ \A t \in Sockets : reactor'.handlers[t] =
            IF t \in Served THEN None ELSE reactor.handlers[t]
  <2>1. CASE Served = {}
    <3>1. reactor' = reactor
      BY <1>1, <2>1 DEF RemoveEach
    <3>. QED  BY <1>1, <1>2, <2>1, <3>1
  <2>2. CASE Served # {}
    <3> DEFINE p == OnRemoveAll(reactor, reactor.aboutRemove)
               q == OnRemoveAll(p, Served)
    <3>1. reactor' = q
      BY <1>1, <2>2 DEF RemoveEach
    <3>2. /\ p \in ReactorType /\ Owned(p) /\ p.running = reactor.running
          /\ p.aboutAdd = reactor.aboutAdd /\ p.aboutRemove = reactor.aboutRemove
          /\ p.handlers = [t \in Sockets |-> IF t \in reactor.aboutRemove
                                                THEN None ELSE reactor.handlers[t]]
      BY <1>2, RemoveAll
    <3> HIDE DEF p
    <3>3. /\ q \in ReactorType /\ Owned(q) /\ q.running = p.running
          /\ q.aboutAdd = p.aboutAdd /\ q.aboutRemove = p.aboutRemove
          /\ q.handlers = [t \in Sockets |-> IF t \in Served THEN None ELSE p.handlers[t]]
      BY <1>3, <3>2, RemoveAll
    <3>4. \A t \in Sockets : t \in reactor.aboutRemove => reactor.handlers[t] = None
      BY <1>1, IdleServes DEF Keys
    <3> HIDE DEF q
    <3>. QED  BY <1>1, <1>2, <3>1, <3>2, <3>3, <3>4
  <2>. QED  BY <2>1, <2>2
<1>5. /\ kernel' \in [Sockets -> States]
      /\ \A t \in Sockets : kernel'[t] = kernel[t] \/ kernel'[t] = "shut"
  BY <1>1, <1>2, <1>3, ShutDownStep
<1> DEFINE Fits(gone) ==
      /\ \A t \in Sockets : reactor'.handlers[t] =
            IF \E i \in gone \cap Known(connections) : connections[i].socket = t
              THEN None ELSE reactor.handlers[t]
      /\ connections' = [i \in Ids |-> IF i \in gone THEN NoConn ELSE connections[i]]
      /\ \A i \in Known(connections) \ gone :
            kernel'[connections[i].socket] = kernel[connections[i].socket]
<1>6. Fits(Ids)
  <2>1. \A t \in Sockets :
           t \in Served <=> \E i \in Ids \cap Known(connections) : connections[i].socket = t
    BY DEF Served, Known
  <2>2. Known(connections) \ Ids = {}
    BY DEF Known
  <2>. QED  BY <1>1, <1>4, <2>1, <2>2
<1>7. \A gone \in SUBSET Ids : Fits(gone) => Ind'
  BY <1>1, <1>4, <1>5, DropKeeps
<1> HIDE DEF Fits
<1>. QED  BY <1>6, <1>7

-----------------------------------------------------------------------------
(* Steps that leave the two maps alone, and may connect sockets.           *)
LEMMA SameMapsKeep ==
  ASSUME Ind, TypeOK', UNCHANGED <<reactor, connections, idOf, stage>>,
         \A t \in Sockets : \/ kernel'[t] = kernel[t]
                            \/ kernel'[t] = "connected" /\ kernel[t] # "unused",
         stage = "pass" => at' >= at
  PROVE  Ind'
<1>1. /\ Keys(reactor.handlers) \subseteq Sockets /\ reactor.aboutRemove \subseteq Sockets
      /\ Served \subseteq Sockets
  BY Knows DEF Ind, TypeOK, ReactorType, Keys, Served
<1>2. Served' = Served /\ Known(connections') = Known(connections)
  BY DEF Served
<1>3. FoundIsRegistered'
  BY <1>2 DEF Ind, FoundIsRegistered
<1>4. KnownSocketsOpen'
  <2>1. \A t \in Served : kernel[t] \in {"fresh", "connected"}
    BY DEF Ind, KnownSocketsOpen, Served
  <2>2. \A t \in Served' : kernel'[t] \in {"fresh", "connected"}
    BY <1>1, <1>2, <2>1
  <2>. QED  BY <2>2 DEF KnownSocketsOpen, Served
<1>5. NotReused'
  BY <1>1, <1>2 DEF Ind, NotReused
<1>6. Orphans'
  <2>1. at \in Nat /\ at' \in Nat /\ \A t \in Sockets : t \in Nat
    BY SocketsAssumption DEF Ind, TypeOK
  <2>. QED  BY <1>1, <1>2, <2>1 DEF Ind, Orphans
<1>. QED  BY <1>3, <1>4, <1>5, <1>6 DEF Ind

LEMMA PollKeeps ==
  ASSUME Ind
  PROVE  Poll(reactor) = reactor
BY CallOwned DEF Ind, TypeOK, Poll

(* The iterator moves on.                                                  *)
LEMMA VisitMoves ==
  ASSUME Ind, NEW s \in Sockets, Visit(s)
  PROVE  /\ at' = s + 1 /\ at' >= at
         /\ at' \in {0} \cup { t + 1 : t \in Sockets }
         /\ Call(reactor, {s}) = reactor
         /\ kernel[s] \in {"fresh", "connected"}
<1>1. s \in Nat /\ at \in Nat
  BY SocketsAssumption DEF Ind, TypeOK
<1>2. at' = s + 1 /\ s + 1 > at
  BY DEF Visit, IsNext
<1>3. Call(reactor, {s}) = reactor
  <2>1. {s} \in SUBSET Keys(reactor.handlers)
    BY NextIsServed
  <2>2. \A called \in SUBSET Keys(reactor.handlers) : Call(reactor, called) = reactor
    BY CallOwned DEF Ind, TypeOK
  <2>. QED  BY <2>1, <2>2
<1>4. kernel[s] \in {"fresh", "connected"}
  BY NextIsServed DEF Ind, KnownSocketsOpen
<1>. QED  BY <1>1, <1>2, <1>3, <1>4

LEMMA QuietStepsKeep ==
  ASSUME Ind, SelectNothing \/ SelectDies \/ UNCHANGED vars
  PROVE  Ind'
<1>1. UNCHANGED <<reactor, connections, idOf, connected, kernel, stage, at, ready>>
      /\ alive' \in BOOLEAN
  BY PollKeeps DEF SelectNothing, SelectDies, vars, Ind, TypeOK
<1>2. TypeOK'
  BY <1>1 DEF Ind, TypeOK
<1>3. at' >= at
  BY <1>1, SocketsAssumption DEF Ind, TypeOK
<1>. QED  BY <1>1, <1>2, <1>3, SameMapsKeep

LEMMA QuietHandlersKeep ==
  ASSUME Ind, NEW s \in Sockets,
         HandleNothing(s) \/ (\E ok \in BOOLEAN : HandleSends(s, ok)) \/ HandleDies(s)
  PROVE  Ind'
<1>1. Visit(s)
  BY DEF HandleNothing, HandleSends, HandleDies
<1>2. /\ UNCHANGED <<reactor, connections, idOf, stage, ready>>
      /\ alive' \in BOOLEAN
      /\ kernel' = kernel \/ \E ok \in BOOLEAN : kernel' = AfterConnect(s, ok)
      /\ connected' = connected \/ \E ok \in BOOLEAN :
                                      connected' = [connected EXCEPT ![Handler(s)] = ok]
  BY <1>1, VisitMoves DEF HandleNothing, HandleSends, HandleDies, Ind, TypeOK
<1>3. /\ kernel \in [Sockets -> States] /\ connected \in [Handlers -> BOOLEAN]
  BY DEF Ind, TypeOK, States
<1>4. /\ kernel' \in [Sockets -> States]
      /\ \A t \in Sockets : \/ kernel'[t] = kernel[t]
                            \/ kernel'[t] = "connected" /\ kernel[t] # "unused"
  BY <1>1, <1>2, <1>3, VisitMoves DEF AfterConnect, States
<1>5. connected' \in [Handlers -> BOOLEAN]
  BY <1>2, <1>3
<1>6. stage = "pass"
  BY <1>1 DEF Visit
<1>7. TypeOK'
  BY <1>1, <1>2, <1>4, <1>5, <1>6, VisitMoves DEF Ind, TypeOK, States
<1>. QED  BY <1>1, <1>2, <1>4, <1>7, VisitMoves, SameMapsKeep

LEMMA SelectReadyKeeps ==
  ASSUME Ind, NEW writable \in SUBSET Keys(reactor.handlers), SelectReady(writable)
  PROVE  Ind'
<1>1. /\ stage = "idle" /\ stage' = "pass" /\ at' = 0 /\ ready' = writable
      /\ reactor' = [reactor EXCEPT !.running = TRUE]
      /\ UNCHANGED <<connections, idOf, connected, kernel, alive>>
  BY PollKeeps DEF SelectReady, Idle, BeginPass
<1>2. reactor \in ReactorType
  BY DEF Ind, TypeOK
<1>3. /\ reactor' \in ReactorType /\ reactor'.running = TRUE
      /\ reactor'.handlers = reactor.handlers /\ reactor'.live = reactor.live
      /\ reactor'.aboutAdd = reactor.aboutAdd
      /\ reactor'.aboutRemove = reactor.aboutRemove
      /\ reactor'.corrupt = reactor.corrupt
  BY <1>1, <1>2 DEF ReactorType
<1>4. Owned(reactor')
  BY <1>3, OwnedMeans DEF Ind
<1>5. TypeOK'
  BY <1>1, <1>3 DEF Ind, TypeOK, Keys
<1>6. Served' = Served
  BY <1>1 DEF Served
<1>7. FoundIsRegistered' /\ KnownSocketsOpen' /\ NotReused'
  BY <1>1, <1>3, <1>6 DEF Ind, FoundIsRegistered, KnownSocketsOpen, NotReused
<1>8. Orphans'
  BY <1>1, <1>3, <1>6, IdleServes DEF Orphans
<1>. QED  BY <1>1, <1>3, <1>4, <1>5, <1>7, <1>8 DEF Ind

(* A handler that fails removes its own connection, and parks its own      *)
(* removal: it becomes an orphan behind the iterator.                      *)
LEMMA HandleLosesKeeps ==
  ASSUME Ind, NEW s \in Sockets, NEW ok \in BOOLEAN, HandleLoses(s, ok)
  PROVE  Ind'
<1> DEFINE id == idOf[Handler(s)]
<1>1. /\ Visit(s) /\ stage = "pass" /\ at' = s + 1
      /\ kernel' \in ShutDown(AfterConnect(s, ok), {s})
      /\ reactor' = RemoveConn(Call(reactor, {s}), connections, id)
      /\ connections' = [connections EXCEPT ![id] = NoConn]
      /\ connected' = [connected EXCEPT ![Handler(s)] = FALSE]
      /\ UNCHANGED <<idOf, stage, ready, alive>>
  BY DEF HandleLoses, Visit
<1>2. /\ id \in Known(connections) /\ id \in Ids /\ connections[id].socket = s
      /\ s \in Keys(reactor.handlers)
  BY <1>1, NextIsServed DEF Known
<1> HIDE DEF id
<1>3. /\ reactor \in ReactorType /\ Owned(reactor) /\ reactor.running = TRUE
      /\ reactor.aboutAdd = EmptyMap /\ reactor.aboutRemove \subseteq Sockets
      /\ kernel \in [Sockets -> States]
      /\ connections \in [Ids -> Conn \cup {NoConn}]
      /\ connected \in [Handlers -> BOOLEAN]
  BY <1>1 DEF Ind, TypeOK, States, ReactorType
<1>4. reactor' = RemoveHandler(reactor, s)
  BY <1>1, <1>2, VisitMoves DEF RemoveConn
<1>5. /\ reactor' \in ReactorType /\ Owned(reactor') /\ reactor'.running = TRUE
      /\ reactor'.aboutAdd = EmptyMap
      /\ reactor'.aboutRemove = reactor.aboutRemove \cup {s}
      /\ reactor'.handlers = reactor.handlers
  BY <1>3, <1>4, RemoveHandlerParked
<1>6. /\ kernel' \in [Sockets -> States]
      /\ \A t \in Sockets \ {s} : kernel'[t] = kernel[t]
      /\ kernel'[s] # "unused"
  <2> DEFINE k == AfterConnect(s, ok)
  <2>1. /\ k \in [Sockets -> States] /\ k[s] # "unused"
        /\ \A t \in Sockets \ {s} : k[t] = kernel[t]
    BY <1>1, <1>3, VisitMoves DEF AfterConnect, States
  <2> HIDE DEF k
  <2>2. \A gone \in SUBSET Sockets : kernel' \in ShutDown(k, gone) =>
          /\ kernel' \in [Sockets -> States]
          /\ \A t \in Sockets \ gone : kernel'[t] = k[t]
          /\ \A t \in Sockets : kernel'[t] = k[t] \/ kernel'[t] = "shut"
    BY <2>1, ShutDownStep
  <2>3. kernel' \in ShutDown(k, {s})
    BY <1>1 DEF k
  <2>. QED  BY <2>1, <2>2, <2>3
<1>7. /\ Known(connections') = Known(connections) \ {id}
      /\ \A i \in Known(connections') : connections'[i] = connections[i]
  BY <1>1, <1>2, <1>3 DEF Known
<1>8. \A i \in Known(connections') :
         connections[i].socket # s /\ connections[i].socket \in Sockets
  <2> SUFFICES ASSUME NEW i \in Known(connections')
               PROVE  connections[i].socket # s /\ connections[i].socket \in Sockets
    OBVIOUS
  <2>1. i \in Known(connections) /\ i # id
    BY <1>7
  <2>. QED  BY <1>2, <2>1, OneConnectionEach, Knows DEF Ind
<1>9. Served' = Served \ {s}
  <2>1. \A i \in Known(connections') : connections'[i].socket \in Served \ {s}
    BY <1>7, <1>8 DEF Served
  <2>2. \A i \in Known(connections) : connections[i].socket # s =>
           connections[i].socket \in Served'
    BY <1>2, <1>7 DEF Served
  <2>. QED  BY <2>1, <2>2 DEF Served
<1>10. TypeOK'
  <2>1. connections' \in [Ids -> Conn \cup {NoConn}]
    BY <1>1, <1>3
  <2>2. connected' \in [Handlers -> BOOLEAN]
    BY <1>1, <1>3
  <2>. QED  BY <1>1, <1>5, <1>6, <2>1, <2>2 DEF Ind, TypeOK, States
<1>11. FoundIsRegistered'
  <2> SUFFICES ASSUME NEW i \in Known(connections')
               PROVE  /\ reactor'.handlers[connections'[i].socket] = connections'[i].handler
                      /\ connections'[i].handler \in reactor'.live
                      /\ idOf'[connections'[i].handler] = i
    BY DEF FoundIsRegistered
  <2>1. /\ i \in Known(connections) /\ connections'[i] = connections[i]
    BY <1>7
  <2>2. /\ reactor.handlers[connections[i].socket] = connections[i].handler
        /\ connections[i].handler \in Handlers
        /\ connections[i].socket \in Sockets
        /\ idOf[connections[i].handler] = i
    BY <2>1, Knows DEF Ind, FoundIsRegistered
  <2>3. connections[i].socket \in Keys(reactor'.handlers)
    BY <1>5, <2>2, NoneAssumption DEF Keys
  <2>4. connections[i].handler \in reactor'.live
    BY <1>5, <2>2, <2>3, RegisteredIsLive
  <2>. QED  BY <1>1, <1>5, <2>1, <2>2, <2>4
<1>12. KnownSocketsOpen'
  BY <1>6, <1>7, <1>8 DEF Ind, KnownSocketsOpen
<1>13. NotReused'
  <2>1. Keys(reactor'.handlers) = Keys(reactor.handlers)
        /\ Keys(reactor.handlers) \subseteq Sockets
    BY <1>5 DEF Keys
  <2>. QED  BY <1>3, <1>5, <1>6, <1>9, <2>1 DEF Ind, NotReused
<1>14. Orphans'
  <2>1. Keys(reactor'.handlers) = Keys(reactor.handlers)
    BY <1>5 DEF Keys
  <2>2. /\ s \in Nat /\ at \in Nat /\ s + 1 > at
        /\ \A t \in Keys(reactor.handlers) : t \in Nat
    BY <1>1, SocketsAssumption DEF Ind, TypeOK, Visit, IsNext, Keys
  <2>3. \A t \in Keys(reactor.handlers) \ Served : t \in reactor.aboutRemove /\ t + 1 <= at
    BY DEF Ind, Orphans
  <2>4. \A t \in Keys(reactor'.handlers) \ Served' :
           t = s \/ t \in Keys(reactor.handlers) \ Served
    BY <1>9, <2>1
  <2>5. stage' = "pass" /\ at' = s + 1 /\ reactor'.aboutRemove = reactor.aboutRemove \cup {s}
    BY <1>1, <1>5
  <2>6. ASSUME NEW t \in Keys(reactor'.handlers) \ Served'
        PROVE  t \in reactor'.aboutRemove /\ t + 1 <= at'
    BY <2>1, <2>2, <2>3, <2>4, <2>5
  <2>. QED  BY <2>5, <2>6 DEF Orphans
<1>. QED  BY <1>1, <1>5, <1>10, <1>11, <1>12, <1>13, <1>14 DEF Ind

(* The end of a pass frees the orphans, all of which are parked.           *)
LEMMA EndPassKeeps ==
  ASSUME Ind, EndPass
  PROVE  Ind'
<1> DEFINE idle == [reactor EXCEPT !.running = FALSE]
<1>1. /\ stage = "pass" /\ stage' = "idle" /\ at' = 0 /\ ready' = {}
      /\ reactor' = Flush(reactor)
      /\ UNCHANGED <<connections, idOf, connected, kernel, alive>>
  BY DEF EndPass
<1>2. /\ reactor \in ReactorType /\ Owned(reactor) /\ reactor.aboutAdd = EmptyMap
  BY DEF Ind, TypeOK
<1>3. /\ idle \in ReactorType /\ idle.running = FALSE
      /\ idle.handlers = reactor.handlers /\ idle.live = reactor.live
      /\ idle.aboutAdd = EmptyMap /\ idle.aboutRemove = reactor.aboutRemove
      /\ idle.corrupt = reactor.corrupt /\ idle.aboutRemove \in SUBSET Sockets
  BY <1>2 DEF ReactorType
<1>4. reactor' = OnRemoveAll(OnRegisterAll(idle, idle.aboutAdd),
                             OnRegisterAll(idle, idle.aboutAdd).aboutRemove)
  BY <1>1, Zenon DEF Flush
<1> HIDE DEF idle
<1>5. Owned(idle)
  BY <1>2, <1>3, OwnedMeans
<1>6. reactor' = OnRemoveAll(idle, idle.aboutRemove)
  BY <1>3, <1>4, RegisterNothing
<1>7. /\ reactor' \in ReactorType /\ Owned(reactor') /\ reactor'.running = FALSE
      /\ reactor'.aboutAdd = EmptyMap /\ reactor'.aboutRemove = reactor.aboutRemove
      /\ reactor'.handlers = [t \in Sockets |-> IF t \in reactor.aboutRemove
                                                  THEN None ELSE reactor.handlers[t]]
  BY <1>3, <1>5, <1>6, RemoveAll
<1>8. Keys(reactor'.handlers) = Keys(reactor.handlers) \ reactor.aboutRemove
  BY <1>7 DEF Keys
<1>9. Served' = Served /\ Known(connections') = Known(connections)
  BY <1>1 DEF Served
<1>10. TypeOK'
  BY <1>1, <1>7 DEF Ind, TypeOK
<1>11. FoundIsRegistered'
  <2> SUFFICES ASSUME NEW i \in Known(connections)
               PROVE  /\ reactor'.handlers[connections[i].socket] = connections[i].handler
                      /\ connections[i].handler \in reactor'.live
                      /\ idOf[connections[i].handler] = i
    BY <1>1, <1>9 DEF FoundIsRegistered
  <2>1. /\ reactor.handlers[connections[i].socket] = connections[i].handler
        /\ connections[i].handler \in Handlers
        /\ connections[i].socket \in Sockets
        /\ connections[i].socket \notin reactor.aboutRemove
        /\ idOf[connections[i].handler] = i
    BY Knows DEF Ind, FoundIsRegistered, NotReused, Served
  <2>2. connections[i].socket \in Keys(reactor'.handlers)
        /\ reactor'.handlers[connections[i].socket] = connections[i].handler
    BY <1>7, <2>1, NoneAssumption DEF Keys
  <2>3. connections[i].handler \in reactor'.live
    BY <1>7, <2>2, RegisteredIsLive
  <2>. QED  BY <2>1, <2>2, <2>3
<1>12. KnownSocketsOpen'
  BY <1>1, <1>9 DEF Ind, KnownSocketsOpen
<1>13. NotReused'
  BY <1>1, <1>7, <1>8, <1>9 DEF Ind, NotReused
<1>14. Orphans'
  BY <1>8, <1>9 DEF Ind, Orphans
<1>. QED  BY <1>1, <1>7, <1>10, <1>11, <1>12, <1>13, <1>14 DEF Ind

-----------------------------------------------------------------------------
LEMMA InitInd == Init => Ind
<1> SUFFICES ASSUME Init PROVE Ind
  OBVIOUS
<1>1. /\ reactor \in ReactorType
      /\ reactor.handlers = EmptyMap /\ reactor.aboutAdd = EmptyMap
      /\ reactor.aboutRemove = {} /\ reactor.live = {}
      /\ reactor.running = FALSE /\ reactor.corrupt = FALSE
  BY DEF Init, NewReactor, ReactorType, HandlerMap, EmptyMap
<1>2. Keys(reactor.handlers) = {} /\ Known(connections) = {}
  BY <1>1 DEF Keys, EmptyMap, Init, Known, NoConn
<1>3. Owned(reactor)
  BY <1>1, <1>2, OwnedMeans
<1>4. TypeOK
  <2>1. idOf \in [Handlers -> Ids]
    <3>1. (CHOOSE id \in Ids : TRUE) \in Ids
      BY IdsAssumption
    <3>. QED  BY <3>1 DEF Init
  <2>. QED  BY <1>1, <2>1 DEF Init, TypeOK
<1>. QED  BY <1>1, <1>2, <1>3, <1>4
          DEF Init, Ind, FoundIsRegistered, KnownSocketsOpen, NotReused, Orphans

LEMMA NextInd == Ind /\ [Next]_vars => Ind'
<1> SUFFICES ASSUME Ind, [Next]_vars PROVE Ind'
  OBVIOUS
<1>1. ASSUME NEW id \in Ids, NEW s \in Sockets, NEW h \in Handlers, Request(id, s, h)
      PROVE  Ind'
  BY <1>1, RequestKeeps
<1>2. CASE RequestFails \/ UNCHANGED vars
  BY <1>2, QuietStepsKeep DEF RequestFails
<1>3. ASSUME NEW id \in Ids, Close(id) PROVE Ind'
  BY <1>3, CloseKeeps
<1>4. CASE ShutdownAll
  BY <1>4, ShutdownAllKeeps
<1>5. CASE SelectNothing \/ SelectDies
  BY <1>5, QuietStepsKeep
<1>6. ASSUME NEW writable \in SUBSET Keys(reactor.handlers), SelectReady(writable)
      PROVE  Ind'
  BY <1>6, SelectReadyKeeps
<1>7. ASSUME NEW s \in Sockets, Handle(s) PROVE Ind'
  <2>1. ASSUME NEW ok \in BOOLEAN, HandleLoses(s, ok) PROVE Ind'
    BY <2>1, HandleLosesKeeps
  <2>. QED  BY <1>7, <2>1, QuietHandlersKeep DEF Handle
<1>8. CASE EndPass
  BY <1>8, EndPassKeeps
<1>. QED  BY <1>1, <1>2, <1>3, <1>4, <1>5, <1>6, <1>7, <1>8 DEF Next

(* The inductive invariant holds of every execution, for any number of     *)
(* connections, replaced, closed and lost in any order.                    *)
THEOREM IndInvariant == Spec => []Ind
BY InitInd, NextInd, PTL DEF Spec

(* No handler is deleted twice or called once it is deleted, although      *)
(* handlers remove themselves while they are being called.                 *)
THEOREM HandlersMemorySafe == Spec => []MemorySafe
<1>1. Ind => MemorySafe
  BY OwnedMeans DEF Ind, MemorySafe
<1>. QED  BY <1>1, IndInvariant, PTL

(* What Find returns is registered under the same socket and allocated,    *)
(* and between passes the reactor serves the known connections only.       *)
THEOREM TheMapsAgree == Spec => []MapsAgree
<1>1. Ind => MapsAgree
  <2> SUFFICES ASSUME Ind PROVE MapsAgree
    OBVIOUS
  <2>1. NoOrphanHandler
    BY IdleServes DEF NoOrphanHandler, Served
  <2>. QED  BY <2>1 DEF Ind, MapsAgree
<1>. QED  BY <1>1, IndInvariant, PTL

(* The program never shuts down the socket of a connection it still knows. *)
THEOREM KnownStayOpen == Spec => []KnownSocketsOpen
<1>1. Ind => KnownSocketsOpen
  BY DEF Ind
<1>. QED  BY <1>1, IndInvariant, PTL

(* A handler that fails takes down the connection it serves, and no other. *)
THEOREM LosesOnlyItsOwn == Spec => OnlyOwnConnectionLost
<1> DEFINE Lost == \A id \in Ids :
              stage = "pass" /\ connections'[id] # connections[id]
                => at' = connections[id].socket + 1
<1>1. Ind /\ [Next]_vars => Lost
  <2> SUFFICES ASSUME Ind, [Next]_vars, stage = "pass",
                      NEW id \in Ids, connections'[id] # connections[id]
               PROVE  at' = connections[id].socket + 1
    OBVIOUS
  <2>1. PICK s \in Sockets, ok \in BOOLEAN : HandleLoses(s, ok)
    BY DEF Next, vars, Request, RequestFails, Close, ShutdownAll, SelectNothing, SelectDies,
           SelectReady, Idle, Handle, HandleNothing, HandleSends, HandleDies, EndPass
  <2>2. /\ Visit(s) /\ at' = s + 1
        /\ connections' = [connections EXCEPT ![idOf[Handler(s)]] = NoConn]
    BY <2>1 DEF HandleLoses, Visit
  <2>3. id = idOf[Handler(s)]
    BY <2>2 DEF Ind, TypeOK
  <2>. QED  BY <2>2, <2>3, NextIsServed
<1>2. Spec => [][Lost]_vars
  <2>1. Ind /\ [Next]_vars => [Lost]_vars
    BY <1>1
  <2> HIDE DEF Lost
  <2>. QED  BY <2>1, IndInvariant, PTL DEF Spec
<1>. QED  BY <1>2 DEF OnlyOwnConnectionLost
=============================================================================
