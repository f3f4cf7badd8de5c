--------------------------- MODULE NetworkContext ---------------------------
(***************************************************************************)
(* The network thread's engine: Core::NetworkContext, which maps           *)
(* connection ids to a socket and its handler, over the SocketReactor it   *)
(* contains; NetworkManager, which creates and closes connections and runs *)
(* the reactor; and TCPSocketEventHandlerImpl, the handler the reactor     *)
(* calls back, which closes its socket and removes its own id when a send  *)
(* fails.                                                                  *)
(*                                                                         *)
(* Everything runs on one thread.  What makes it hard is re-entrancy: a    *)
(* handler removes itself from the two maps while the reactor iterates     *)
(* over one of them, and an id is reused while its old socket lives on.    *)
(***************************************************************************)
EXTENDS SocketReactor

CONSTANTS Ids             \* connection ids

ASSUME IdsAssumption == Ids # {}

VARIABLES reactor,      \* the SocketReactor member
          connections,  \* _connections: id -> socket and handler, or NoConn
          idOf,         \* _token.id of each handler object
          connected,    \* _isConnected of each handler object
          kernel,       \* what the kernel knows of each descriptor
          stage,        \* "idle", or "pass" while the reactor iterates
          at,           \* the iterator: 1 + the last key visited
          ready,        \* the descriptors select reported writable
          alive         \* the process has not been terminated

vars == <<reactor, connections, idOf, connected, kernel, stage, at, ready, alive>>

Conn == [socket : Sockets, handler : Handlers]
NoConn == [socket |-> None, handler |-> None]

Init == /\ reactor = NewReactor(FALSE)
        /\ connections = [id \in Ids |-> NoConn]
        /\ idOf = [h \in Handlers |-> CHOOSE id \in Ids : TRUE]
        /\ connected = [h \in Handlers |-> FALSE]
        /\ kernel = [s \in Sockets |-> "unused"]
        /\ stage = "idle"
        /\ at = 0
        /\ ready = {}
        /\ alive = TRUE

Known(c) == { id \in Ids : c[id] # NoConn }

-----------------------------------------------------------------------------
(* The methods of NetworkContext, on the reactor and the map.              *)

(* Remove: the handler is given up, the socket is left as it is.           *)
RemoveConn(r, c, id) ==
  IF id \in Known(c) THEN RemoveHandler(r, c[id].socket) ELSE r

(* Mutant: the connection that had the id keeps its handler.               *)
AddConnKeepsOld(r, c, id, s, h) == RegisterHandler(r, s, h)

(* Add: a connection already there under the id is removed first.          *)
AddConn(r, c, id, s, h) == RegisterHandler(RemoveConn(r, c, id), s, h)

(* The calls of RemoveHandler that ShutdownAll makes, one per connection.  *)
RemoveEach(r, gone) ==
  CASE gone = {} -> r
    [] gone # {} /\ r.running -> [ r EXCEPT !.aboutRemove = @ \cup gone ]
    [] OTHER -> OnRemoveAll(OnRemoveAll(r, r.aboutRemove), gone)

(* Shutdown of the sockets of gone.  The kernel may refuse (ENOTCONN); the *)
(* callers swallow the exception.  Nothing ever calls close().             *)
ShutDown(k, gone) ==
  { [s \in Sockets |-> IF s \in done THEN "shut" ELSE k[s]] : done \in SUBSET gone }

(* The kernel hands out the lowest free descriptor.                        *)
NewSocket(k, s) == /\ k[s] = "unused"
                   /\ \A t \in Sockets : k[t] = "unused" => s <= t

-----------------------------------------------------------------------------
Idle == alive /\ stage = "idle"

(* A TCP connection request: NetworkCreationHelper makes a socket and a    *)
(* handler and adds them; Add shuts the socket that had the id down.       *)
Request(id, s, h) ==
  /\ Idle
  /\ NewSocket(kernel, s)
  /\ h \notin reactor.live
  /\ reactor' = AddConn([reactor EXCEPT !.live = @ \cup {h}], connections, id, s, h)
  /\ connections' = [connections EXCEPT ![id] = [socket |-> s, handler |-> h]]
  /\ kernel' \in ShutDown([kernel EXCEPT ![s] = "fresh"],
                          { connections[i].socket : i \in {id} \cap Known(connections) })
  /\ idOf' = [idOf EXCEPT ![h] = id]
  /\ connected' = [connected EXCEPT ![h] = FALSE]
  /\ UNCHANGED <<stage, at, ready, alive>>

(* A UDP request, or no descriptor left: "socket created failed" is caught *)
(* and reported to NotifyException, which does nothing.                    *)
RequestFails ==
  /\ Idle
  /\ UNCHANGED vars

(* Mutant: the reactor is told, the map is not.                            *)
CloseKeepsEntry(id) ==
  /\ Idle
  /\ reactor' = RemoveConn(reactor, connections, id)
  /\ UNCHANGED <<connections, idOf, connected, kernel, stage, at, ready, alive>>

(* NetworkManager's Close.                                                 *)
Close(id) ==
  /\ Idle
  /\ reactor' = RemoveConn(reactor, connections, id)
  /\ connections' = [connections EXCEPT ![id] = NoConn]
  /\ UNCHANGED <<idOf, connected, kernel, stage, at, ready, alive>>

ShutdownAll ==
  /\ Idle
  /\ LET gone == { connections[id].socket : id \in Known(connections) }
     IN  /\ reactor' = RemoveEach(reactor, gone)
         /\ kernel' \in ShutDown(kernel, gone)
  /\ connections' = [id \in Ids |-> NoConn]
  /\ UNCHANGED <<idOf, connected, stage, at, ready, alive>>

(* Select: the handlers accept Write or nothing.  No descriptor to select  *)
(* on, the 50 ms timeout that Select catches, or an errno that             *)
(* OnSocketError does not know: nothing happened.                          *)
SelectNothing ==
  /\ Idle
  /\ reactor' = Poll(reactor)
  /\ UNCHANGED <<connections, idOf, connected, kernel, stage, at, ready, alive>>

(* select fails with an errno OnSocketError knows (EINTR): the exception   *)
(* leaves Select, and the thread's function.                               *)
SelectDies ==
  /\ Idle
  /\ Selectable(Keys(reactor.handlers))
  /\ reactor' = Poll(reactor)
  /\ alive' = FALSE
  /\ UNCHANGED <<connections, idOf, connected, kernel, stage, at, ready>>

SelectReady(writable) ==
  /\ Idle
  /\ Selectable(writable)
  /\ reactor' = BeginPass(Poll(reactor))
  /\ stage' = "pass"
  /\ at' = 0
  /\ ready' = writable
  /\ UNCHANGED <<connections, idOf, connected, kernel, alive>>

-----------------------------------------------------------------------------
(* The handler of s is called.  It returns before the next one is called.  *)
Visit(s) == /\ alive
            /\ stage = "pass"
            /\ IsNext(reactor.handlers, at, s)
            /\ at' = s + 1

Handler(s) == reactor.handlers[s]

(* Handle with no mode set does nothing.                                   *)
HandleNothing(s) ==
  /\ Visit(s)
  /\ s \notin ready
  /\ reactor' = Call(reactor, {s})
  /\ UNCHANGED <<connections, idOf, connected, kernel, stage, ready, alive>>

(* Connect, unless the handler has connected before.  An IOException is    *)
(* swallowed and the handler goes on as if connected.                      *)
MayConnect(s, ok) == connected[Handler(s)] => ok
AfterConnect(s, ok) == [kernel EXCEPT ![s] = IF ok THEN "connected" ELSE @]

(* Handle with Write.  The test of the queue is inverted: front() and      *)
(* pop_front() run on an empty list.  If the process survives that, the    *)
(* send loop may go through.                                               *)
HandleSends(s, ok) ==
  /\ Visit(s)
  /\ s \in ready
  /\ reactor' = Call(reactor, {s})
  /\ MayConnect(s, ok)
  /\ kernel' = AfterConnect(s, ok)
  /\ connected' = [connected EXCEPT ![Handler(s)] = ok]
  /\ UNCHANGED <<connections, idOf, stage, ready, alive>>

(* Mutant: the handler closes the socket and does not remove its id.       *)
HandleLosesKeepsId(s, ok) ==
  /\ Visit(s)
  /\ s \in ready
  /\ MayConnect(s, ok)
  /\ kernel' \in ShutDown(AfterConnect(s, ok), {s})
  /\ reactor' = Call(reactor, {s})
  /\ connected' = [connected EXCEPT ![Handler(s)] = FALSE]
  /\ UNCHANGED <<connections, idOf, stage, ready, alive>>

(* Or the send fails: the handler closes the socket and removes its id,    *)
(* which removes the handler from the reactor that is calling it.          *)
HandleLoses(s, ok) ==
  LET id == idOf[Handler(s)]
  IN  /\ Visit(s)
      /\ s \in ready
      /\ MayConnect(s, ok)
      /\ kernel' \in ShutDown(AfterConnect(s, ok), {s})
      /\ reactor' = RemoveConn(Call(reactor, {s}), connections, id)
      /\ connections' = [connections EXCEPT ![id] = NoConn]
      /\ connected' = [connected EXCEPT ![Handler(s)] = FALSE]
      /\ UNCHANGED <<idOf, stage, ready, alive>>

(* Or the process ends: an exception that is no IOException (ETIMEDOUT,    *)
(* EACCES, EINVAL of connect) reaches NOEXCEPT, or the list is wrecked.    *)
HandleDies(s) ==
  /\ Visit(s)
  /\ s \in ready
  /\ reactor' = Call(reactor, {s})
  /\ alive' = FALSE
  /\ UNCHANGED <<connections, idOf, connected, kernel, stage, ready>>

(* The iteration is over: the parked removals are executed.                *)
EndPass ==
  /\ alive
  /\ stage = "pass"
  /\ IsLast(reactor.handlers, at)
  /\ reactor' = Flush(reactor)
  /\ stage' = "idle"
  /\ at' = 0
  /\ ready' = {}
  /\ UNCHANGED <<connections, idOf, connected, kernel, alive>>

Handle(s) == \/ HandleNothing(s)
             \/ \E ok \in BOOLEAN : HandleSends(s, ok) \/ HandleLoses(s, ok)
             \/ HandleDies(s)

Next == \/ \E id \in Ids, s \in Sockets, h \in Handlers : Request(id, s, h)
        \/ RequestFails
        \/ \E id \in Ids : Close(id)
        \/ ShutdownAll
        \/ SelectNothing
        \/ SelectDies
        \/ \E writable \in SUBSET Keys(reactor.handlers) : SelectReady(writable)
        \/ \E s \in Sockets : Handle(s)
        \/ EndPass

Fairness == WF_vars(\E s \in Sockets : Handle(s)) /\ WF_vars(EndPass)

Spec == Init /\ [][Next]_vars /\ Fairness

-----------------------------------------------------------------------------
(* Types, and the iterator's place in each stage.                          *)
TypeOK == /\ reactor \in ReactorType
          /\ connections \in [Ids -> Conn \cup {NoConn}]
          /\ idOf \in [Handlers -> Ids]
          /\ connected \in [Handlers -> BOOLEAN]
          /\ kernel \in [Sockets -> {"unused", "fresh", "connected", "shut"}]
          /\ stage \in {"idle", "pass"}
          /\ stage = "idle" => at = 0 /\ ready = {}
          /\ at \in {0} \cup { s + 1 : s \in Sockets }
          /\ ready \subseteq Sockets
          /\ alive \in BOOLEAN

(* However connections are added, replaced, closed and lost inside         *)
(* callbacks, no handler is deleted twice, or called once deleted.         *)
MemorySafe == ~reactor.corrupt

FoundIsRegistered ==
  \A id \in Known(connections) :
     LET c == connections[id]
     IN  /\ reactor.handlers[c.socket] = c.handler
         /\ c.handler \in reactor.live
         /\ idOf[c.handler] = id

NoOrphanHandler ==
  stage = "idle" =>
     Keys(reactor.handlers) = { connections[id].socket : id \in Known(connections) }

(* The two maps agree: whatever Find returns for an id is in the reactor   *)
(* under the same socket, allocated, and reports to that id; and between   *)
(* passes the reactor serves the known connections and no others, so that  *)
(* one that was replaced, closed or lost leaves no handler behind that     *)
(* select would go on polling.                                             *)
MapsAgree == TypeOK /\ FoundIsRegistered /\ NoOrphanHandler

(* The socket of a known connection was never shut down by this program,   *)
(* also while its id changes hands.                                        *)
KnownSocketsOpen ==
  \A id \in Known(connections) : kernel[connections[id].socket] \in {"fresh", "connected"}

(* A handler that fails takes down the connection it serves and no other:  *)
(* never the one that meanwhile replaced it under the same id.             *)
OnlyOwnConnectionLost ==
  [][ \A id \in Ids :
        stage = "pass" /\ connections'[id] # connections[id]
          => at' = connections[id].socket + 1 ]_vars

(* A handler whose connection is gone is freed in the end, unless the      *)
(* process ends first.                                                     *)
HandlersReclaimed ==
  \A h \in Handlers :
     (h \in reactor.live /\ \A id \in Ids : connections[id].handler # h)
        ~> (h \notin reactor.live \/ ~alive)
=============================================================================
