# A specification of android-net-adapter

The repository is an adapter that lets an Android application use TCP (and, in
part, UDP) connections through native code: a Java `NetworkService` posts
requests to a native *network thread*, which runs a `select` reactor over its
sockets and posts results back to the UI thread. This directory holds TLA+
modules of its native core, configurations that model-check them with TLC, and
theorems that TLAPS checks. Paths below are relative to `src/src/main/jni/`
unless they begin with `src/`.

## 1. The system

### Threads and how they interact

* The **main (UI) thread** calls `Application::Run`. It registers the UI message
  queue, starts the network thread, waits for it on an `InitSynchronizer`, and
  later posts requests to it through a `Context`.
* The **network thread** runs `ClientRunnable::Run`. It registers its
  `RequestPacketQueue` with `MessageQueueManager`, reports through an
  `InitNotifier`, and loops: handle a batch of messages, take the next batch, run
  the reactor for at most 50 ms.
* The way back, from any thread to the UI thread, is `AndroidMainMessageQueue::Post`:
  a heap container, wrapped in a Java `JMessage`, run by the UI thread's `Handler`.
* **Any thread** that holds a `SharedContext` posts messages to its queue.

They share three things: the map in `MessageQueueManager` (a spin lock), the deque
in `RequestPacketQueue` (a mutex), and during start-up the synchronizer and the
notifier (a mutex and a condition). Everything that concerns sockets belongs to
the network thread alone; what is hard there is not concurrency but
*re-entrancy*: the reactor calls handlers, and a handler changes the maps that the
reactor iterates over.

### Inventory

| Component | State | Operations | What is hard | What makes it correct |
|---|---|---|---|---|
| `Network/SocketReactor` | three containers of raw, owned pointers; `_isRunning` | `RegisterHandler`, `RemoveHandler`, `Run` | calls from inside a callback are parked and executed after the pass; the parked lists are never cleared; the flag is never initialised | no object is deleted twice, leaked, or deleted while it executes; what was asked for takes effect |
| `Core/NetworkContext` | `_connections`: id to (socket, handler); a reactor | `Add`, `Remove`, `Find`, `ShutdownAll`, `Run` | ids are reused; `Add` removes, shuts down (may throw) and inserts; two maps have to agree in the middle of a pass | the maps agree; a failing connection takes down itself and no other |
| `Core/NetworkManager`, `NetworkResourceHelper` | a `NetworkContext`, middlewares, a status map | connection requests, `Create`, `Close`, `Select` | failures half-way through the creation of a connection | no half-made connection |
| `Core/TCPSocketEventHandler`, `NetworkMessagesHandler` | token, `_isConnected`, buffer, task queue of owned streams | `Accept`, `PushTask`, `Handle` | closes and removes itself from inside its callback; exceptions against `NOEXCEPT`; a stream changes owner three times | its own connection goes, once; a stream is sent in order or deleted, once |
| `Core/UDPSocketEventHandler` | the same | the same | never constructed by the code | the same |
| `Network/Socket`, `SocketAddress`, exceptions | a descriptor and, in the kernel, its options | `Init`, `Connect`, `Send`, `Shutdown`, setters and getters | errno to exception; units and widths of timeouts; descriptors are never closed | what was set is in force and read back |
| `Core/ClientRunnable`, `RequestPacketQueue` | deque, array of 8, two iterators | `Post`, `TakeSome`, `OnRun` | posts race with batching; the array keeps pointers to deleted messages | each accepted message is consumed once and in order |
| `Dispatch/Context`, `MessageQueueManager` | map from thread id to queue | `Post`, `Register`, `Unregister`, `Get` | look-up and post are two critical sections; the main thread unregisters | an accepted message is consumed although the queue was unregistered |
| `Core/InitSynchronizer`, `App/AndroidApplication` | counter, mutex, condition; the notifier | `Wait`, `Notify`; `Run`, `InitThreadQueues` | lost wake-ups; objects of the waiter's stack frame used by a detached thread | the main thread gets on; nothing is used after it was destroyed |
| `Dispatch/EventDispatch`, `EventHandler`, `Notifier`, `MessageQueue` | sets of handlers by type; type counters | `Register`, `Unregister`, `Dispatch` | changes during dispatch; 16-bit type ids | a handler lives while it runs; those registered hear the event |
| `Core/NetworkEventsHandler`, `NetworkStatus`, `NetworkEvents` | waitables by connection; the numbers of event classes | connected and disconnected events, `Close` | the same event twice; the status is deleted by its own event; static initialisation order | no waitable is called after its deletion, and each hears what happened |
| `Core/NetworkMessages`, `NetworkService`, `src/src/main/java` services | the request's fields | create and post requests | four conversions between URL and `connect`; ids are hash codes | what connects is what was asked for |
| `JNIImpl/JNI_UIMessageHandler`, UI message queue in Java | message containers, `JMessage._handle` | `post`, `run`, `finalize` | ownership across the language border, two collectors; a reference to a variable that is gone | each container is freed once; runnables run once and in order |
| `JNIImpl/*`, `JObject`, `JContext` (services, contexts, listener adapters) | native handles in Java objects, global references | `provides`, `_requestConnect`, `_requestDestroy`, `finalize` | constructors that throw half-way; finalizers on a thread of their own; references that are never released | each native object has one owner, stays while a request needs it, and goes in the end |
| `Dispatch/Serialization`, `JNI/JNITypes.h`, Java views, build files | none | | | |

The behaviours that are hard to test are the `hazards` of `PROJECT.json`, each at
its line, with the properties that cover it.

## 2. The modules

```
HandlerRegistry  <== ReactorClient --EXTENDS--> SocketReactor <--EXTENDS-- NetworkContext
  (abstract)           ^                        (the class as data)             ^
                       |                                                        |
              ReactorProofs  <------------INSTANCE------------  NetworkContextProofs
              MCReactor                                         MCNetworkContext

Mailbox  <== ClientRunnable <-- ClientRunnableProofs, MCClientRunnable
(abstract)
Startup <-- StartupProofs, MCStartup          UIMessages <-- UIMessagesProofs, MCUIMessages

SocketOptions <--EXTENDS-- SocketHandlers <-- SocketHandlersProofs, MCSocketHandlers
(setters as functions)

EventDispatcher <-- MCEventDispatcher         Services <-- MCServices
       ^                                         ^
EventDispatcherProofs                         ServicesProofs
       v                                         v
NetworkStatus <-- MCNetworkStatus             Requests <-- MCRequests
```

Two modules of theorems each extend two components that meet in the code: the events
that `EventDispatcher` delivers are those `NetworkStatus` reacts to, and the services of
`Services` make the requests of `Requests`. The second of each pair therefore names its
parts with a prefix (`StatusInit`, `StatusSpec`, `RequestsNext`, ...) and its null value
otherwise than `None` (`Null`, `NoConnection`), so that both can be extended at once.

`<==` reads "is implemented by" and is checked as a refinement.

### SocketReactor - the class as data

The members of `Net::SocketReactor` are a record; each method, and each loop of
`Run`, is an operator from records to records. Two ghost fields describe the heap:
`live`, the objects allocated, and `corrupt`, which becomes true when a method
deletes or calls an object that is not allocated.

| TLA+ | C++ |
|---|---|
| `handlers`, `aboutAdd`, `aboutRemove`, `running` | `_handlers`, `_aboutAddHandlers`, `_aboutRemoveHandlers`, `_isRunning` |
| `RegisterHandler`, `RemoveHandler` | the methods, with the branch on `_isRunning` |
| `OnRegisterAll`, `OnRemoveAll` | the loops that call `OnRegisterHandler` and `OnRemoveHandler` |
| `Poll`, `Selectable`, `BeginPass`, `IsNext`, `IsLast`, `Flush` | the parts of `Run`: asking each handler what it accepts, the test of `nfd`, `Autobool`, the iteration of the `std::map`, the replay of the parked lists |

### ReactorClient - the reactor and one thread that uses it

`Register` and `Remove` happen outside `Run` or inside a handler that `Run` is
calling. `Run` is taken apart: `RunNoFd`, `RunFails`, `RunReady` (up to the result of
`select`), then `Handle(s)` and `Return` for each call, then `EndPass`. `at` is the
iterator. `wanted` is a history: what the client asked for. Descriptors may be
registered again at any time, those that were removed too.

Two constants say how the class is used, since it is sound only under some uses:

* `GarbageRunning` - the values the uninitialised `_isRunning` may start with;
* `DeferredAdds` - whether a handler may register a handler.

The program keeps to `DeferredAdds = FALSE` (`Add` is called from the message loop
only), and `NetworkContext` does not need the constant because its actions show it.
`GarbageRunning` is up to the memory the object is made in.

The removals that were parked in a pass are never cleared, and each later pass and each
later `RemoveHandler` executes them again. So a handler that is registered under a
descriptor that was once removed inside a pass goes with the next of them, although
nobody asked for it. `Lost(s)` says that this is how `s` may differ from what was
asked, and the properties allow for that difference and no other: a registration under
any other descriptor stays, and no removed handler comes back. (The program does not meet
it, since descriptors are never closed and so never handed out again.)

### HandlerRegistry - what the reactor promises

A map from sockets to owned handlers without any parked list. A handler that is
replaced or removed may live on for a while; it is reclaimed in the end, and never
while it is registered or being called. The promise has the gap that the code has: what
is registered under a socket that was removed from within a call (`unsteady`) may go by
itself.

### NetworkContext - connections over the reactor

The network thread's engine: `Core::NetworkContext` with its reactor, the requests
of `NetworkManager` that reach it, and the TCP handler's callback. `idOf` and
`connected` are fields of the handlers, `kernel` is what the operating system knows
of each descriptor. `Request`, `Close`, `ShutdownAll` and the three outcomes of
`Select` happen between passes; inside a pass a handler does nothing, sends, loses
its connection (it shuts its socket down and removes its id from the two maps while
one of them is iterated over) or brings the process down. Reading is not modelled:
`Accept` never returns true for `Read` (`Core/NetworkMessagesHandler.cpp:62`), so
`OnRead` is unreachable. Each choice that undefined behaviour or an errno leaves
open is a disjunct (`HandleSends`, `HandleLoses`, `HandleDies`).

### ClientRunnable and Mailbox - messages to the network thread

`Lookup` and `Post` are the two critical sections of `Context::Post`; `Unregister` may
come between. `HandleOne`, `BatchDone`, `TakeSome` and `Select` are the loop of
`OnRun`. The array `messages` keeps its stale entries, as in the code. The
user-message branch is modelled as written: `processed` is set to false and then
tested. `Mailbox` is the abstract promise: accepted messages, consumed in order.

### Startup - the synchronizer

`Application::Run` up to the end of `InitThreadQueues`, in steps of one operation on
the mutex, the condition or a shared object. `Wait` is lock, check, block, wake
(signalled or spurious), unlock; `Notify` is lock, decrement (unsigned, wraps),
signal, unlock. `sync` is false once the unique pointers are destroyed. The code
starts one thread, the class counts any number, and so does the model.

### EventDispatcher - handlers of events

`Dispatch::EventDispatcher` on its thread. User code (`UserCode`) runs outside
`Dispatch` or inside a handler that it calls, and may register, unregister, drop its
own reference (`Release`) or dispatch again. A `Frame` is an activation of
`Dispatch`: the copy of the set (`owned`), what is left of it (`todo`), and the
handler being called. `Unregister(handler)` erases from copies of the sets, so
`UnregisterHandler` changes nothing but the history `wanted`. The sets are ordered
by address; `Call` takes any element. No code of this commit registers a handler, so
the module says what the class does under any use on one thread.

### Requests - from a URL to connect()

`NetworkServiceImpl.java`, the JNI function, the service, `NetworkManager::Process` and
the handler's connect, with each conversion as an operator: `ConnectionString` (the
two flags that change places), `Narrow` (16 bits), `Message`, `SocketAddress` (the
family by the host's form, the port as the wire reads it), `ConnectResults` (the
kernel's answer, external), and the classes of `Socket::OnError`. `hash` is any
function from URLs to ids, fixed for a behaviour. The handler's undefined access to
its empty task list is a choice of going on, losing the connection and crashing.
Sockets and the two maps are in `NetworkContext`; here a connection is what
matters to the address: its socket's family, host, port and `_isConnected`.

### UIMessages - messages to the UI thread

`AndroidMainMessageQueue::Post` in steps that other threads may interleave with,
`UIMessageHandler.run` with `_onMessageHandle`, and the garbage collector's `Finalize`.
`containers` is the native heap, `wrappers` the `JMessage`s that hold a handle. A container
is named by the message it was made for, and that is all the name says: what it stores is
a reference to the pointer variable of `Post`'s caller (`MessageContainer` has the member
`Message *&&`). Once `Post` has returned, the UI thread finds through it what lies in that
place by then, any message of this poster or none (`Found`). `ran` records which runnables
ran, `handled` what each of them found.
`Context::Post` is called only for network contexts in this commit; the module says
what the queue does for any poster.

### SocketOptions and SocketHandlers - what a handler sends

`SocketOptions` has no variables: a setter of `Net::Socket` is a function from what the
kernel keeps of a descriptor to what it keeps afterwards, a getter is a function of
that. `Quotient`, `Remainder` and `NarrowToInt` are C++'s; `SndTimeo` is the kernel's
side of SO_SNDTIMEO, which counts ticks (external). The buffer sizes, which the kernel
changes as it likes, are left out.

`SocketHandlers` has a handler of either class for each descriptor, with its `queue` of
streams and, in `sending`, the stream that the `unique_ptr` in `Handle` owns. A pass is
`BeginPass` (the reactor asks `Accept`, then `select` answers), one call for each
registered handler in any order, and `EndPass`. A call does nothing
(`HandleNothing`), takes and sends a task (`TakeTask`, `SendBlock` for each buffer,
`EndTask`), fails with an `IOException` (`SendFails`), or ends the process (`SendDies`,
`ConnectDies`). The TCP handler's inverted guard makes it take a task exactly when it
has none: `TakeFromEmpty` has the outcomes that a build can have. Between the calls
anyone may push streams. `Destroy` is the handlers' destructor.

No code of this commit calls `PushTask` and no UDP handler is made: as with the
dispatcher, the module says what the classes do when they are used on their thread.

### NetworkStatus - who waits for a connection

`status` is `PrivateData::_status`, whose values own waitables; `Watch` stands for
whoever makes a waitable and follows the comments on the fields. `Notify(c, id)` is a
notification of `CoreManager` with its dispatch: the handlers of `ConnectedEvent` and
`DisconnectedEvent` are called, and `event_cast` succeeds, *when the numbers of the
classes agree*. Those are drawn by `Initialise`, one per static initialiser, in the
order of one translation unit and then of the other, or the reverse. `misused` and
`heard` are histories: whether a waitable was called after its deletion, and what each
was told. A waitable does not call back into the status that signals it.

### Services - native objects in Java's hands

`java` is what the collector sees of each `JContext` and `NetworkServiceImpl`, `native`
what its `_handle` points to. `Provide` to `Acquire` is `ProvideNetworkService`: the
service belongs to a `unique_ptr` until Java has it, and each way to fail in between
is an action (`LookupFails`, `AcquireThrows`, then `Unwind`). `halfMade` are the services
whose constructor stored the handle and threw. `MakeAdapter` and `PostRequest` are a
request; `refs` is the table of global references, of which none is ever deleted,
because the adapters forget what they took. Each refers to a listener that is an inner object
of the service the request was made on, and so pins that service. `Drop` is Java code that
lets go of an object, `Finalize` the finalizer thread: what Java code holds, what is on some
thread's stack as `this` of a native function, and what is pinned is `Reachable`.

## 3. What the runs check

| Run | Question and result | Bounds |
|---|---|---|
| `reactor` | Passes. Ownership (`MemorySafe`, `NoLeak`), iterator (`HandlerOutlivesCall`), the map against what was asked, up to what replayed removals take away (`IdleInSync`, `Settles`), and refinement of the registry (`ImplementsRegistry`) | descriptors 0, 1, 2; three handler addresses |
| `network_context` | Passes. The two maps and the sockets (`MapsAgree`: what is found is registered, and what is registered is found; `KnownSocketsOpen`), who may take down what (`OnlyOwnConnectionLost`), ownership (`MemorySafe`), and reclamation (`HandlersReclaimed`) | two ids, three descriptors, three handlers |
| `client_runnable` | Passes. No double delete, nothing lost, every posted message consumed, refinement of `Mailbox` (which keeps the order) | two posters of two messages, an array of two |
| `requests_served` | Violated: `RequestsServed` | the same |
| `startup` | Passes. `NoUseAfterDestroy`, `InitialisedBeforeReturn`, `NoLostWakeup`, `MainUnblocks` | two threads; a counter that wraps at 15 |
| `event_dispatcher` | Passes. `RunningIsOwned` and `EveryoneHears`, whatever is called | two types, two handlers, two nested dispatches |
| `requests` | Passes. `ConnectsOnce` (no second connect once one returned), `NewestWins` (requests of one id act in order) | five kinds of URL, two requests, two ids, two calls of `connect` for each |
| `connects_as_asked` | Violated: `ConnectsAsAsked` | the same |
| `ui_messages` | Passes. `HandlesAreLive`; runnables, not messages, run once and in order and free their containers (`RunsInOrder`), and all of them run (`PostedIsRun`) | two posters of two messages |
| `socket_handlers` | Passes. Each stream has one owner until it is deleted, once (`OneOwner`); what the kernel gets is in order and given once (`SentInOrder`); a setter's value is in force and read back, from any options (`OptionsInForce`); a handler that failed lets go of its streams (`FailedLetsGo`) | a TCP and a UDP handler, three streams of two buffers; durations around 0, one second and the largest integer |
| `network_status` | Passes. No waitable is used after its deletion, and each waits in one place (`WaitersSafe`); it hears of what happened (`ToldTheTruth`); status, waitables and connection go together (`ClosedTogether`) | two ids, four waitables, five event classes of 16 bits |
| `services` | Passes. Each native object has one owner, but for a service whose constructor threw, which has two (`HandlesSafe`); the service of an accepted request stays (`RequestsKeepServices`); what Java gave up or did not get goes in the end, if it is not pinned (`ServicesReclaimed`) | the UI thread and another one, a context, two services, three requests, two global references |

**Why the bounds are enough.** *Reactor:* three descriptors let a pass have a handler
before, at and after the iterator, and 0 is the descriptor that `nfd` cannot see;
three addresses let a freed address be handed out again while two others are in
use; a descriptor that was removed in a pass is registered again, before and after a
replay. *NetworkContext:* two ids, so that one connection fails while another is
open; three descriptors, so that an id is reused twice, and the descriptors run
out (none is ever given back, which also makes the state space finite).
*ClientRunnable:* the deque gets longer than the array, the array is used a second
time and a batch is interrupted by posts at every place. *Startup:* two threads
contend for the mutex with each other and with the main thread.
*EventDispatcher:* one handler can meet another, itself, and a change of the set it
was copied from, from an activation below it. *Requests:* a second request with the
same or another id, and a second attempt after a failed one. *UIMessages:* each
poster is in each step while a message of the other, and an older one of its own,
is in the queue. *SocketHandlers:* two streams can wait while one is being sent and
the handler fails, is closed, or is left alone; what is set on a descriptor depends on
nothing else, so that one setter call, followed by any other in the property, is
enough. *NetworkStatus:* a second event for an id, an id that is used again, another
connection beside it, and more waiters than one status has places for.
*Services:* two services at once, one wrapped and one that fails; a table of
references that is full before the requests run out. Symmetry (of event
types and of handlers) is used for the dispatcher only, which has no liveness
property.

**Deadlock** is checked for the reactor and for the status of connections. It is off
for the other modules, which may really stop: the process can end (`alive`), posters
have a bound, and a start-up ends.

### Fairness, and why the code justifies it

* *Reactor and NetworkContext:* weak fairness of the steps of a pass that has begun.
  `Handle` is `NOEXCEPT` and the loop of `Run` has no other exit. Nothing is assumed of
  the client: it need not call `Run`, and no descriptor need become ready. That
  the parked removals take effect (`Settles`, `HandlersReclaimed`) rests on the end
  of the pass alone.
* *ClientRunnable:* weak fairness of the network thread's loop. `select` has a 50 ms
  timeout and the mutex is held for bounded sections. Posters have no fairness.
* *Startup:* weak fairness of the main thread, strong fairness of each network
  thread. A condition variable may wake spuriously any number of times, each time
  taking the mutex; strong fairness says that a thread that finds the mutex free
  again and again gets it, as any scheduler that is not adversarial provides. The
  attachment to the JVM may fail (`AttachFails`), and `MainUnblocks` says so.
* *UIMessages:* weak fairness of the UI thread, whose looper runs its queue.
  Posters and the collector have none.
* *SocketHandlers:* weak fairness of the steps of a pass that has begun, as for the
  reactor, and without those that fail: `Read` of a stream ends, and `send` returns.
* *Services:* weak fairness of the steps by which a native function returns, and of
  the finalizers of objects that are not reachable: the finalizer thread is a daemon
  of the runtime. That Java code lets go of an object is nobody's duty. (Java does not
  promise finalizers at all if the process ends; the property allows for that.)
* The other modules assume none.

## 4. What the runs found

Two runs expect a violation and show where the code does other than its documents say:

1. **Requests are deleted unhandled** (`Core/ClientRunnable.cpp:111`, run
   `requests_served`): `processed` is set to false before it is tested.
2. **What connects is not what was asked for** (run `connects_as_asked`). Protocol and
   family change places (`JNIImpl/JNI_NetworkServiceImpl.cpp:42`): a `tcp` URL gets an
   IPv6 socket, a `udp` URL a TCP connection. And ports are given in host byte order
   (`Network/SocketAddress.cpp:64`).

The following are constants or properties of the modules, without a run of their own;
TLC shows each with the change that is named:

3. **A handler registered from inside a handler is deleted twice**
   (`Network/SocketReactor.cpp:128`): `MemorySafe` and `NoLeak` fail in
   `MCReactor.cfg` with `DeferredAdds = TRUE`. `Run` and `RegisterHandler` replay `_aboutAddHandlers` without
   ever clearing it; once the handler was replaced or removed, the replay puts the
   dangling pointer back. The program does not register from handlers today; the class
   offers it.
4. **`_isRunning` is not initialised** (`Network/SocketReactor.h:37`): `Settles` and
   `NoLeak` fail in `MCReactor.cfg` with `GarbageRunning = {TRUE}`. Each registration is parked, the
   map stays empty, and `Run` returns before it would execute the parked list.
5. **Start-up always fails** (`App/AndroidApplication.cpp:230`): `FailureMeansFailure` in
   `Startup` does not hold. The local `networkClientContext` is tested and never
   assigned; the network thread has been started and detached by then, and no native
   function between Java and `Application::Run` catches the exception.
6. **A service that is asked for off the UI thread is freed twice**
   (`JNIImpl/JNI_JContext.cpp:25`, whose comment says that the Java object never keeps
   the pointer): the constructor has stored it before it throws, and finalizers run
   for half-made objects. `HandlesSafe` counts two owners for such a service; the invariant
   `misused = {}` fails in `MCServices.cfg`.
7. **The UI thread may handle a message twice and another one never**
   (`App/AndroidApplication.cpp:71`): the container refers to the pointer variable of a call
   that has returned, and two posts through one variable leave the second message in both.
   `HandledOnce` in `UIMessages`, which states what one would expect, does not hold; what
   `RunsInOrder` and `PostedIsRun` say of runnables does not carry over to messages.
8. **A registration may be undone by an old removal** (`Network/SocketReactor.cpp:131`):
   `IdleInSync` fails in `MCReactor.cfg` without `Lost(s)`, when a descriptor is removed inside
   a pass and registered again. The program does not reuse descriptors today.
9. **A service that has made a request is never freed**
   (`JNIImpl/NetworkServiceListenerAdapter.cpp:14, 74`): `NewGlobalRef` goes to a local
   variable, nothing deletes the reference, and the listener is an inner object of the
   service (`NetworkServiceImpl.java:40, 115`). `ServicesReclaimed` fails in `MCServices.cfg`
   without `Pinned(s)`.

The models contain these too, as the code has them:

* Descriptors are never closed (`Core/NetworkContext.cpp:104`), against the promise in
  `NetworkService.java:39`. `NetworkContext` hands out each descriptor once.
* `Unregister(handler)` erases from copies of the sets and so does nothing
  (`Dispatch/EventDispatch.cpp:75`): `UnregisterHandler`.
* A failing connect may end the process (`Core/TCPSocketEventHandler_p.cpp:61`): host
  names and mixed families give EINVAL, and that, ETIMEDOUT and EACCES are not
  `IOException`s: `ConnectDies`.
* Two URLs may share an id (`NetworkServiceImpl.java:100`), and the second takes over
  the connection of the first: `hash` need not be injective.
* Neither a message to the UI thread nor a container that was not handled is ever freed
  (`JMessage.java:27`): `OnMessageHandle`, `NotWrapped`, `Finalize`.
* A stream that is pushed between two passes is never sent: a handler asks for
  writability only while its queue is empty (`Core/NetworkMessagesHandler.cpp:62`), and
  then the stream that another callback gives it after `select` is sent, by UDP. By
  TCP none ever is (`Core/TCPSocketEventHandler_p.cpp:67`): `AcceptsWrite`,
  `TakeFromEmpty`.
* A send that fails with an errno that `OnError` does not list is lost in silence
  (`Network/Socket.cpp:515`): `SendBlock`. `OptionsInForce` leaves out negative
  durations, lingering for longer than an integer holds, and `SetNonBlocking`, which
  changes another descriptor if any (`:309`).
* The service is never handed over in this commit, since the method is looked up with
  another return type than it has (`JNI_JContext.cpp:19`): `LookupFails` is then the
  only way on. And requests are accepted until the table of references is full: `Refuse`.
* A failed connect, and the readers and senders of a connection that was lost, go on
  waiting after they were told (`Core/NetworkEventsHandler_p.cpp:59-72`), and are told
  again by the next event: `Disconnected`.

Because of 1 and 5 much of the program is not reached in a build of this commit.
`NetworkContext` and `Requests` model what the network thread's code does once it is:
its methods are called with the requests that the code is written for.

## 5. What is proved

TLAPS checks each of these for all values of the constants that satisfy the
modules' assumptions. What they assume: sockets are natural numbers; the null values
are no handler, thread or message; the threads of the start-up are finitely many and no
more than the counter counts; there is a connection id (`IdsAssumption`: a hash code is
always one); the UI thread is a thread; hosts are of one form and ports are ports;
bounds are natural numbers; there are more than five event numbers
(`EventTypesAssumption`; the code has 65536 for its five classes); a jiffy lasts 1, 4 or
10 ms (`JiffyAssumption`, the kernels' values of HZ), and an `int` holds more than 1000.
Every property that a run checks and that is an invariant or an action property is stated
by one of the theorems.

**`ReactorProofs`**, under `Sober` (no handler registers a handler and `_isRunning`
starts false): `TypeCorrect`, `MemorySafety`, `NothingLeaks`, `HandlersOutliveCalls`,
`StaysInSync`, and `RefinesRegistry`, the safety part of the refinement. Both halves of the
assumption are needed, as points 3 and 4 above show. Nothing is assumed of the
descriptors: what was removed may be registered again.

*The argument.* `MemorySafe` is not inductive. The invariant `Ind` adds that the map
owns the heap (`Owned`: the allocated objects are those in the map, each under one
key), that nothing is parked for addition, and that `running` is set exactly during
a pass. Then a `delete` always meets a live object; a removal in a pass changes only
`aboutRemove`, so the entry of the handler that is running stays. For the
synchronisation, `InSync` says that the map and what was asked for differ at descriptors
only whose removal is parked: a removal that waits for the end of the pass, or a
registration that a replay took away. The refinement maps the registry's map to what the
reactor still stands for (`Promised`: what was asked for, without what is lost) and its
unsteady sockets to the parked removals; a step that replays them is a step of the
registry in which some unsteady sockets lose what they had. It uses both invariants.

**`StartupProofs`**: `TypeCorrect` (the unsigned counter does not wrap),
`NeverUsedAfterDestroy`, `WaitMeansInitialised`, `WakeupsArrive`.

*The argument.* The mutex belongs to exactly the thread that is inside `Wait` or
`Notify`, and `_waitCount` is the number of threads that have not decremented it.
When the main thread reads 0 it holds the mutex, so no thread is inside `Notify`
and all are past it (`AllRun`): what it destroys afterwards nobody uses. It is
essential that `Notify` signals before it unlocks.

**`UIMessagesProofs`**: `TypeCorrect`, `HandlesLive`, `RunnablesInOrder`. All of them are
about containers and runnables; of the messages that are found nothing is proved, since
nothing holds (point 7).

*The argument.* The containers whose runnables have run, the one whose runnable runs, and
those in the queue form one line in which those of each poster are in the order of its
posts, and what is still being posted is younger than all of them (`Lined`). So what
`Run` takes is in no other place, what has run and was freed is not allocated again
under its name, and a JMessage in the queue or in a poster's hands is reachable and
keeps its handle (`Held`).

**`EventDispatcherProofs`**: `TypeCorrect`, `RunningHasOwner`, `AllHear`.

*The argument.* Each activation of `Dispatch` owns, through its copy, what it still
has to call and what it is calling, and everybody who was due has been called or is
still to be called (`Sound`); every form of `Unregister` takes away from the tables at
most what it takes away from the history (`Registered`), and a step outside
`Dispatch` changes no activation.

**`NetworkStatus`, in the same module**: `WaitersAreSafe`, `WaitersHearTheTruth`,
`StatusClosedTogether`.

*The argument.* `WaitersSafe` says of whole sets that nothing is in two places; spelled out
for each waitable (`WaitersApart`: one role in one status, none of them deleted, and what
has been told its last word is deleted) it is inductive: a status that goes takes with
it waitables that no other status refers to. That an event reaches the handler of its own
class and no other is `Numbered`: the initialisers that have not run form a list without
repetition, the numbers given out differ, and none is larger than the count of those
that have drawn, so that 16 bits do not wrap. The maximum that a new number is
computed from is a CHOOSE, and a lemma on finite sets says first that it is one
(`Largest`).

**`NetworkContextProofs`**: `HandlersMemorySafe`, `TheMapsAgree`, `KnownStayOpen`,
`LosesOnlyItsOwn`.

*The argument.* What the class `SocketReactor` does with its record is taken over from
`ReactorProofs` by INSTANCE: the lemmas on `OnRemoveAll` and `OnRegisterAll` are about
records, not about the client. The invariant of this client is another: the two maps agree
only *between* calls. Inside a pass a registered handler of no known connection is an
orphan that has been called in this pass and whose removal is parked (`Orphans`). The
parked removals are executed again by each later `RemoveHandler`, since the list is never
cleared; that this is harmless rests on `NotReused`: a descriptor, once registered, is never
handed out again. The descriptors of known connections are never shut down
because `Remove` and the handler's own close take the id from the map in the same step.

**`ClientRunnableProofs`**: `TypeCorrect`, `DeletedOnce`, `NoMessageLost`, `RefinesMailbox`.

*The argument.* `All`, what was deleted followed by what is pending (the rest of the
array, then the deque), changes at its end only, and only by `Post`; `TakeSome` and
`HandleOne` move the border inside it. It has no repetition because what a poster is
about to post has not been posted (`FoundOK`). The array's stale entries do no harm since
the loop reads `first` to `last - 1` only, and these are messages (`BatchOK`). The mailbox's
queue is then the pending part, and each step appends to it, takes from it, or stutters.

**`SocketHandlersProofs`**: `StreamsHaveOneOwner`, `StreamsSentInOrder`,
`SettersKeepTheirWord`.

*The argument.* Streams are numbered as they are pushed. The numbers pushed so far
are partitioned into those freed and those each handler holds (`Ownership`); each queue
increases, the stream in hand is older than the queue, and what was sent is older than
both or an earlier part of the stream in hand (`Order`). For the options, a duration
is taken apart into seconds and the rest (`NatSplits`, C++'s `/` and `%`), a timeout is
kept in ticks, rounded up, and read back at most one tick less a millisecond later
(`TimeoutIsKept`, with one case for each length of a tick, since the product of two
unknowns is beyond the SMT solver).

**`ServicesProofs`**: `HandlesAreSafe`, `RequestsPinServices`; about `Requests`,
`EachConnectsOnce` and `NewestRequestWins`.

*The argument.* A native object is there exactly if a Java object has its handle
or a `unique_ptr` of a call holds it, never both, and no two calls hold one (`Owned`). The
services that a constructor half made are apart: theirs are there as long as both owners
are, and they are misused as soon as neither is (`Halves`, `HalfSound`); nobody but the
failing call and the finalizer ever reaches them. What a request is made on is pinned from
the moment its adapter is made, by a reference that nothing deletes, and what is pinned is
neither half made nor finalized (`Pins`); so a request that is posted after Java let go of
its service still finds it. No assumption is made on which thread asks for services. For the requests, each is in one place: in the queue and
not tried yet, or with one connection; the queue is in the order of the requests and
newer than every connection (`InOrder`); and a connection that is not connected has not
had a call of `connect` that returned (`NotYet`). Since `Process` takes the head of the queue,
the connection it replaces is older.

**Only model-checked.** What must happen under fairness, because TLAPS here has
no support for fairness and ENABLED: `Settles`, `HandlersReclaimed`, `PostedIsConsumed`,
`MainUnblocks`, `PostedIsRun`, `FailedLetsGo`, `ServicesReclaimed`, and the fairness of
the two abstract specifications in `ImplementsRegistry` and `ImplementsMailbox`, whose safety
parts are `RefinesRegistry` and `RefinesMailbox`. And the two violations, which are
counterexamples.

## 6. What is abstracted or left out

* A handler's address is a member of a small set, the heap is `live`. Allocation
  failure of containers is left out.
* `_aboutRemoveHandlers` is a vector that only grows; the model keeps the set of its
  elements, because a second removal of one descriptor in one replay finds nothing.
* In the reactor `select` reports any subset; `Handle` is called for every handler
  in any case, as in the code.
* `NetworkManager`'s chain of middlewares is filled by `Register` and read by nothing.
  Its destructor frees neither the statuses nor the core manager; no code makes one.
* Payloads, logging and what listeners would be told are left out. So are the
  timeouts of waitables (`CheckTimeout`), and event messages, which nothing calls or
  posts, and receiving: `OnRead` is unreachable, for TCP and for UDP.
* The streams that are keys of a `NetworkStatus` are left out of it: they belong to the
  queues of `SocketHandlers` or to the status, and no code says to which.
* `NativeAppContext` passes the address of the `Application` to a class that uses it as
  that of a `SharedContext`. That is undefined at the first use and not modelled;
  `Services` begins with a `JContext` that holds what its class expects.
* `Application::OnQuit` is empty and `OnMainThreadQuit` has no caller in this commit;
  `ClientRunnable` and `Services` model the latter's effect on posters.
* `ClientRunnable::Run` keeps its queue identifier in a static variable; a second network
  thread would share the first one's. The code starts one.
* UDP connections are rejected by the code itself.

## 7. Plan

The runs are kept few: a later module comes with one passing run that asks all its
questions, or extends the configuration of a module it composes with.

Done: `SocketReactor`, `ReactorClient`, `HandlerRegistry`, `ReactorProofs`,
`NetworkContext`, `ClientRunnable`, `Mailbox`, `Startup`, `StartupProofs`,
`EventDispatcher`, `EventDispatcherProofs`, `Requests`, `UIMessages`,
`UIMessagesProofs`, `SocketOptions`, `SocketHandlers`, `NetworkStatus`, `Services`,
`ClientRunnableProofs`, `NetworkContextProofs`, `SocketHandlersProofs`, `ServicesProofs`.

What the code reaches is modelled; the parts that are left are listed above with the
reason. The safety properties of the runs are proved. What could still be proved:

1. The safety steps under the liveness properties: that a pass shrinks `todo` with each
   call (`Settles`, `HandlersReclaimed`), that a message's distance from the head of the
   queue only falls (`PostedIsConsumed`, `PostedIsRun`), that a handler that failed is not
   called in another pass (`FailedLetsGo`).
2. The functions of `Requests` (`Swapped`, `Narrow`) as lemmas for every port: what is
   on the wire is what was asked for exactly if both bytes of the port are equal.
