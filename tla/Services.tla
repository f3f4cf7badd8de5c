------------------------------- MODULE Services -------------------------------
(***************************************************************************)
(* How Java comes by a network service, uses it and loses it: JContext     *)
(* holds a pointer to a shared context, JContext.provides makes a native   *)
(* service and a NetworkServiceImpl that holds a pointer to it, requests   *)
(* take a global reference to their listener across the border, and        *)
(* finalizers free what the pointers point to.  The threads that call, the *)
(* finalizer thread, the network thread and a quit interleave.             *)
(*                                                                         *)
(* Nothing in this commit makes a JContext of a network context; that, the *)
(* collector and the table of global references are external.              *)
(***************************************************************************)
EXTENDS Naturals, FiniteSets

CONSTANTS Threads,    \* threads that run Java code
          UI,         \* the one with the main looper
          JContexts,  \* bound: JContext objects
          Services,   \* bound: native services that are ever made
          Requests,   \* bound: requests that are ever made
          None,
          MaxRefs     \* the size of the table of global references

ASSUME ThreadsAssumption == UI \in Threads
ASSUME NoneAssumption == None \notin JContexts \cup Services \cup Requests
ASSUME MaxRefsAssumption == MaxRefs \in Nat

VARIABLES java,     \* each JContext and NetworkServiceImpl: `held' by Java code, or
                    \* `dropped', and in the end finalized
          native,   \* what its _handle points to
          call,     \* the native function that each thread is in
          request,  \* where each request is
          refs,     \* the global references, to the listener of a request on a service
          looping,  \* the message queue of the network thread is registered
          halfMade, \* history: services whose constructor stored the handle and threw
          misused,  \* native objects used or deleted after their deletion
          alive     \* the process has not been terminated

vars == <<java, native, call, request, refs, looping, halfMade, misused, alive>>

Objects == JContexts \cup Services

\* In no native function.  `uses' are the Java objects on the thread's stack.
Idle == [at |-> "idle", uses |-> {}, service |-> None, request |-> None]

Init == /\ java = [o \in Objects |-> IF o \in JContexts THEN "held" ELSE "unborn"]
        /\ native = [o \in Objects |-> IF o \in JContexts THEN "there" ELSE "unborn"]
        /\ call = [t \in Threads |-> Idle]
        /\ request = [r \in Requests |-> "unborn"]
        /\ refs = {}
        /\ looping = TRUE
        /\ halfMade = {}
        /\ misused = {}
        /\ alive = TRUE

UseNative(o) == misused' = misused \cup {x \in {o} : native[x] = "deleted"}
Delete(o) == /\ native' = [native EXCEPT ![o] = "deleted"]
             /\ UseNative(o)

Enter(t, c) == /\ alive /\ call[t] = Idle
               /\ call' = [call EXCEPT ![t] = c]
GoOn(t, from, to) == /\ alive /\ call[t].at = from
                     /\ call' = [call EXCEPT ![t].at = to]
Return(t, from) == /\ alive /\ call[t].at = from
                   /\ call' = [call EXCEPT ![t] = Idle]

-----------------------------------------------------------------------------
\* _instantiateService and ProvideNetworkService.

\* The new service belongs to a unique_ptr, and holds its context.
Provide(t, j) ==
  /\ java[j] = "held"
  /\ \E s \in Services :
       /\ native[s] = "unborn"
       /\ native' = [native EXCEPT ![s] = "there"]
       /\ Enter(t, [at |-> "provided", uses |-> {j}, service |-> s, request |-> None])
  /\ UseNative(j)
  /\ UNCHANGED <<java, request, refs, looping, halfMade, alive>>

\* The lookup of acquireInstance throws.  (It always does in this commit: the
\* descriptor it is given names another return type than the method's.)
LookupFails(t) == /\ GoOn(t, "provided", "failed")
                  /\ UNCHANGED <<java, native, request, refs, looping, halfMade, misused, alive>>

(* Mutant: the unique_ptr is not told.                                     *)
AcquireKeeps(t) ==
  /\ t = UI
  /\ GoOn(t, "provided", "failed")
  /\ java' = [java EXCEPT ![call[t].service] = "held"]
  /\ UNCHANGED <<native, request, refs, looping, halfMade, misused, alive>>

\* The constructor stores the handle; the unique_ptr is released.
Acquire(t) ==
  /\ t = UI
  /\ Return(t, "provided")
  /\ java' = [java EXCEPT ![call[t].service] = "held"]
  /\ UNCHANGED <<native, request, refs, looping, halfMade, misused, alive>>

\* On another thread the constructor throws, and it has stored the handle: the
\* object that nobody gets has it, and so has the unique_ptr.
AcquireThrows(t) ==
  /\ t # UI
  /\ GoOn(t, "provided", "failed")
  /\ java' = [java EXCEPT ![call[t].service] = "dropped"]
  /\ halfMade' = halfMade \cup {call[t].service}
  /\ UNCHANGED <<native, request, refs, looping, misused, alive>>

(* Mutant: the failing call gives its pointer up.                          *)
UnwindReleases(t) ==
  /\ Return(t, "failed")
  /\ UNCHANGED <<java, native, request, refs, looping, halfMade, misused, alive>>

\* The exception passes the unique_ptr; provides ends in an exception.
Unwind(t) ==
  /\ Return(t, "failed") /\ Delete(call[t].service)
  /\ UNCHANGED <<java, request, refs, looping, halfMade, alive>>

-----------------------------------------------------------------------------
\* _requestConnect and _requestDestroy.

\* The adapter takes a global reference to the listener, an inner object of the
\* service, and forgets it (a local hides the member): none is ever deleted.
MakeAdapter(t, s, r) ==
  /\ java[s] = "held" /\ request[r] = "unborn"
  /\ UseNative(s)
  /\ Cardinality(refs) < MaxRefs
  /\ Enter(t, [at |-> "adapted", uses |-> {s}, service |-> s, request |-> r])
  /\ request' = [request EXCEPT ![r] = "adapted"]
  /\ refs' = refs \cup {<<r, s>>}
  /\ UNCHANGED <<java, native, looping, halfMade, alive>>

\* JNI_RT_OBJECTREF_ERROR, which the caller ignores.
Refuse(t, s, r) ==
  /\ alive /\ call[t] = Idle
  /\ java[s] = "held" /\ request[r] = "unborn"
  /\ Cardinality(refs) >= MaxRefs
  /\ request' = [request EXCEPT ![r] = "refused"]
  /\ UNCHANGED <<java, native, call, refs, looping, halfMade, misused, alive>>

\* Context::Post; its exception is none that the native functions catch.
PostRequest(t) ==
  /\ call[t].at = "adapted" /\ UseNative(call[t].service)
  /\ IF looping
     THEN /\ Return(t, "adapted")
          /\ request' = [request EXCEPT ![call[t].request] = "queued"]
          /\ UNCHANGED alive
     ELSE /\ GoOn(t, "adapted", "adapted")
          /\ alive' = FALSE
          /\ UNCHANGED request
  /\ UNCHANGED <<java, native, refs, looping, halfMade>>

\* The network thread deletes the message, and not the adapter in it.
HandleRequest(r) == /\ alive /\ request[r] = "queued"
                    /\ request' = [request EXCEPT ![r] = "deleted"]
                    /\ UNCHANGED <<java, native, call, refs, looping, halfMade, misused, alive>>

\* OnMainThreadQuit.
Quit == /\ alive /\ looping /\ call[UI] = Idle
        /\ looping' = FALSE
        /\ UNCHANGED <<java, native, call, request, refs, halfMade, misused, alive>>

-----------------------------------------------------------------------------
\* A global reference to a listener that service o made.
Pinned(o) == \E r \in Requests : <<r, o>> \in refs

(* Mutant: the adapters take weak global references.                       *)
ReachableIfWeak(o) == \/ java[o] = "held"
                      \/ \E t \in Threads : o \in call[t].uses

\* What the collector keeps: what Java code holds, what is `this' of a native
\* function on some stack, and what a listener that native code holds is made on.
Reachable(o) == \/ java[o] = "held"
                \/ \E t \in Threads : o \in call[t].uses
                \/ Pinned(o)

\* Java code lets go of an object.
Drop(o) == /\ alive /\ java[o] = "held"
           /\ java' = [java EXCEPT ![o] = "dropped"]
           /\ UNCHANGED <<native, call, request, refs, looping, halfMade, misused, alive>>

\* JObject.finalize, once, on the finalizer thread.
Finalize(o) == /\ alive /\ java[o] = "dropped" /\ ~Reachable(o)
               /\ java' = [java EXCEPT ![o] = "finalized"]
               /\ Delete(o)
               /\ UNCHANGED <<call, request, refs, looping, halfMade, alive>>

Next == \/ \E t \in Threads :
             \/ \E j \in JContexts : Provide(t, j)
             \/ LookupFails(t) \/ Acquire(t) \/ AcquireThrows(t) \/ Unwind(t)
             \/ \E s \in Services, r \in Requests : MakeAdapter(t, s, r) \/ Refuse(t, s, r)
             \/ PostRequest(t)
        \/ \E r \in Requests : HandleRequest(r)
        \/ Quit
        \/ \E o \in Objects : Drop(o) \/ Finalize(o)

\* A native function returns, and the finalizer thread is a daemon that runs.
Returns(t) == LookupFails(t) \/ Acquire(t) \/ AcquireThrows(t) \/ Unwind(t) \/ PostRequest(t)
Fairness == /\ \A t \in Threads : WF_vars(Returns(t))
            /\ \A o \in Objects : WF_vars(Finalize(o))

Spec == Init /\ [][Next]_vars /\ Fairness

-----------------------------------------------------------------------------
Calls == [at : {"idle", "provided", "failed", "adapted"}, uses : SUBSET Objects,
          service : Services \cup {None}, request : Requests \cup {None}]

TypeOK == /\ java \in [Objects -> {"unborn", "held", "dropped", "finalized"}]
          /\ native \in [Objects -> {"unborn", "there", "deleted"}]
          /\ call \in [Threads -> Calls]
          /\ request \in [Requests -> {"unborn", "adapted", "queued", "deleted", "refused"}]
          /\ refs \subseteq Requests \X Services
          /\ halfMade \subseteq Services /\ misused \subseteq Objects
          /\ looping \in BOOLEAN /\ alive \in BOOLEAN

\* The owners of native object o: the calls whose unique_ptr holds it, and the
\* Java object with its handle as long as its finalizer has not run.
Holding(o) == { t \in Threads : call[t].service = o /\ call[t].at \in {"provided", "failed"} }
HasHandle(o) == java[o] \in {"held", "dropped"}
Owners(o) == Cardinality(Holding(o)) + (IF HasHandle(o) THEN 1 ELSE 0)

(***************************************************************************)
(* Each native object that was made and not deleted has one owner, and it  *)
(* is deleted once and never used after that, whatever threads ask and     *)
(* whatever fails, but for the services whose constructor threw, which has *)
(* stored the handle: they have two owners, and each of the two deletes    *)
(* them.  The constructor throws if it runs on another thread than the one *)
(* the comment of NetworkServiceImpl asks for (NetworkServiceImpl.java:13, *)
(* 29).  What the process does after a second deletion is not modelled.    *)
(***************************************************************************)
HandlesSafe ==
  /\ TypeOK
  /\ misused \subseteq halfMade
  /\ \A o \in Objects : Owners(o) = (IF native[o] = "there" THEN 1 ELSE 0)
                                    + (IF o \in halfMade \ misused THEN 1 ELSE 0)

(***************************************************************************)
(* A request that was accepted pins the service it was made on: when Java  *)
(* code has let go of the service, its native object stays, as long as the *)
(* request is on its way and, since no reference is deleted, ever after    *)
(* (NetworkServiceImpl.java:40, 115; NetworkServiceListenerAdapter.cpp:14, *)
(* 74).                                                                    *)
(***************************************************************************)
RequestsKeepServices ==
  \A r \in Requests : request[r] \in {"adapted", "queued", "deleted"} =>
    \E s \in Services : <<r, s>> \in refs /\ native[s] = "there"

(***************************************************************************)
(* A service that Java gave up, or did not get, goes in the end, if it is  *)
(* not pinned by a listener that native code took a reference to.          *)
(***************************************************************************)
ServicesReclaimed ==
  \A s \in Services :
    (java[s] = "dropped" \/ \E t \in Holding(s) : call[t].at = "failed")
      ~> (native[s] = "deleted" \/ Pinned(s) \/ ~alive)
=============================================================================
