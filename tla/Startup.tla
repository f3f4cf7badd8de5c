------------------------------ MODULE Startup ------------------------------
(***************************************************************************)
(* Application::Run on the main thread, up to the point where the network  *)
(* thread has initialised: AndroidApplication.cpp creates an               *)
(* InitSynchronizer and a NetworkThreadInitNotifier on the heap, starts    *)
(* and detaches a thread that borrows both, and waits.  When Run leaves    *)
(* InitThreadQueues, both objects are destroyed, whatever the thread does. *)
(*                                                                         *)
(* The code starts one thread; InitSynchronizer counts any number, and so  *)
(* does the model.  A step of a thread is at most one operation on the     *)
(* mutex, the condition or an object of another thread.                    *)
(***************************************************************************)
EXTENDS Naturals, FiniteSets

CONSTANTS Threads,   \* the threads that report to the synchronizer
          Main,      \* the main thread
          MaxCount,  \* the greatest value of _waitCount, 2^32 - 1
          None

ASSUME ThreadsAssumption == /\ IsFiniteSet(Threads)
                            /\ Threads # {}
                            /\ Main \notin Threads
                            /\ MaxCount \in Nat /\ Cardinality(Threads) <= MaxCount
                            /\ None \notin Threads \cup {Main}

VARIABLES main,       \* the main thread's place in InitThreadQueues
          net,        \* each thread's place
          sync,       \* do the synchronizer and the notifiers exist?
          lock,       \* the owner of the synchronizer's mutex
          waitCount,  \* _waitCount
          signalled,  \* has notify_one woken the waiting main thread?
          published,  \* threads whose _clientContext and _id are in their notifier
          queues,     \* threads whose queue is in MessageQueueManager
          touched     \* history: an object was used after its destruction

vars == <<main, net, sync, lock, waitCount, signalled, published, queues, touched>>

MainSteps == {"init", "start", "enter", "check", "blocked", "leave", "result", "unwind",
              "failed", "running"}
NetSteps == {"unborn", "attach", "gaveUp", "register", "publish", "lock", "decrement",
             "notify", "unlock", "run"}

Init == /\ main = "init"
        /\ net = [t \in Threads |-> "unborn"]
        /\ sync = FALSE
        /\ lock = None
        /\ waitCount = 0
        /\ signalled = FALSE
        /\ published = {}
        /\ queues = {}
        /\ touched = FALSE

-----------------------------------------------------------------------------
(* The main thread.                                                        *)

(* Mutant: the synchronizer is made for one thread less.                   *)
InitMainThreadQueueOneLess ==
  /\ main = "init"
  /\ main' = "start"
  /\ queues' = queues \cup {Main}
  /\ sync' = TRUE
  /\ waitCount' = Cardinality(Threads) - 1
  /\ UNCHANGED <<net, lock, signalled, published, touched>>

(* InitMainThreadQueue registers the queue of the UI messages, then the    *)
(* synchronizer is made with the number of threads.                        *)
InitMainThreadQueue ==
  /\ main = "init"
  /\ main' = "start"
  /\ queues' = queues \cup {Main}
  /\ sync' = TRUE
  /\ waitCount' = Cardinality(Threads)
  /\ UNCHANGED <<net, lock, signalled, published, touched>>

StartThreads ==
  /\ main = "start"
  /\ main' = "enter"
  /\ net' = [t \in Threads |-> "attach"]
  /\ UNCHANGED <<sync, lock, waitCount, signalled, published, queues, touched>>

(* Wait takes the mutex.                                                   *)
WaitLocks ==
  /\ main = "enter"
  /\ lock = None
  /\ lock' = Main
  /\ main' = "check"
  /\ UNCHANGED <<net, sync, waitCount, signalled, published, queues, touched>>

(* The predicate of the wait; releasing the mutex and blocking is one step.*)
WaitChecks ==
  /\ main = "check"
  /\ IF waitCount = 0
       THEN main' = "leave" /\ UNCHANGED <<lock, signalled>>
       ELSE main' = "blocked" /\ lock' = None /\ signalled' = FALSE
  /\ UNCHANGED <<net, sync, waitCount, published, queues, touched>>

(* The condition was signalled, or the wakeup is spurious; the mutex is    *)
(* taken again before the predicate is checked.                            *)
WaitWakes(spurious) ==
  /\ main = "blocked"
  /\ signalled \/ spurious
  /\ lock = None
  /\ lock' = Main
  /\ main' = "check"
  /\ UNCHANGED <<net, sync, waitCount, signalled, published, queues, touched>>

WaitUnlocks ==
  /\ main = "leave"
  /\ lock' = None
  /\ main' = "result"
  /\ UNCHANGED <<net, sync, waitCount, signalled, published, queues, touched>>

(* The local networkClientContext is what the code tests.  It was default- *)
(* constructed and never assigned: the context is in the notifier.         *)
NetworkClientContext == None

TestResult ==
  /\ main = "result"
  /\ main' = IF NetworkClientContext = None THEN "unwind" ELSE "running"
  /\ sync' = FALSE
  /\ UNCHANGED <<net, lock, waitCount, signalled, published, queues, touched>>

(* "Init network thread failed" leaves Run.                                *)
Fail ==
  /\ main = "unwind"
  /\ main' = "failed"
  /\ UNCHANGED <<net, sync, lock, waitCount, signalled, published, queues, touched>>

-----------------------------------------------------------------------------
(* A network thread.                                                       *)

(* AttachCurrentThread leaves jEnv null: the thread just quits.            *)
AttachFails(t) ==
  /\ net[t] = "attach"
  /\ net' = [net EXCEPT ![t] = "gaveUp"]
  /\ UNCHANGED <<main, sync, lock, waitCount, signalled, published, queues, touched>>

Attach(t) ==
  /\ net[t] = "attach"
  /\ net' = [net EXCEPT ![t] = "register"]
  /\ UNCHANGED <<main, sync, lock, waitCount, signalled, published, queues, touched>>

(* Mutant: the thread reports before OnInitialized.                        *)
RegisterQueueReportsEarly(t) ==
  /\ net[t] = "register"
  /\ queues' = queues \cup {t}
  /\ net' = [net EXCEPT ![t] = "lock"]
  /\ UNCHANGED <<main, sync, lock, waitCount, signalled, published, touched>>

(* ClientRunnable::Run makes the queue and the context and registers the   *)
(* queue.  It does so under a static identifier, which is that of the      *)
(* first thread that comes here: with one thread, its own.  `queues' says  *)
(* of any number of threads which ones have registered.                    *)
RegisterQueue(t) ==
  /\ net[t] = "register"
  /\ queues' = queues \cup {t}
  /\ net' = [net EXCEPT ![t] = "publish"]
  /\ UNCHANGED <<main, sync, lock, waitCount, signalled, published, touched>>

(* OnInitialized stores context and queue id in the notifier.              *)
Publish(t) ==
  /\ net[t] = "publish"
  /\ published' = published \cup {t}
  /\ touched' = (touched \/ ~sync)
  /\ net' = [net EXCEPT ![t] = "lock"]
  /\ UNCHANGED <<main, sync, lock, waitCount, signalled, queues>>

(* InitSynchronizer::Notify: lock, decrement, notify_one, unlock.          *)
NotifyLocks(t) ==
  /\ net[t] = "lock"
  /\ lock = None
  /\ lock' = t
  /\ touched' = (touched \/ ~sync)
  /\ net' = [net EXCEPT ![t] = "decrement"]
  /\ UNCHANGED <<main, sync, waitCount, signalled, published, queues>>

(* Mutant: the mutex is released before the condition is signalled.        *)
NotifyDecrementsUnlocks(t) ==
  /\ net[t] = "decrement"
  /\ waitCount' = IF waitCount = 0 THEN MaxCount ELSE waitCount - 1
  /\ lock' = None
  /\ touched' = (touched \/ ~sync)
  /\ net' = [net EXCEPT ![t] = "notify"]
  /\ UNCHANGED <<main, sync, signalled, published, queues>>

(* The counter is unsigned and wraps below 0.                              *)
NotifyDecrements(t) ==
  /\ net[t] = "decrement"
  /\ waitCount' = IF waitCount = 0 THEN MaxCount ELSE waitCount - 1
  /\ touched' = (touched \/ ~sync)
  /\ net' = [net EXCEPT ![t] = "notify"]
  /\ UNCHANGED <<main, sync, lock, signalled, published, queues>>

(* Mutant: nobody is notified.                                             *)
NotifySignalsNobody(t) ==
  /\ net[t] = "notify"
  /\ touched' = (touched \/ ~sync)
  /\ net' = [net EXCEPT ![t] = "unlock"]
  /\ UNCHANGED <<main, sync, lock, waitCount, signalled, published, queues>>

(* notify_one wakes the main thread if it waits, and is lost otherwise.    *)
NotifySignals(t) ==
  /\ net[t] = "notify"
  /\ signalled' = (signalled \/ main = "blocked")
  /\ touched' = (touched \/ ~sync)
  /\ net' = [net EXCEPT ![t] = "unlock"]
  /\ UNCHANGED <<main, sync, lock, waitCount, published, queues>>

(* Mutant: the mutex is not released.                                      *)
NotifyUnlocksNever(t) ==
  /\ net[t] = "unlock"
  /\ touched' = (touched \/ ~sync)
  /\ net' = [net EXCEPT ![t] = "run"]
  /\ UNCHANGED <<main, sync, lock, waitCount, signalled, published, queues>>

NotifyUnlocks(t) ==
  /\ net[t] = "unlock"
  /\ lock' = None
  /\ touched' = (touched \/ ~sync)
  /\ net' = [net EXCEPT ![t] = "run"]
  /\ UNCHANGED <<main, sync, waitCount, signalled, published, queues>>

-----------------------------------------------------------------------------
MainStep == \/ InitMainThreadQueue \/ StartThreads \/ WaitLocks \/ WaitChecks
            \/ WaitWakes(FALSE) \/ WaitUnlocks \/ TestResult \/ Fail

NetStep(t) == \/ AttachFails(t) \/ Attach(t) \/ RegisterQueue(t) \/ Publish(t)
              \/ NotifyLocks(t) \/ NotifyDecrements(t) \/ NotifySignals(t)
              \/ NotifyUnlocks(t)

Next == MainStep \/ WaitWakes(TRUE) \/ \E t \in Threads : NetStep(t)

(* All threads are scheduled.  Spurious wakeups are not relied on, but     *)
(* there may be any number of them, and each takes the mutex for a while:  *)
(* a thread that finds the mutex free again and again gets it in the end.  *)
Fairness == /\ WF_vars(MainStep)
            /\ \A t \in Threads : SF_vars(NetStep(t))

Spec == Init /\ [][Next]_vars /\ Fairness

-----------------------------------------------------------------------------
(* Types, and the count of the threads that have not reported.             *)
TypeOK == /\ main \in MainSteps
          /\ net \in [Threads -> NetSteps]
          /\ sync \in BOOLEAN
          /\ lock \in Threads \cup {Main, None}
          /\ waitCount \in 0..Cardinality(Threads)
          /\ signalled \in BOOLEAN
          /\ published \subseteq Threads
          /\ queues \subseteq Threads \cup {Main}
          /\ touched \in BOOLEAN

(* The threads never use the synchronizer or the notifiers after the main  *)
(* thread destroyed them: Notify signals before it unlocks, and the main   *)
(* thread cannot leave Wait while the mutex is held.                       *)
NoUseAfterDestroy == ~touched

(* When Wait has returned, every thread's context and queue id are in its  *)
(* notifier and its queue is registered: what the main thread reads next   *)
(* has been written.                                                       *)
InitialisedBeforeReturn ==
  main \in {"leave", "result", "unwind", "failed", "running"}
    => published = Threads /\ Threads \subseteq queues

(* The main thread gets past Wait, unless a thread quits without           *)
(* reporting (the TODO at AndroidApplication.cpp:202).                     *)
MainUnblocks ==
  (main = "enter") ~> (main = "failed" \/ main = "running"
                         \/ \E t \in Threads : net[t] = "gaveUp")

(* A wakeup is never lost: a main thread that is blocked although all      *)
(* threads have reported has been signalled.                               *)
NoLostWakeup ==
  main = "blocked" /\ waitCount = 0 /\ lock = None => signalled

(* "Init network thread failed" (AndroidApplication.cpp:229-232) is thrown *)
(* only if some thread did fail to initialise.                             *)
FailureMeansFailure ==
  main = "failed" => \E t \in Threads : t \notin published
=============================================================================
