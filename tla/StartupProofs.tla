--------------------------- MODULE StartupProofs ---------------------------
(***************************************************************************)
(* Startup's safety properties, proved for any finite set of threads.      *)
(*                                                                         *)
(* The argument: the mutex belongs to whoever is inside Wait or Notify,    *)
(* and _waitCount is the number of threads that have not decremented it.   *)
(* When Wait sees 0 it holds the mutex, so no thread is inside Notify any  *)
(* more and all of them are past it: nobody is left to use what the main   *)
(* thread destroys next.                                                   *)
(***************************************************************************)
EXTENDS Startup, FiniteSetTheorems, TLAPS

Past == {"leave", "result", "unwind", "failed", "running"}

NotifySteps == {"decrement", "notify", "unlock"}

(* The threads that have not decremented the counter.                      *)
Unreported == { t \in Threads : net[t] \notin {"notify", "unlock", "run"} }

(* The types without the bound of the counter, which needs Counting.       *)
Types == /\ main \in MainSteps
         /\ net \in [Threads -> NetSteps]
         /\ sync \in BOOLEAN
         /\ lock \in Threads \cup {Main, None}
         /\ waitCount \in Nat
         /\ signalled \in BOOLEAN
         /\ published \subseteq Threads
         /\ queues \subseteq Threads \cup {Main}
         /\ touched = FALSE

Exclusion == /\ lock = Main <=> main \in {"check", "leave"}
             /\ \A t \in Threads : lock = t <=> net[t] \in NotifySteps

Counting == main # "init" => waitCount = Cardinality(Unreported)

Order == /\ main \in {"init", "start"} => \A t \in Threads : net[t] = "unborn"
         /\ sync <=> main \notin {"init", "unwind", "failed", "running"}
         /\ main \in Past => \A t \in Threads : net[t] = "run"
         /\ main = "init" => waitCount = 0

Reported == \A t \in Threads :
              /\ net[t] \in {"publish", "lock", "run"} \cup NotifySteps => t \in queues
              /\ net[t] \in {"lock", "run"} \cup NotifySteps => t \in published

Wakeup == main = "blocked" /\ waitCount = 0
            => signalled \/ \E t \in Threads : net[t] = "notify"

IInv == Types /\ Exclusion /\ Counting /\ Order /\ Reported /\ Wakeup

-----------------------------------------------------------------------------
(* A subset of the threads is finite, and is empty if its size is 0.       *)
LEMMA Sizes ==
  ASSUME NEW S \in SUBSET Threads
  PROVE  /\ IsFiniteSet(S)
         /\ Cardinality(S) \in Nat
         /\ Cardinality(S) <= Cardinality(Threads)
         /\ Cardinality(S) = 0 => S = {}
         /\ \A t \in S : Cardinality(S \ {t}) = Cardinality(S) - 1 /\ Cardinality(S) > 0
<1>1. IsFiniteSet(S) /\ Cardinality(S) <= Cardinality(Threads)
  BY ThreadsAssumption, FS_Subset
<1>2. Cardinality(S) \in Nat
  BY <1>1, FS_CardinalityType
<1>3. Cardinality(S) = 0 => S = {}
  BY <1>1, FS_EmptySet
<1>4. \A t \in S : Cardinality(S \ {t}) = Cardinality(S) - 1
  BY <1>1, FS_RemoveElement
<1> QED
  BY <1>1, <1>2, <1>3, <1>4

LEMMA Initially == Init => IInv
<1> SUFFICES ASSUME Init PROVE IInv
  OBVIOUS
<1>1. Types /\ Exclusion /\ Order /\ Reported /\ Wakeup
  BY ThreadsAssumption
  DEF Init, Types, Exclusion, Order, Reported, Wakeup, MainSteps, NetSteps, NotifySteps, Past
<1> QED
  BY <1>1 DEF Init, IInv, Counting

(* The step that decides: Wait holds the mutex and reads 0, so every       *)
(* thread has left Notify.                                                 *)
LEMMA AllRun ==
  ASSUME IInv, main = "check", waitCount = 0
  PROVE  \A t \in Threads : net[t] = "run"
<1>1. lock = Main /\ \A t \in Threads : net[t] \notin NotifySteps
  BY ThreadsAssumption DEF IInv, Exclusion
<1>2. Unreported = {}
  BY Sizes DEF IInv, Counting, Unreported
<1> QED
  BY <1>1, <1>2 DEF Unreported, NotifySteps

-----------------------------------------------------------------------------
(* The steps of the main thread.                                           *)
LEMMA MainKeepsIInv ==
  ASSUME IInv, MainStep \/ WaitWakes(TRUE)
  PROVE  IInv'
<1> USE ThreadsAssumption DEF IInv
<1>1. CASE InitMainThreadQueue
  <2>1. Types' /\ Exclusion' /\ Order' /\ Reported' /\ Wakeup'
    BY <1>1, Sizes DEF InitMainThreadQueue, Types, Exclusion, Order, Reported, Wakeup,
       MainSteps, NetSteps, NotifySteps, Past
  <2>2. Unreported' = Threads
    BY <1>1 DEF InitMainThreadQueue, Unreported, Order
  <2> QED
    BY <1>1, <2>1, <2>2 DEF InitMainThreadQueue, Counting
<1>2. CASE StartThreads
  <2>1. Types' /\ Exclusion' /\ Order' /\ Reported' /\ Wakeup'
    BY <1>2 DEF StartThreads, Types, Exclusion, Order, Reported, Wakeup,
       MainSteps, NetSteps, NotifySteps, Past
  <2>2. Unreported' = Unreported
    BY <1>2 DEF StartThreads, Unreported, Order
  <2> QED
    BY <1>2, <2>1, <2>2 DEF StartThreads, Counting
<1>3. CASE WaitLocks
  <2>1. Unreported' = Unreported
    BY <1>3 DEF WaitLocks, Unreported
  <2> QED
    BY <1>3, <2>1 DEF WaitLocks, Types, Exclusion, Counting, Order, Reported, Wakeup,
       MainSteps, NetSteps, NotifySteps, Past
<1>4. CASE WaitChecks
  <2>1. Unreported' = Unreported
    BY <1>4 DEF WaitChecks, Unreported
  <2>2. CASE waitCount = 0
    BY <1>4, <2>1, <2>2, AllRun DEF WaitChecks, Types, Exclusion, Counting, Order,
       Reported, Wakeup, MainSteps, NetSteps, NotifySteps, Past
  <2>3. CASE waitCount # 0
    BY <1>4, <2>1, <2>3 DEF WaitChecks, Types, Exclusion, Counting, Order,
       Reported, Wakeup, MainSteps, NetSteps, NotifySteps, Past
  <2> QED
    BY <2>2, <2>3
<1>5. CASE WaitWakes(FALSE) \/ WaitWakes(TRUE)
  <2>1. Unreported' = Unreported
    BY <1>5 DEF WaitWakes, Unreported
  <2> QED
    BY <1>5, <2>1 DEF WaitWakes, Types, Exclusion, Counting, Order, Reported, Wakeup,
       MainSteps, NetSteps, NotifySteps, Past
<1>6. CASE WaitUnlocks
  <2>1. Unreported' = Unreported
    BY <1>6 DEF WaitUnlocks, Unreported
  <2> QED
    BY <1>6, <2>1 DEF WaitUnlocks, Types, Exclusion, Counting, Order,
       Reported, Wakeup, MainSteps, NetSteps, NotifySteps, Past
<1>7. CASE TestResult
  <2>1. Unreported' = Unreported
    BY <1>7 DEF TestResult, Unreported
  <2>2. main' \in {"unwind", "running"} /\ main = "result"
    BY <1>7 DEF TestResult
  <2>3. Types' /\ Exclusion'
    BY <1>7, <2>2 DEF TestResult, Types, Exclusion, MainSteps
  <2>4. Counting' /\ Order' /\ Reported' /\ Wakeup'
    BY <1>7, <2>1, <2>2 DEF TestResult, Types, Counting, Order, Reported, Wakeup,
       NotifySteps, Past
  <2> QED
    BY <2>3, <2>4
<1>8. CASE Fail
  <2>1. Unreported' = Unreported
    BY <1>8 DEF Fail, Unreported
  <2> QED
    BY <1>8, <2>1 DEF Fail, Types, Exclusion, Counting, Order,
       Reported, Wakeup, MainSteps, NetSteps, NotifySteps, Past
<1> QED
  BY <1>1, <1>2, <1>3, <1>4, <1>5, <1>6, <1>7, <1>8 DEF MainStep

-----------------------------------------------------------------------------
(* The steps of a network thread.                                          *)
LEMMA NetKeepsIInv ==
  ASSUME IInv, NEW t \in Threads, NetStep(t)
  PROVE  IInv'
<1> USE ThreadsAssumption DEF IInv
<1>1. CASE AttachFails(t) \/ Attach(t) \/ RegisterQueue(t) \/ Publish(t)
  <2>1. Unreported' = Unreported
    BY <1>1 DEF AttachFails, Attach, RegisterQueue, Publish, Unreported, Types
  <2>2. Counting'
    BY <1>1, <2>1 DEF AttachFails, Attach, RegisterQueue, Publish, Counting
  <2>3. Types' /\ Exclusion'
    <3>1. touched' = FALSE
      <4>1. net[t] # "run" /\ net[t] # "unborn" /\ main \in MainSteps
        BY <1>1 DEF AttachFails, Attach, RegisterQueue, Publish, Types
      <4>2. sync
        BY <4>1 DEF Order, Past, MainSteps
      <4>. QED  BY <1>1, <4>2, Zenon DEF AttachFails, Attach, RegisterQueue, Publish, Types
    <3>2. Exclusion'
      BY <1>1 DEF AttachFails, Attach, RegisterQueue, Publish, Types, Exclusion, NotifySteps
    <3>3. UNCHANGED <<main, sync, lock, waitCount, signalled>>
      BY <1>1, Zenon DEF AttachFails, Attach, RegisterQueue, Publish
    <3>4. net' \in [Threads -> NetSteps] /\ published' \subseteq Threads
          /\ queues' \subseteq Threads \cup {Main}
      BY <1>1 DEF AttachFails, Attach, RegisterQueue, Publish, Types, NetSteps
    <3>. QED  BY <3>1, <3>2, <3>3, <3>4 DEF Types
  <2>4. Order'
    BY <1>1 DEF AttachFails, Attach, RegisterQueue, Publish, Types, Order, Past
  <2>5. Reported' /\ Wakeup'
    BY <1>1 DEF AttachFails, Attach, RegisterQueue, Publish, Types,
       Reported, Wakeup, NotifySteps
  <2> QED
    BY <2>2, <2>3, <2>4, <2>5
<1>2. CASE NotifyLocks(t)
  <2>1. Unreported' = Unreported
    BY <1>2 DEF NotifyLocks, Unreported, Types
  <2>2. Counting'
    BY <1>2, <2>1 DEF NotifyLocks, Counting
  <2>3. Types' /\ Exclusion' /\ Order' /\ Reported' /\ Wakeup'
    BY <1>2 DEF NotifyLocks, Types, Exclusion, Order,
       Reported, Wakeup, MainSteps, NetSteps, NotifySteps, Past
  <2> QED
    BY <2>2, <2>3
<1>3. CASE NotifyDecrements(t)
  <2>1. t \in Unreported /\ main # "init" /\ Unreported' = Unreported \ {t}
    BY <1>3 DEF NotifyDecrements, Unreported, Types, Order
  <2>2. waitCount = Cardinality(Unreported) /\ waitCount > 0
    BY <2>1, Sizes DEF Counting, Unreported
  <2>3. Counting' /\ waitCount' = waitCount - 1
    BY <1>3, <2>1, <2>2, Sizes DEF NotifyDecrements, Counting, Unreported
  <2>4. Types' /\ Exclusion'
    <3>1. sync /\ main \in MainSteps \ Past
      BY <1>3, <2>1 DEF NotifyDecrements, Types, Order, Past, MainSteps
    <3>2. touched' = FALSE
      BY <1>3, <3>1, Zenon DEF NotifyDecrements, Types
    <3>3. waitCount' \in Nat
      BY <2>2, <2>3 DEF Types
    <3> QED
      BY <1>3, <3>2, <3>3 DEF NotifyDecrements, Types, Exclusion, NetSteps, NotifySteps
  <2>5. Order' /\ Reported'
    BY <1>3, <2>1, <2>2, <2>3 DEF NotifyDecrements, Types, Order, Reported, NotifySteps, Past
  <2>6. Wakeup'
    BY <1>3 DEF NotifyDecrements, Wakeup, Types
  <2> QED
    BY <2>3, <2>4, <2>5, <2>6
<1>4. CASE NotifySignals(t) \/ NotifyUnlocks(t)
  <2>1. Unreported' = Unreported
    BY <1>4 DEF NotifySignals, NotifyUnlocks, Unreported, Types
  <2>2. Counting'
    BY <1>4, <2>1 DEF NotifySignals, NotifyUnlocks, Counting
  <2>3. Types' /\ Exclusion'
    BY <1>4 DEF NotifySignals, NotifyUnlocks, Types, Exclusion, Order,
       NetSteps, NotifySteps, Past
  <2>4. Order' /\ Reported'
    BY <1>4 DEF NotifySignals, NotifyUnlocks, Types, Order, Reported, NotifySteps, Past
  <2>5. Wakeup'
    BY <1>4 DEF NotifySignals, NotifyUnlocks, Wakeup, Types
  <2> QED
    BY <2>2, <2>3, <2>4, <2>5
<1> QED
  BY <1>1, <1>2, <1>3, <1>4 DEF NetStep

LEMMA StutterKeepsIInv ==
  ASSUME IInv, UNCHANGED vars
  PROVE  IInv'
<1>1. Unreported' = Unreported
  BY DEF vars, Unreported
<1> QED
  BY <1>1 DEF vars, IInv, Types, Exclusion, Counting, Order, Reported, Wakeup

(* The inductive invariant: mutual exclusion, the meaning of the counter,  *)
(* and the order of the threads' steps.                                    *)
THEOREM Invariance == Spec => []IInv
<1>1. Init => IInv
  BY Initially
<1>2. IInv /\ [Next]_vars => IInv'
  BY MainKeepsIInv, NetKeepsIInv, StutterKeepsIInv DEF Next
<1> QED
  BY <1>1, <1>2, PTL DEF Spec

-----------------------------------------------------------------------------
(* The counter never wraps: InitSynchronizer's _waitCount stays between 0  *)
(* and the number of threads, and all other variables have their types.    *)
THEOREM TypeCorrect == Spec => []TypeOK
<1>1. IInv => TypeOK
  <2> SUFFICES ASSUME IInv PROVE TypeOK
    OBVIOUS
  <2>1. waitCount \in 0..Cardinality(Threads)
    BY Sizes, ThreadsAssumption DEF IInv, Types, Counting, Order, Unreported
  <2> QED
    BY <2>1 DEF IInv, Types, TypeOK
<1> QED
  BY <1>1, Invariance, PTL

(* No thread uses the synchronizer or its notifier after InitThreadQueues  *)
(* destroyed them (AndroidApplication.cpp:188-240).                        *)
THEOREM NeverUsedAfterDestroy == Spec => []NoUseAfterDestroy
<1>1. IInv => NoUseAfterDestroy
  BY DEF IInv, Types, NoUseAfterDestroy
<1> QED
  BY <1>1, Invariance, PTL

(* When Wait returns, each thread's queue is registered and its context is *)
(* in its notifier (ClientRunnable.cpp:27-33).                             *)
THEOREM WaitMeansInitialised == Spec => []InitialisedBeforeReturn
<1>1. IInv => InitialisedBeforeReturn
  BY DEF IInv, Types, Order, Reported, Past, NotifySteps, InitialisedBeforeReturn
<1> QED
  BY <1>1, Invariance, PTL

(* A main thread that is blocked with the count at 0 and the mutex free    *)
(* has been signalled (InitSynchronizer.cpp:23-29).                        *)
THEOREM WakeupsArrive == Spec => []NoLostWakeup
<1>1. IInv => NoLostWakeup
  BY ThreadsAssumption DEF IInv, Exclusion, NotifySteps, Wakeup, NoLostWakeup
<1> QED
  BY <1>1, Invariance, PTL
=============================================================================
