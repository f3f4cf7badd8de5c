--------------------------- MODULE UIMessagesProofs ---------------------------
(***************************************************************************)
(* For any number of posters and posts: each handle has an owner, and the  *)
(* runnables of each poster are run once, in order, and free what they     *)
(* were made for.  Which message a runnable finds is no part of it.        *)
(***************************************************************************)
EXTENDS UIMessages, TLAPS

(* m was posted before n, if they are of one poster.                       *)
Before(m, n) == m[1] = n[1] => m[2] < n[2]

(* p has a message that is not yet in the Handler's queue.                 *)
Busy(p) == stage[p] \in {"allocated", "wrapped"}

(* m was in the queue: it is older than what its poster is busy with.      *)
Past(m) == IF Busy(m[1]) THEN m[2] < posts[m[1]] ELSE m[2] <= posts[m[1]]

(* What has run, what runs and what is to be run are in this order, each   *)
(* in the order of the posts, and what has run has no container.           *)
Lined ==
  /\ RunsInOrder
  /\ \A i \in DOMAIN ran : Past(ran[i])
  /\ running # None => /\ Past(running)
                       /\ \A i \in DOMAIN ran : Before(ran[i], running)
                       /\ \A j \in DOMAIN looper : Before(running, looper[j])
  /\ \A i \in DOMAIN ran, j \in DOMAIN looper : Before(ran[i], looper[j])
  /\ \A i, j \in DOMAIN looper : i < j => Before(looper[i], looper[j])
  /\ \A j \in DOMAIN looper : Past(looper[j])

(* A JMessage in the queue, or in a poster's hands, holds its handle.      *)
Held ==
  /\ \A j \in DOMAIN looper : looper[j] \in wrappers
  /\ \A p \in Posters : stage[p] = "wrapped" => Current(p) \in wrappers

(* A message that is being posted has a container, and no container is     *)
(* ahead of its poster.                                                    *)
Allocated ==
  /\ \A m \in containers : m[2] <= posts[m[1]]
  /\ \A p \in Posters : stage[p] = "allocated" => Current(p) \in containers \ wrappers
  /\ \A p \in Posters : Busy(p) => posts[p] > 0

Types == /\ stage \in [Posters -> {"idle", "allocated", "wrapped", "posted"}]
         /\ posts \in [Posters -> 0..PerPoster]
         /\ containers \subseteq Messages
         /\ wrappers \subseteq Messages
         /\ looper \in Seq(Messages)
         /\ running \in Messages \cup {None}
         /\ ran \in Seq(Messages)
         /\ handled \in Seq(Messages \cup {None}) /\ Len(handled) = Len(ran)
         /\ alive \in BOOLEAN

Ind == Types /\ HandlesAreLive /\ Lined /\ Held /\ Allocated

-----------------------------------------------------------------------------
(* Steps of Post.                                                          *)

LEMMA CurrentIsMessage ==
  ASSUME Types, Allocated, NEW p \in Posters, Busy(p)
  PROVE  /\ Current(p) \in Messages
         /\ Current(p)[1] = p
         /\ Current(p)[2] = posts[p]
BY PosterAssumption DEF Types, Allocated, Current, Messages

LEMMA AllocateKeeps ==
  ASSUME Ind, NEW p \in Posters, Allocate(p)
  PROVE  Ind'
<1> USE DEF Allocate, poster, ui
<1> DEFINE new == <<p, posts[p] + 1>>
<1>1. Types'
  <2>1. posts[p] + 1 \in 1..PerPoster
    BY PosterAssumption DEF Ind, Types
  <2>2. new \in Messages
    BY <2>1 DEF Messages
  <2>3. posts' \in [Posters -> 0..PerPoster]
    BY <2>1 DEF Ind, Types
  <2>. QED  BY <2>2, <2>3 DEF Ind, Types
<1>2. ~Busy(p) /\ Busy(p)' /\ posts'[p] = posts[p] + 1
  BY DEF Ind, Types, Busy
<1>3. \A q \in Posters \ {p} : /\ posts'[q] = posts[q] /\ stage'[q] = stage[q]
                               /\ Busy(q)' = Busy(q)
  BY DEF Ind, Types, Busy
<1>4. \A m \in Messages : Past(m) => Past(m)'
  BY <1>2, <1>3 DEF Ind, Types, Past, Messages
<1>5. HandlesAreLive'
  BY DEF Ind, HandlesAreLive
<1>6. Lined'
  <2>1. \A i \in DOMAIN ran : ran[i] \in Messages /\ Past(ran[i])
    BY DEF Ind, Types, Lined
  <2>2. \A m \in Messages : Past(m) => m # new
    BY <1>2 DEF Ind, Types, Past
  <2>3. \A i \in DOMAIN ran' : ran'[i] \notin containers'
    BY <2>1, <2>2 DEF Ind, Lined, RunsInOrder
  <2>. QED  BY <2>3, <1>4 DEF Ind, Types, Lined, RunsInOrder, Before
<1>7. new \notin containers
  BY DEF Ind, Types, Allocated
<1>8. Held'
  BY <1>3 DEF Ind, Types, Held, Current
<1>9. Allocated'
  <2>1. \A m \in containers' : m[2] <= posts'[m[1]]
    BY <1>2, <1>3 DEF Ind, Types, Allocated, Messages
  <2>2. Current(p)' \in containers' \ wrappers'
    BY <1>2, <1>7 DEF Ind, HandlesAreLive, Current
  <2>3. \A q \in Posters : Busy(q)' => posts'[q] > 0
    BY <1>2, <1>3 DEF Ind, Types, Allocated
  <2>. QED  BY <2>1, <2>2, <2>3, <1>3 DEF Ind, Types, Allocated, Current
<1>. QED  BY <1>1, <1>5, <1>6, <1>8, <1>9 DEF Ind

(* The poster gives up its message, or has given it away.                  *)
LEMMA BecomesIdle ==
  ASSUME Ind, NEW p \in Posters, stage' = [stage EXCEPT ![p] = "idle"],
         UNCHANGED <<posts, containers, wrappers, ui, alive>>
  PROVE  Ind'
<1> USE DEF ui
<1>1. Types'
  BY DEF Ind, Types
<1>2. \A q \in Posters : stage'[q] # "idle" => stage'[q] = stage[q] /\ Current(q)' = Current(q)
  BY DEF Ind, Types, Current
<1>3. \A q \in Posters : Busy(q)' => Busy(q)
  BY <1>2 DEF Busy
<1>4. \A m \in Messages : Past(m) => Past(m)'
  BY <1>3 DEF Ind, Types, Past, Messages
<1>5. HandlesAreLive'
  BY DEF Ind, HandlesAreLive
<1>6. Lined'
  BY <1>4 DEF Ind, Types, Lined, RunsInOrder, Before
<1>7. Held'
  BY <1>2 DEF Ind, Held
<1>8. Allocated'
  BY <1>2, <1>3 DEF Ind, Allocated
<1>. QED  BY <1>1, <1>5, <1>6, <1>7, <1>8 DEF Ind

LEMMA WrapKeeps ==
  ASSUME Ind, NEW p \in Posters, Wrap(p)
  PROVE  Ind'
<1> USE DEF Wrap, ui
<1>1. Busy(p)
  BY DEF Busy
<1>2. Current(p) \in Messages /\ Current(p)[1] = p /\ Current(p)[2] = posts[p]
  BY <1>1, CurrentIsMessage DEF Ind
<1>3. Types'
  BY <1>2 DEF Ind, Types
<1>4. \A q \in Posters : Current(q)' = Current(q) /\ Busy(q)' = Busy(q)
  BY DEF Ind, Types, Current, Busy
<1>5. \A m \in Messages : Past(m)' = Past(m)
  BY <1>4 DEF Ind, Types, Past, Messages
<1>6. HandlesAreLive'
  <2>1. running # None => running # Current(p)
    BY <1>1, <1>2 DEF Ind, Types, Lined, Past
  <2>. QED  BY <2>1 DEF Ind, HandlesAreLive, Allocated
<1>7. Lined'
  BY <1>5 DEF Ind, Types, Lined, RunsInOrder, Before
<1>8. Held'
  BY <1>4 DEF Ind, Types, Held
<1>9. Allocated'
  <2>1. \A q \in Posters \ {p} : Busy(q) => Current(q) # Current(p)
    BY <1>2, CurrentIsMessage DEF Ind
  <2>2. \A q \in Posters : stage'[q] = "allocated" => q # p /\ stage[q] = "allocated" /\ Busy(q)
    BY DEF Ind, Types, Busy
  <2>. QED  BY <2>1, <2>2, <1>4 DEF Ind, Allocated
<1>. QED  BY <1>3, <1>6, <1>7, <1>8, <1>9 DEF Ind

LEMMA EnqueueKeeps ==
  ASSUME Ind, NEW p \in Posters, Enqueue(p)
  PROVE  Ind'
<1> USE DEF Enqueue
<1>1. Busy(p)
  BY DEF Busy
<1>2. Current(p) \in Messages /\ Current(p)[1] = p /\ Current(p)[2] = posts[p]
  BY <1>1, CurrentIsMessage DEF Ind
<1>3. Types'
  BY <1>2 DEF Ind, Types
<1>4. /\ \A q \in Posters : Current(q)' = Current(q) /\ (Busy(q)' => Busy(q))
      /\ ~Busy(p)'
  BY DEF Ind, Types, Current, Busy
<1>5. \A m \in Messages : Past(m) => Past(m)'
  BY <1>4 DEF Ind, Types, Past, Messages
<1>6. Past(Current(p))'
  BY <1>2, <1>4 DEF Ind, Types, Past
<1>7. \A m \in Messages : Past(m) => Before(m, Current(p))
  BY <1>1, <1>2 DEF Past, Before
<1>8. HandlesAreLive'
  BY DEF Ind, HandlesAreLive
<1>9. Lined'
  <2>1. \A j \in DOMAIN looper' :
           \/ j \in DOMAIN looper /\ looper'[j] = looper[j] /\ looper[j] \in Messages
           \/ j = Len(looper) + 1 /\ looper'[j] = Current(p)
    BY <1>2 DEF Ind, Types
  <2>2. \A i \in DOMAIN looper, j \in DOMAIN looper' :
           i < j => j \in DOMAIN looper \/ looper'[j] = Current(p)
    BY <2>1
  <2>3. DOMAIN looper = 1..Len(looper) /\ Len(looper) \in Nat
    BY DEF Ind, Types
  <2>4. \A i, j \in DOMAIN looper' : i < j => Before(looper'[i], looper'[j])
    BY <2>1, <2>3, <1>7 DEF Ind, Lined
  <2>5. (\A j \in DOMAIN looper : Past(looper[j]))'
    BY <2>1, <1>4, <1>5, <1>6 DEF Ind, Lined, Past
  <2>6. \A i \in DOMAIN ran, j \in DOMAIN looper' : Before(ran[i], looper'[j])
    BY <2>1, <1>7 DEF Ind, Types, Lined
  <2>7. running # None => \A j \in DOMAIN looper' : Before(running, looper'[j])
    BY <2>1, <1>7 DEF Ind, Types, Lined
  <2>8. (running # None => Past(running))'
    BY <1>4 DEF Ind, Types, Lined, Past, Messages
  <2>9. (\A i \in DOMAIN ran : Past(ran[i]))'
    <3>1. \A i \in DOMAIN ran : ran[i] \in Messages
      BY DEF Ind, Types
    <3>2. \A i \in DOMAIN ran : ran[i][1] \in Posters /\ Past(ran[i])
      BY <3>1 DEF Ind, Lined, Messages
    <3>3. \A i \in DOMAIN ran : ran[i][2] \in Nat /\ posts[ran[i][1]] \in Nat
      BY <3>1, <3>2 DEF Ind, Types, Messages
    <3>. QED  BY <3>2, <3>3, <1>4 DEF Past
  <2>. QED  BY <2>4, <2>5, <2>6, <2>7, <2>8, <2>9 DEF Ind, Lined, RunsInOrder, Before
<1>10. Held'
  <2>1. \A j \in DOMAIN looper' : looper'[j] \in {looper[i] : i \in DOMAIN looper} \cup {Current(p)}
    BY <1>2 DEF Ind, Types
  <2>. QED  BY <2>1, <1>4 DEF Ind, Types, Held
<1>11. Allocated'
  BY <1>4 DEF Ind, Types, Allocated
<1>. QED  BY <1>3, <1>8, <1>9, <1>10, <1>11 DEF Ind

-----------------------------------------------------------------------------
(* Steps of the UI thread and of the collector.                            *)

LEMMA RunKeeps ==
  ASSUME Ind, Run
  PROVE  Ind'
<1> USE DEF Run, poster
<1>1. /\ Len(looper) \in Nat \ {0} /\ DOMAIN looper = 1..Len(looper)
      /\ running' = looper[1] /\ looper[1] \in Messages
  BY DEF Ind, Types
<1>2. /\ looper' \in Seq(Messages)
      /\ \A j \in DOMAIN looper' : j + 1 \in DOMAIN looper /\ 1 < j + 1 /\ looper'[j] = looper[j + 1]
      /\ DOMAIN looper' \subseteq Nat
  BY <1>1 DEF Ind, Types
<1>3. running' # None
  BY <1>1, NoneAssumption
<1>4. Types'
  BY <1>1, <1>2 DEF Ind, Types
<1>5. \A j \in DOMAIN looper' : Before(running', looper'[j])
  BY <1>1, <1>2 DEF Ind, Lined
<1>6. \A j \in DOMAIN looper' : looper'[j] # running'
  <2>1. running'[2] \in Nat
    BY <1>1 DEF Messages
  <2>. QED  BY <2>1, <1>5 DEF Before
<1>7. \A m : Past(m)' = Past(m)
  BY DEF Past, Busy
<1>8. \A q \in Posters : Current(q)' = Current(q) /\ Busy(q)' = Busy(q)
  BY DEF Current, Busy
<1>9. HandlesAreLive'
  BY <1>1 DEF Ind, HandlesAreLive, Held
<1>10. Lined'
  <2>1. \A i, j \in DOMAIN looper' : i < j => Before(looper'[i], looper'[j])
    BY <1>2 DEF Ind, Lined
  <2>2. \A i \in DOMAIN ran, j \in DOMAIN looper' : Before(ran[i], looper'[j])
    BY <1>2 DEF Ind, Lined
  <2>3. (\A j \in DOMAIN looper : Past(looper[j]))'
    BY <1>2 DEF Ind, Lined, Past, Busy
  <2>4. Past(running)' /\ \A i \in DOMAIN ran : Before(ran[i], running')
    BY <1>1 DEF Ind, Lined, Past, Busy
  <2>. QED  BY <2>1, <2>2, <2>3, <2>4, <1>5, <1>7 DEF Ind, Lined, RunsInOrder, Before
<1>11. Held'
  <2>1. \A p \in Posters : stage[p] = "wrapped" => Current(p) # running'
    <3> SUFFICES ASSUME NEW p \in Posters, stage[p] = "wrapped"
                 PROVE  Current(p) # running'
      OBVIOUS
    <3>1. Current(p)[1] = p /\ Current(p)[2] = posts[p]
      BY CurrentIsMessage DEF Ind, Busy
    <3>2. Past(looper[1]) /\ posts[p] \in Nat
      BY <1>1 DEF Ind, Types, Lined
    <3>. QED  BY <3>1, <3>2, <1>1 DEF Past, Busy
  <2>. QED  BY <2>1, <1>2, <1>6, <1>8 DEF Ind, Held
<1>12. Allocated'
  BY <1>8 DEF Ind, Allocated
<1>. QED  BY <1>4, <1>9, <1>10, <1>11, <1>12 DEF Ind

LEMMA HandleKeeps ==
  ASSUME Ind, OnMessageHandle
  PROVE  Ind'
<1>0. /\ running # None /\ running' = None
      /\ ran' = Append(ran, running)
      /\ containers' = containers \ {running}
      /\ alive' \in BOOLEAN
      /\ UNCHANGED <<stage, posts, wrappers, looper>>
  BY DEF OnMessageHandle, poster
<1> USE <1>0
<1>1. running \in Messages
  BY DEF Ind, Types
<1>2. Types'
  <2>1. Found(running) \subseteq Messages \cup {None}
    <3>1. running[1] \in Posters /\ posts[running[1]] \in 0..PerPoster
      BY <1>1 DEF Ind, Types, Messages
    <3>2. \A n \in 1..posts[running[1]] : n \in 1..PerPoster
      BY <3>1, PosterAssumption
    <3>3. \A n \in 1..posts[running[1]] : <<running[1], n>> \in Messages
      BY <3>1, <3>2 DEF Messages
    <3>. QED  BY <1>1, <3>3 DEF Found
  <2>2. PICK m \in Found(running) : handled' = Append(handled, m)
    BY DEF OnMessageHandle
  <2>3. /\ handled' \in Seq(Messages \cup {None})
        /\ ran' \in Seq(Messages)
        /\ Len(handled') = Len(ran')
    <3>1. handled \in Seq(Messages \cup {None}) /\ m \in Messages \cup {None}
      BY <2>1, <2>2 DEF Ind, Types
    <3>2. ran \in Seq(Messages) /\ Len(ran) = Len(handled)
      BY DEF Ind, Types
    <3>. QED  BY <1>1, <2>2, <3>1, <3>2
  <2>. QED  BY <1>1, <2>3 DEF Ind, Types
<1>3. \A m : Past(m)' = Past(m)
  BY DEF Past, Busy
<1>4. \A q \in Posters : Current(q)' = Current(q) /\ Busy(q)' = Busy(q)
  BY DEF Current, Busy
<1>5. HandlesAreLive'
  BY DEF Ind, HandlesAreLive
<1>6. Lined'
  <2>0. ran \in Seq(Messages) /\ ran' = Append(ran, running)
    BY DEF Ind, Types
  <2>1. /\ DOMAIN ran = 1..Len(ran) /\ Len(ran) \in Nat
        /\ \A i \in DOMAIN ran' : \/ i \in DOMAIN ran /\ ran'[i] = ran[i]
                                  \/ i = Len(ran) + 1 /\ ran'[i] = running
    BY <1>1, <2>0
  <2>2. \A i, j \in DOMAIN ran' : i < j => Before(ran'[i], ran'[j])
    BY <2>1 DEF Ind, Lined, RunsInOrder, Before
  <2>3. \A i \in DOMAIN ran', j \in DOMAIN looper : Before(ran'[i], looper[j])
    BY <2>1 DEF Ind, Lined
  <2>4. (\A i \in DOMAIN ran : Past(ran[i]))'
    BY <2>1 DEF Ind, Lined, Past, Busy
  <2>5. \A i \in DOMAIN ran' : ran'[i] \notin containers'
    BY <2>1 DEF Ind, Lined, RunsInOrder
  <2>. QED  BY <2>2, <2>3, <2>4, <2>5, <1>3 DEF Ind, Lined, RunsInOrder, Before
<1>7. Held'
  BY <1>4 DEF Ind, Held
<1>8. Allocated'
  <2>1. \A p \in Posters : stage[p] = "allocated" => Current(p) # running
    <3> SUFFICES ASSUME NEW p \in Posters, stage[p] = "allocated"
                 PROVE  Current(p) # running
      OBVIOUS
    <3>1. Current(p)[1] = p /\ Current(p)[2] = posts[p]
      BY CurrentIsMessage DEF Ind, Busy
    <3>. QED  BY <3>1, <1>1 DEF Ind, Types, Lined, Past, Busy, Messages
  <2>. QED  BY <2>1, <1>4 DEF Ind, Allocated
<1>. QED  BY <1>2, <1>5, <1>6, <1>7, <1>8 DEF Ind

LEMMA FinalizeKeeps ==
  ASSUME Ind, NEW m \in Messages, Finalize(m)
  PROVE  Ind'
<1> USE DEF Finalize, poster, ui
<1>1. Types'
  BY DEF Ind, Types
<1>2. \A n : Past(n)' = Past(n)
  BY DEF Past, Busy
<1>3. \A q \in Posters : Current(q)' = Current(q) /\ Busy(q)' = Busy(q)
  BY DEF Current, Busy
<1>4. HandlesAreLive'
  BY DEF Ind, HandlesAreLive
<1>5. Lined'
  BY <1>2 DEF Ind, Lined, RunsInOrder, Before
<1>6. Held'
  <2>1. \A p \in Posters : stage[p] = "wrapped" => Current(p) # m
    BY CurrentIsMessage DEF Ind, Busy, Reachable
  <2>. QED  BY <2>1, <1>3 DEF Ind, Held, Reachable
<1>7. Allocated'
  BY <1>3 DEF Ind, Allocated
<1>. QED  BY <1>1, <1>4, <1>5, <1>6, <1>7 DEF Ind

-----------------------------------------------------------------------------
LEMMA InitEstablishes == Init => Ind
BY PosterAssumption
   DEF Init, Ind, Types, HandlesAreLive, Lined, RunsInOrder, Held, Allocated, Busy

LEMMA NextKeeps == Ind /\ [Next]_vars => Ind'
<1> SUFFICES ASSUME Ind, [Next]_vars
             PROVE  Ind'
  OBVIOUS
<1>1. ASSUME NEW p \in Posters, Allocate(p)
      PROVE  Ind'
  BY <1>1, AllocateKeeps
<1>2. ASSUME NEW p \in Posters, NotWrapped(p) \/ NotEnqueued(p) \/ Return(p)
      PROVE  Ind'
  BY <1>2, BecomesIdle DEF NotWrapped, NotEnqueued, Return
<1>3. ASSUME NEW p \in Posters, Wrap(p)
      PROVE  Ind'
  BY <1>3, WrapKeeps
<1>4. ASSUME NEW p \in Posters, Enqueue(p)
      PROVE  Ind'
  BY <1>4, EnqueueKeeps
<1>5. CASE UIThread
  BY <1>5, RunKeeps, HandleKeeps DEF UIThread
<1>6. ASSUME NEW m \in Messages, Finalize(m)
      PROVE  Ind'
  BY <1>6, FinalizeKeeps
<1>7. CASE UNCHANGED vars
  BY <1>7 DEF vars, Ind, Types, HandlesAreLive, Lined, RunsInOrder, Past, Busy, Before,
              Held, Allocated, Current
<1>. QED  BY <1>1, <1>2, <1>3, <1>4, <1>5, <1>6, <1>7 DEF Next

THEOREM Invariance == Spec => []Ind
BY InitEstablishes, NextKeeps, PTL DEF Spec

(* Types, for any posters; no runnable is in the Handler's queue twice.    *)
THEOREM TypeCorrect == Spec => []TypeOK
<1>1. Ind => TypeOK
  <2> SUFFICES ASSUME Ind, NEW i \in DOMAIN looper, NEW j \in DOMAIN looper,
                      looper[i] = looper[j], i # j
               PROVE  FALSE
    BY DEF Ind, Types, TypeOK
  <2>1. i \in Nat /\ j \in Nat /\ looper[i][2] \in Nat
    BY DEF Ind, Types, Messages
  <2>2. Before(looper[i], looper[j]) \/ Before(looper[j], looper[i])
    BY <2>1 DEF Ind, Lined
  <2>. QED  BY <2>1, <2>2 DEF Before
<1>. QED  BY <1>1, Invariance, PTL

(* The pointer that goes from native code into a JMessage and back is that *)
(* of an allocated container whenever somebody may use it, and the         *)
(* collector finds it in no JMessage whose runnable has begun.             *)
THEOREM HandlesLive == Spec => []HandlesAreLive
BY Invariance, PTL DEF Ind

(* The UI thread runs the runnables of each poster in the order of its     *)
(* posts, none of them twice, and each frees its container, so that no     *)
(* handle can reach native code a second time.                             *)
THEOREM RunnablesInOrder == Spec => []RunsInOrder
BY Invariance, PTL DEF Ind, Lined
=============================================================================
