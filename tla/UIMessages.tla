----------------------------- MODULE UIMessages -----------------------------
(***************************************************************************)
(* The message queue of the UI thread.  Post wraps a message in a heap     *)
(* container, the container in a Java JMessage, and hands that to the      *)
(* Handler of the UI thread, which runs UIMessageHandler and, through JNI, *)
(* notifies the container's context.                                       *)
(*                                                                         *)
(* A container is named by the message it was made for.  What it stores is *)
(* the context and a reference (Message *&&) to the pointer variable of    *)
(* Post's caller, which is gone when the call has returned: which message  *)
(* the UI thread finds is another matter than which container it has.      *)
(***************************************************************************)
EXTENDS Naturals, Sequences

CONSTANTS Posters,   \* threads that post to the queue
          PerPoster, \* bound: messages of each
          None

ASSUME PosterAssumption == PerPoster \in Nat

Messages == Posters \X (1..PerPoster)

ASSUME NoneAssumption == None \notin Messages

VARIABLES stage,       \* where each poster is in Post
          posts,       \* how many posts each has begun
          containers,  \* containers that are allocated
          wrappers,    \* JMessages whose _handle is not NULL
          looper,      \* the queue of the Handler
          running,     \* the container whose runnable runs, or None
          ran,         \* history: the containers whose runnables have run
          handled,     \* history: the message that each of them found, or None
          alive        \* the process has not been terminated

vars == <<stage, posts, containers, wrappers, looper, running, ran, handled, alive>>
poster == <<stage, posts>>
ui == <<looper, running, ran, handled>>

Current(p) == <<p, posts[p]>>

Init == /\ stage = [p \in Posters |-> "idle"]
        /\ posts = [p \in Posters |-> 0]
        /\ containers = {} /\ wrappers = {}
        /\ looper = <<>>
        /\ running = None
        /\ ran = <<>> /\ handled = <<>>
        /\ alive = TRUE

-----------------------------------------------------------------------------
(* AndroidMainMessageQueue::Post, on the poster's thread.                  *)

Allocate(p) ==
  /\ alive /\ stage[p] = "idle" /\ posts[p] < PerPoster
  /\ stage' = [stage EXCEPT ![p] = "allocated"]
  /\ posts' = [posts EXCEPT ![p] = @ + 1]
  /\ containers' = containers \cup {<<p, posts[p] + 1>>}
  /\ UNCHANGED <<wrappers, ui, alive>>

(* The thread is not attached, or a class or constructor is not found: an  *)
(* exception; or there is no new JMessage, and Post returns.               *)
NotWrapped(p) ==
  /\ alive /\ stage[p] = "allocated"
  /\ stage' = [stage EXCEPT ![p] = "idle"]
  /\ UNCHANGED <<posts, containers, wrappers, ui, alive>>

Wrap(p) ==
  /\ alive /\ stage[p] = "allocated"
  /\ stage' = [stage EXCEPT ![p] = "wrapped"]
  /\ wrappers' = wrappers \cup {Current(p)}
  /\ UNCHANGED <<posts, containers, ui, alive>>

(* Mutant: Handler.postAtFrontOfQueue.                                     *)
EnqueueAtFront(p) ==
  /\ alive /\ stage[p] = "wrapped"
  /\ stage' = [stage EXCEPT ![p] = "posted"]
  /\ looper' = <<Current(p)>> \o looper
  /\ UNCHANGED <<posts, containers, wrappers, running, ran, handled, alive>>

(* Mutant: the message is posted again, as if the first call had failed.   *)
EnqueueTwice(p) ==
  /\ alive /\ stage[p] = "wrapped"
  /\ stage' = [stage EXCEPT ![p] = "posted"]
  /\ looper' = looper \o <<Current(p), Current(p)>>
  /\ UNCHANGED <<posts, containers, wrappers, running, ran, handled, alive>>

(* UIMessageQueue.post.                                                    *)
Enqueue(p) ==
  /\ alive /\ stage[p] = "wrapped"
  /\ stage' = [stage EXCEPT ![p] = "posted"]
  /\ looper' = Append(looper, Current(p))
  /\ UNCHANGED <<posts, containers, wrappers, running, ran, handled, alive>>

(* UIMessageQueue.post throws, or the looper quits and drops the runnable. *)
NotEnqueued(p) ==
  /\ alive /\ stage[p] = "wrapped"
  /\ stage' = [stage EXCEPT ![p] = "idle"]
  /\ UNCHANGED <<posts, containers, wrappers, ui, alive>>

Return(p) ==
  /\ alive /\ stage[p] = "posted"
  /\ stage' = [stage EXCEPT ![p] = "idle"]
  /\ UNCHANGED <<posts, containers, wrappers, ui, alive>>

-----------------------------------------------------------------------------
(* The UI thread.                                                          *)

(* Mutant: the handle stays in the JMessage.                               *)
RunKeepsHandle ==
  /\ alive /\ running = None /\ looper # <<>>
  /\ running' = Head(looper)
  /\ looper' = Tail(looper)
  /\ UNCHANGED <<wrappers, poster, containers, ran, handled, alive>>

(* Mutant: the other runnables of the queue are removed with it.           *)
RunClears ==
  /\ alive /\ running = None /\ looper # <<>>
  /\ running' = Head(looper)
  /\ looper' = <<>>
  /\ wrappers' = wrappers \ {running'}
  /\ UNCHANGED <<poster, containers, ran, handled, alive>>

(* UIMessageHandler.run takes the handle out of the JMessage.              *)
Run ==
  /\ alive /\ running = None /\ looper # <<>>
  /\ running' = Head(looper)
  /\ looper' = Tail(looper)
  /\ wrappers' = wrappers \ {running'}
  /\ UNCHANGED <<poster, containers, ran, handled, alive>>

(* What the reference in container c leads to.  As long as the call of Post *)
(* that made c has not returned, it is c's own message.  After that it is  *)
(* what lies in that place of the poster's stack: the pointer to any       *)
(* message that the poster has made, or nothing that is a message.         *)
Found(c) == IF stage[c[1]] # "idle" /\ Current(c[1]) = c
              THEN {c}
              ELSE { <<c[1], n>> : n \in 1..posts[c[1]] } \cup {None}

(* _onMessageHandle: the context is notified of the message found, if that *)
(* is an event, and the container freed.  The process may end: what is no  *)
(* message is read as one, and a notifier that is refused is a             *)
(* std::logic_error, which is not caught.  No message is ever deleted.     *)
OnMessageHandle ==
  /\ alive /\ running # None
  /\ ran' = Append(ran, running)
  /\ \E m \in Found(running) : handled' = Append(handled, m)
  /\ containers' = containers \ {running}
  /\ running' = None
  /\ alive' \in BOOLEAN
  /\ UNCHANGED <<poster, wrappers, looper>>

-----------------------------------------------------------------------------
(* The garbage collector.                                                  *)

Reachable(m) == \/ stage[m[1]] = "wrapped" /\ Current(m[1]) = m
                \/ \E i \in DOMAIN looper : looper[i] = m

(* JObject.finalize calls freeHandler for a handle that is not NULL, and   *)
(* JMessage's does nothing.                                                *)
Finalize(m) ==
  /\ alive
  /\ m \in wrappers /\ ~Reachable(m)
  /\ wrappers' = wrappers \ {m}
  /\ UNCHANGED <<poster, containers, ui, alive>>

UIThread == Run \/ OnMessageHandle

Next == \/ \E p \in Posters : \/ Allocate(p) \/ NotWrapped(p) \/ Wrap(p)
                              \/ Enqueue(p) \/ NotEnqueued(p) \/ Return(p)
        \/ UIThread
        \/ \E m \in Messages : Finalize(m)

Spec == Init /\ [][Next]_vars /\ WF_vars(UIThread)

-----------------------------------------------------------------------------
(* Types; the queue holds no runnable twice.                               *)
TypeOK == /\ stage \in [Posters -> {"idle", "allocated", "wrapped", "posted"}]
          /\ posts \in [Posters -> 0..PerPoster]
          /\ containers \subseteq Messages
          /\ wrappers \subseteq Messages
          /\ looper \in Seq(Messages)
          /\ \A i, j \in DOMAIN looper : looper[i] = looper[j] => i = j
          /\ running \in Messages \cup {None}
          /\ ran \in Seq(Messages)
          /\ handled \in Seq(Messages \cup {None}) /\ Len(handled) = Len(ran)
          /\ alive \in BOOLEAN

(* A handle that Java still holds, or that native code is using, is that   *)
(* of an allocated container, and only one of them holds it                *)
(* (JMessage.java:18-22 against JNI_UIMessageHandler.cpp:15).              *)
HandlesAreLive == /\ wrappers \subseteq containers
                  /\ running # None => running \in containers \ wrappers

(* Each poster's runnables are run in the order of its posts, none of them *)
(* twice, and each has freed its container when it is done                 *)
(* (UIMessageQueue.java:17 with JNI_UIMessageHandler.cpp:15).  This is     *)
(* about runnables: which message one of them finds is left open.          *)
RunsInOrder ==
  /\ \A i, j \in DOMAIN ran : i < j /\ ran[i][1] = ran[j][1] => ran[i][2] < ran[j][2]
  /\ \A i \in DOMAIN ran : ran[i] \notin containers

(* A runnable that was put in the Handler's queue is run, and its          *)
(* container freed, unless the process ends.                               *)
PostedIsRun ==
  \A c \in Messages : (\E i \in DOMAIN looper : looper[i] = c)
                        ~> (~alive \/ \E i \in DOMAIN ran : ran[i] = c)

(* What one would expect of messages, and what no run checks since it does *)
(* not hold: no message is handled twice (AndroidApplication.cpp:71).      *)
HandledOnce ==
  \A i, j \in DOMAIN handled : handled[i] = handled[j] /\ handled[i] # None => i = j
=============================================================================
