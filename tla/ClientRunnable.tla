--------------------------- MODULE ClientRunnable ---------------------------
(***************************************************************************)
(* The message path to the network thread: Context::Post finds the queue   *)
(* of the context's thread in MessageQueueManager and posts to it;         *)
(* RequestPacketQueue guards its deque with a mutex; the loop of           *)
(* ClientRunnable::OnRun moves messages in batches into an array, handles  *)
(* and deletes them one by one, and runs the reactor between two batches.  *)
(* Posters are the threads that hold a NetworkService of the context.      *)
(*                                                                         *)
(* A step is a critical section or a piece of thread-local work.  The      *)
(* network thread's part of each loop is a program counter away from the   *)
(* posters, which run at any time.                                         *)
(***************************************************************************)
EXTENDS Naturals, Sequences

CONSTANTS Posters,     \* threads that post
          MaxPosts,    \* bound: posts per poster
          BatchSize,   \* the size of the array in OnRun (8)
          None

ASSUME BoundsAssumption == MaxPosts \in Nat \ {0} /\ BatchSize \in Nat \ {0}

Messages == Posters \X (1..MaxPosts)
Kinds == {"User", "Event"}   \* the category; Notifier messages are ignored like User ones

ASSUME NoMessageAssumption == None \notin Messages

VARIABLES registered,  \* is the queue in MessageQueueManager's map?
          kind,        \* what each message is
          posts,       \* how many messages each poster has made
          found,       \* posters that hold the queue they looked up
          queue,       \* _unreadMessages
          messages,    \* the array of OnRun; entries are never cleared
          first, last, \* its iterators, as indices
          pc,          \* the network thread: "handle", "take" or "select"
          alive,       \* the process has not been terminated
          deleted,     \* history: the messages deleted, in order
          served,      \* history: the messages that a handler saw
          refused      \* history: the messages whose Post threw

vars == <<registered, kind, posts, found, queue, messages, first, last, pc, alive,
          deleted, served, refused>>

Init == /\ registered = TRUE
        /\ kind = [m \in Messages |-> None]
        /\ posts = [p \in Posters |-> 0]
        /\ found = {}
        /\ queue = <<>>
        /\ messages = [i \in 1..BatchSize |-> None]
        /\ first = 1 /\ last = 1
        /\ pc = "handle"
        /\ alive = TRUE
        /\ deleted = <<>>
        /\ served = {}
        /\ refused = {}

-----------------------------------------------------------------------------
(* Context::Post, in two critical sections: GetMessageQueue under the      *)
(* manager's lock, then RequestPacketQueue::Post under the queue's.        *)

Lookup(p, k) ==
  /\ alive
  /\ p \notin found /\ posts[p] < MaxPosts
  /\ posts' = [posts EXCEPT ![p] = @ + 1]
  /\ kind' = [kind EXCEPT ![<<p, posts[p] + 1>>] = k]
  /\ IF registered
       THEN found' = found \cup {p} /\ UNCHANGED refused
       ELSE refused' = refused \cup {<<p, posts[p] + 1>>} /\ UNCHANGED found
  /\ UNCHANGED <<registered, queue, messages, first, last, pc, alive, deleted, served>>

(* Mutant: the message is put at the wrong end of the deque.               *)
PostAtFront(p) ==
  /\ alive
  /\ p \in found
  /\ queue' = <<<<p, posts[p]>>>> \o queue
  /\ found' = found \ {p}
  /\ UNCHANGED <<registered, kind, posts, messages, first, last, pc, alive, deleted,
                 served, refused>>

(* The shared_ptr keeps the queue alive, registered or not.                *)
Post(p) ==
  /\ alive
  /\ p \in found
  /\ queue' = Append(queue, <<p, posts[p]>>)
  /\ found' = found \ {p}
  /\ UNCHANGED <<registered, kind, posts, messages, first, last, pc, alive, deleted,
                 served, refused>>

(* OnMainThreadQuit takes the queue out of the manager; the thread stays.  *)
Unregister ==
  /\ alive
  /\ registered' = FALSE
  /\ UNCHANGED <<kind, posts, found, queue, messages, first, last, pc, alive, deleted,
                 served, refused>>

-----------------------------------------------------------------------------
(* OnRun, one message: an event goes to the dispatcher; a user message     *)
(* would go to NetworkMessagesHandler if `processed', just set to false,   *)
(* were true; the rest is ignored.  The message is deleted in any case.    *)
HandleOne ==
  /\ alive /\ pc = "handle" /\ first # last
  /\ LET m == messages[first]
         processed == FALSE
     IN  /\ served' = IF kind[m] = "Event" \/ (kind[m] = "User" /\ processed)
                        THEN served \cup {m} ELSE served
         /\ deleted' = Append(deleted, m)
  /\ first' = first + 1
  /\ UNCHANGED <<registered, kind, posts, found, queue, messages, last, pc, alive, refused>>

BatchDone ==
  /\ alive /\ pc = "handle" /\ first = last
  /\ pc' = "take"
  /\ UNCHANGED <<registered, kind, posts, found, queue, messages, first, last, alive,
                 deleted, served, refused>>

(* Mutant: the deque keeps what was taken.                                 *)
TakeSomeKeeps ==
  /\ alive /\ pc = "take"
  /\ LET n == IF Len(queue) < BatchSize THEN Len(queue) ELSE BatchSize
     IN  /\ messages' = [i \in 1..BatchSize |-> IF i <= n THEN queue[i] ELSE messages[i]]
         /\ queue' = queue
         /\ first' = 1
         /\ last' = n + 1
  /\ pc' = "select"
  /\ UNCHANGED <<registered, kind, posts, found, alive, deleted, served, refused>>

(* Mutant: one message more than was copied is erased.                     *)
TakeSomeErasesMore ==
  /\ alive /\ pc = "take"
  /\ LET n == IF Len(queue) < BatchSize THEN Len(queue) ELSE BatchSize
     IN  /\ messages' = [i \in 1..BatchSize |-> IF i <= n THEN queue[i] ELSE messages[i]]
         /\ queue' = SubSeq(queue, n + 2, Len(queue))
         /\ first' = 1
         /\ last' = n + 1
  /\ pc' = "select"
  /\ UNCHANGED <<registered, kind, posts, found, alive, deleted, served, refused>>

(* TakeSome copies what fits into the array and erases it from the deque.  *)
TakeSome ==
  /\ alive /\ pc = "take"
  /\ LET n == IF Len(queue) < BatchSize THEN Len(queue) ELSE BatchSize
     IN  /\ messages' = [i \in 1..BatchSize |-> IF i <= n THEN queue[i] ELSE messages[i]]
         /\ queue' = SubSeq(queue, n + 1, Len(queue))
         /\ first' = 1
         /\ last' = n + 1
  /\ pc' = "select"
  /\ UNCHANGED <<registered, kind, posts, found, alive, deleted, served, refused>>

(* Mutant: the next batch is taken before this one is handled.             *)
SelectSkipsBatch ==
  /\ alive /\ pc = "select"
  /\ pc' = "take"
  /\ UNCHANGED <<registered, kind, posts, found, queue, messages, first, last, alive,
                 deleted, served, refused>>

(* The reactor runs for at most 50 ms; a timeout is caught.                *)
Select ==
  /\ alive /\ pc = "select"
  /\ pc' = "handle"
  /\ UNCHANGED <<registered, kind, posts, found, queue, messages, first, last, alive,
                 deleted, served, refused>>

(* Any other exception leaves the thread's function: std::terminate.       *)
SelectDies ==
  /\ alive /\ pc = "select"
  /\ alive' = FALSE
  /\ UNCHANGED <<registered, kind, posts, found, queue, messages, first, last, pc,
                 deleted, served, refused>>

Loop == HandleOne \/ BatchDone \/ TakeSome \/ Select

Next == \/ \E p \in Posters, k \in Kinds : Lookup(p, k)
        \/ \E p \in Posters : Post(p)
        \/ Unregister
        \/ Loop
        \/ SelectDies

(* The loop never blocks: select has a timeout, and the two mutexes are    *)
(* held for bounded critical sections.                                     *)
Spec == Init /\ [][Next]_vars /\ WF_vars(Loop)

-----------------------------------------------------------------------------
(* What is still to be handled: the rest of the batch, then the deque.     *)
Pending == SubSeq(messages, first, last - 1) \o queue

Elements(seq) == { seq[i] : i \in DOMAIN seq }

(* Types, and the iterators within the array.                              *)
TypeOK == /\ registered \in BOOLEAN
          /\ kind \in [Messages -> Kinds \cup {None}]
          /\ posts \in [Posters -> 0..MaxPosts]
          /\ found \subseteq Posters
          /\ queue \in Seq(Messages)
          /\ messages \in [1..BatchSize -> Messages \cup {None}]
          /\ first \in 1..(BatchSize + 1) /\ last \in 1..(BatchSize + 1)
          /\ first <= last
          /\ pc \in {"handle", "take", "select"}
          /\ alive \in BOOLEAN
          /\ deleted \in Seq(Messages)
          /\ served \subseteq Messages /\ refused \subseteq Messages

(* A message is never deleted twice, nor handled after it was deleted,     *)
(* although the array keeps pointers to deleted messages across batches.   *)
NoDoubleDelete ==
  /\ TypeOK
  /\ LET all == deleted \o Pending
     IN  \A i, j \in DOMAIN all : i # j => all[i] # all[j]

(* Every message that was made is in exactly one place: refused, about to  *)
(* be posted, pending, or deleted.  None is lost between the deque and the *)
(* array.                                                                  *)
NothingLost ==
  { m \in Messages : m[2] <= posts[m[1]] }
    = refused \cup { <<p, posts[p]>> : p \in found }
      \cup Elements(Pending) \cup Elements(deleted)

(* A message whose Post returned is consumed, unless the process ends.     *)
PostedIsConsumed ==
  \A m \in Messages :
     (m \in Elements(queue)) ~> (m \in Elements(deleted) \/ ~alive)

Mail == INSTANCE Mailbox WITH pending <- Pending, consumed <- deleted, open <- alive

(* The batching is invisible: queue, array and loop are one mailbox, in    *)
(* which messages are consumed in the order in which they were posted.     *)
ImplementsMailbox == Mail!Spec

(* "request establish connection" (NetworkService.java:46): a request      *)
(* whose Post returned is handled.                                         *)
RequestsServed ==
  \A m \in Messages :
     (m \in Elements(queue) /\ kind[m] = "User") ~> (m \in served \/ ~alive)
=============================================================================
