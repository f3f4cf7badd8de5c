---------------------------- MODULE SocketHandlers ----------------------------
(***************************************************************************)
(* The socket handlers and the streams they are given to send:             *)
(* SocketEventHandlerImpl with its task queue, and the write paths of the  *)
(* TCP and of the UDP handler, called by the reactor once in each pass.    *)
(*                                                                         *)
(* A handler asks for writability only while its queue is empty (Accept),  *)
(* so that a stream that waits when a pass begins waits for ever; a UDP    *)
(* handler sends the one that another callback of the same pass gave it    *)
(* after select, and a TCP handler returns when its queue is not empty and *)
(* takes a task when it is, which is undefined.  No handler asks to read,  *)
(* and so OnRead is never called.                                          *)
(*                                                                         *)
(* Nothing in this commit calls PushTask and no UDP handler is made: the   *)
(* module says what the classes do when their thread uses them.  The       *)
(* containers of NetworkContext are abstracted to whether a handler is     *)
(* registered, removed during the pass, or deleted.                        *)
(***************************************************************************)
EXTENDS SocketOptions, Sequences, SequencesExt

CONSTANTS Sockets,     \* descriptors, each with its handler
          UDP,         \* the sockets whose handler is the UDP one; the others are TCP
          Configured,  \* bound: the sockets of which an option is set, once
          MaxStreams,  \* bound: streams pushed in a behaviour
          Blocks       \* bound: how often a stream fills the handler's buffer

ASSUME UDPAssumption == UDP \subseteq Sockets /\ Configured \subseteq Sockets
ASSUME BoundsAssumption == MaxStreams \in Nat /\ Blocks \in Nat \ {0}

VARIABLES options,   \* of each descriptor
          pushed,    \* how many streams were pushed; a stream is its number
          queue,     \* _queue of each handler
          sending,   \* the stream that each handler's unique_ptr holds, 0 if none
          left,      \* of the stream that is sent: what Read has still to give
          freed,     \* streams that were deleted
          corrupt,   \* a stream was deleted, or read, after its deletion
          wire,      \* <<stream, block>> for each send that the kernel took
          state,     \* of each handler: "registered", "removed" or "deleted"
          ready,     \* the handlers that select reported to be writable
          todo,      \* the handlers that the pass has still to call
          running,   \* the reactor is in a pass
          alive      \* the process has not been terminated

streamVars == <<pushed, queue, sending, left, freed, corrupt, wire>>
passVars == <<state, ready, todo, running>>
vars == <<options, streamVars, passVars, alive>>

Streams == 1..MaxStreams
NoStream == 0

Init == /\ options = [s \in Sockets |-> Default]
        /\ pushed = 0
        /\ queue = [s \in Sockets |-> <<>>]
        /\ sending = [s \in Sockets |-> NoStream]
        /\ left = 0
        /\ freed = {}
        /\ corrupt = FALSE
        /\ wire = [s \in Sockets |-> <<>>]
        /\ state = [s \in Sockets |-> "registered"]
        /\ ready = {}
        /\ todo = {}
        /\ running = FALSE
        /\ alive = TRUE

\* No handler is between two statements of Handle.
Quiet == alive /\ \A s \in Sockets : sending[s] = NoStream

Delete(streams) == /\ freed' = freed \cup streams
                   /\ corrupt' = (corrupt \/ streams \cap freed # {})

-----------------------------------------------------------------------------
\* Whoever made the socket sets an option before the reactor sees it.
Configure(s) == /\ s \in Configured /\ pushed = 0 /\ ~running /\ Quiet
                /\ options[s] = Default /\ state[s] = "registered"
                /\ \E new \in Set(Default) : options' = [options EXCEPT ![s] = new]
                /\ UNCHANGED <<streamVars, passVars, alive>>

\* PushTask, between passes or from what another handler's call leads to.
PushTask(s) == /\ Quiet /\ state[s] # "deleted" /\ pushed < MaxStreams
               /\ pushed' = pushed + 1
               /\ queue' = [queue EXCEPT ![s] = Append(@, pushed')]
               /\ UNCHANGED <<options, sending, left, freed, corrupt, wire,
                              passVars, alive>>

AcceptsWrite(s) == queue[s] = <<>>

\* The reactor asks every handler, waits in select and then calls them all.
BeginPass == /\ Quiet /\ ~running
             /\ LET registered == {s \in Sockets : state[s] = "registered"}
                IN  /\ registered # {}
                    /\ ready' \in SUBSET {s \in registered : AcceptsWrite(s)}
                    /\ todo' = registered
             /\ running' = TRUE
             /\ UNCHANGED <<options, streamVars, state, alive>>

\* Handle without anything to write: not ready, or the guard of either class.
HandleNothing(s) == /\ Quiet /\ s \in todo
                    /\ s \in ready => (queue[s] = <<>> <=> s \in UDP)
                    /\ todo' = todo \ {s}
                    /\ UNCHANGED <<options, streamVars, state, ready, running, alive>>

\* The UDP handler takes a task.
TakeTask(s) == /\ Quiet /\ s \in todo \cap ready \cap UDP /\ queue[s] # <<>>
               /\ sending' = [sending EXCEPT ![s] = Head(queue[s])]
               /\ queue' = [queue EXCEPT ![s] = Tail(@)]
               /\ left' = Blocks
               /\ UNCHANGED <<options, pushed, freed, corrupt, wire, passVars, alive>>

(* Mutant: the reader does not advance when the send failed half-way.      *)
SendBlockRepeats(s) == /\ alive /\ sending[s] # NoStream /\ left > 0
                       /\ left' \in {left, left - 1}
                       /\ wire' = [wire EXCEPT
                                     ![s] = Append(@, <<sending[s], Blocks - left + 1>>)]
                       /\ corrupt' = (corrupt \/ sending[s] \in freed)
                       /\ Len(wire'[s]) =< Blocks * MaxStreams
                       /\ UNCHANGED <<options, pushed, queue, sending, freed, passVars,
                                      alive>>

\* A buffer-full is read and sent.  An errno that OnError does not list makes
\* SendTo return 0, and the loop goes on: that buffer-full is lost.
SendBlock(s) == /\ alive /\ sending[s] # NoStream /\ left > 0
                /\ left' = left - 1
                /\ wire' \in {wire, [wire EXCEPT
                                ![s] = Append(@, <<sending[s], Blocks - left'>>)]}
                /\ corrupt' = (corrupt \/ sending[s] \in freed)
                /\ UNCHANGED <<options, pushed, queue, sending, freed, passVars, alive>>

\* Handle returns, and its unique_ptr deletes the stream.
EndTask(s) == /\ alive /\ sending[s] # NoStream /\ left = 0
              /\ Delete({sending[s]})
              /\ sending' = [sending EXCEPT ![s] = NoStream]
              /\ todo' = todo \ {s}
              /\ UNCHANGED <<options, pushed, queue, left, wire, state, ready,
                             running, alive>>

\* An IOException: the socket is shut down and the context told to remove the
\* handler, which the reactor does after the pass.  The stream is deleted.
SendFails(s) == /\ alive /\ sending[s] # NoStream /\ left > 0
                /\ left' = 0
                /\ Delete({sending[s]})
                /\ sending' = [sending EXCEPT ![s] = NoStream]
                /\ state' = [state EXCEPT ![s] = "removed"]
                /\ todo' = todo \ {s}
                /\ UNCHANGED <<options, pushed, queue, wire, ready, running, alive>>

\* Any other exception meets NOEXCEPT.
SendDies(s) == /\ alive /\ sending[s] # NoStream /\ left > 0
               /\ alive' = FALSE
               /\ UNCHANGED <<options, streamVars, passVars>>

\* The TCP handler reads the front of an empty list: it may get away with it,
\* meet an IOException in what it takes for a stream, or crash.
TakeFromEmpty(s) == /\ Quiet /\ s \in (todo \cap ready) \ UDP /\ queue[s] = <<>>
                    /\ todo' = todo \ {s}
                    /\ \/ UNCHANGED <<state, alive>>
                       \/ state' = [state EXCEPT ![s] = "removed"] /\ UNCHANGED alive
                       \/ alive' = FALSE /\ UNCHANGED state
                    /\ UNCHANGED <<options, streamVars, ready, running>>

\* The TCP handler connects first, until it has: an errno that becomes neither
\* an IOException nor a return meets NOEXCEPT.
ConnectDies(s) == /\ Quiet /\ s \in (todo \cap ready) \ UDP
                  /\ alive' = FALSE
                  /\ UNCHANGED <<options, streamVars, passVars>>

(* Mutant: the queue is destroyed and its streams are not.                 *)
DestroyForgets(handlers) ==
  /\ state' = [s \in Sockets |-> IF s \in handlers THEN "deleted" ELSE state[s]]
  /\ queue' = [s \in Sockets |-> IF s \in handlers THEN <<>> ELSE queue[s]]
  /\ UNCHANGED <<freed, corrupt>>

\* The destructors of the handlers, which delete what is still queued.
Destroy(handlers) ==
  /\ state' = [s \in Sockets |-> IF s \in handlers THEN "deleted" ELSE state[s]]
  /\ queue' = [s \in Sockets |-> IF s \in handlers THEN <<>> ELSE queue[s]]
  /\ Delete(UNION {ToSet(queue[s]) : s \in handlers})

(* Mutant: the removal is parked and never executed.                       *)
EndPassForgets == /\ Quiet /\ running /\ todo = {}
                  /\ ready' = {}
                  /\ running' = FALSE
                  /\ UNCHANGED <<options, streamVars, state, todo, alive>>

\* The reactor executes the parked removals.
EndPass == /\ Quiet /\ running /\ todo = {}
           /\ Destroy({s \in Sockets : state[s] = "removed"})
           /\ ready' = {}
           /\ running' = FALSE
           /\ UNCHANGED <<options, pushed, sending, left, wire, todo, alive>>

\* The connection is closed or replaced, between passes.
Close(s) == /\ Quiet /\ ~running /\ state[s] = "registered"
            /\ Destroy({s})
            /\ UNCHANGED <<options, pushed, sending, left, wire, ready, todo,
                           running, alive>>

Next == \E s \in Sockets :
          \/ Configure(s) \/ PushTask(s) \/ Close(s)
          \/ HandleNothing(s) \/ TakeTask(s) \/ SendBlock(s) \/ EndTask(s)
          \/ SendFails(s) \/ SendDies(s) \/ TakeFromEmpty(s) \/ ConnectDies(s)
          \/ BeginPass \/ EndPass

\* The steps of a pass that has begun: Handle and the reactor have no other exit.
PassStep == \E s \in Sockets : \/ HandleNothing(s) \/ TakeTask(s) \/ SendBlock(s)
                               \/ EndTask(s) \/ TakeFromEmpty(s) \/ EndPass

Spec == Init /\ [][Next]_vars /\ WF_vars(PassStep)

-----------------------------------------------------------------------------
TypeOK == /\ options \in [Sockets -> Options]
          /\ pushed \in 0..MaxStreams
          /\ queue \in [Sockets -> Seq(Streams)]
          /\ sending \in [Sockets -> Streams \cup {NoStream}]
          /\ left \in 0..Blocks
          /\ freed \subseteq Streams
          /\ corrupt \in BOOLEAN
          /\ wire \in [Sockets -> Seq(Streams \X (1..Blocks))]
          /\ state \in [Sockets -> {"registered", "removed", "deleted"}]
          /\ ready \subseteq Sockets /\ todo \subseteq Sockets
          /\ running \in BOOLEAN /\ alive \in BOOLEAN

Queued(s) == ToSet(queue[s])
InHand(s) == {sending[s]} \ {NoStream}

(***************************************************************************)
(* Each stream that was pushed has one owner - a queue, in one place, or   *)
(* the handler that is sending it - until it is deleted, once: whatever    *)
(* fails, is removed or is closed, no stream is lost and none is deleted   *)
(* twice.                                                                  *)
(***************************************************************************)
OneOwner ==
  /\ TypeOK
  /\ ~corrupt
  /\ 1..pushed = freed \cup UNION {Queued(s) \cup InHand(s) : s \in Sockets}
  /\ \A s \in Sockets :
       /\ IsInjective(queue[s])
       /\ Queued(s) \cap InHand(s) = {}
       /\ (Queued(s) \cup InHand(s)) \cap freed = {}
       /\ \A t \in Sockets \ {s} :
            (Queued(s) \cup InHand(s)) \cap (Queued(t) \cup InHand(t)) = {}

Before(a, b) == \/ a[1] < b[1]
                \/ a[1] = b[1] /\ a[2] < b[2]

(***************************************************************************)
(* What a handler gives to the kernel is in the order in which the streams *)
(* were pushed and read, and nothing is given twice.                       *)
(***************************************************************************)
SentInOrder ==
  \A s \in Sockets : \A i, j \in 1..Len(wire[s]) :
    i < j => Before(wire[s][i], wire[s][j])

\* The next call of a setter does what it says (InForce in SocketOptions).
OptionsInForce == \A s \in Sockets : InForce(options[s])

(***************************************************************************)
(* A handler that failed gets rid of what it was given: after the pass its *)
(* queue is empty and its streams are deleted, unless the process ended.   *)
(***************************************************************************)
FailedLetsGo ==
  \A s \in Sockets : (state[s] = "removed") ~> (queue[s] = <<>> \/ ~alive)
=============================================================================
