---------------------------- MODULE NetworkStatus ----------------------------
(***************************************************************************)
(* Who waits for what happens to a connection: the NetworkStatus of each   *)
(* connection id with its waitables, the handlers of ConnectedEvent and    *)
(* DisconnectedEvent that signal, delete and close, and the numbers by     *)
(* which the event classes are told apart, which static initialisers draw  *)
(* from Event::RegisterType before main.  Everything else runs on the      *)
(* network thread: CoreManager's notifications are synchronous.            *)
(*                                                                         *)
(* Nothing in this commit creates a NetworkStatus or calls CoreManager;    *)
(* whoever does is modelled by the comments on the fields of NetworkStatus *)
(* and may reuse an id while an old status is still there.  A waitable     *)
(* does not call back into the status that signals it.                     *)
(***************************************************************************)
EXTENDS Integers, Sequences, SequencesExt, FiniteSetsExt

CONSTANTS Ids,       \* connection ids
          Waiters,   \* bound: the waitables that are ever made
          Null,      \* a null pointer
          EventTypes \* how many values an EventType has

ASSUME NullAssumption == Null \notin Waiters
\* A number for each class and for the null event; the code has 2^16.
ASSUME EventTypesAssumption == EventTypes \in Nat /\ EventTypes > 5

VARIABLES unregistered, \* the event classes whose Type is still to be initialised
          types,        \* the Type of each class, 0 before that
          status,       \* _status: what is waited for, by connection id
          connections,  \* the ids that the context knows
          deleted,      \* waitables that were deleted
          misused,      \* one was called or deleted after its deletion
          heard,        \* history: what each waitable was told
          event         \* history: the class of the event of the last step, or Null

waiterVars == <<status, connections, deleted, misused, heard>>
statusVars == <<unregistered, types, waiterVars, event>>

\* The static initialisers of two translation units: the order within each is
\* that of the source, the order between them is not specified.
NetworkMessages == <<"ReceiveResponse", "Connected", "SentRequest", "Disconnected">>
ExceptionEvents == <<"Exception">>
Classes == ToSet(NetworkMessages \o ExceptionEvents)

Signals == {"connected", "connect error", "aborted", "disconnected"}

NoStatus == [ exists |-> FALSE, connecting |-> Null, disconnecting |-> Null,
              sending |-> {}, reading |-> {} ]

Statuses == [ exists : BOOLEAN, connecting : Waiters \cup {Null},
              disconnecting : Waiters \cup {Null},
              sending : SUBSET Waiters, reading : SUBSET Waiters ]

StatusInit == /\ unregistered \in {NetworkMessages \o ExceptionEvents,
                                   ExceptionEvents \o NetworkMessages}
              /\ types = [c \in Classes |-> 0]
              /\ status = [id \in Ids |-> NoStatus]
              /\ connections = {}
              /\ deleted = {}
              /\ misused = FALSE
              /\ heard = [w \in Waiters |-> {}]
              /\ event = Null

-----------------------------------------------------------------------------
NullEvent == 0
RegisteredTypes == {NullEvent} \cup {types[c] : c \in Classes}

(* Mutant: the largest number itself, not the one after it.                *)
RegisterTypeAgain(c) == types' = [types EXCEPT ![c] = Max(RegisteredTypes) % EventTypes]

\* One more than the largest, in the width of an EventType.
RegisterType(c) == types' = [types EXCEPT ![c] = (Max(RegisteredTypes) + 1) % EventTypes]

Initialise == /\ unregistered # <<>>
              /\ RegisterType(Head(unregistered))
              /\ unregistered' = Tail(unregistered)
              /\ UNCHANGED <<waiterVars, event>>

Running == unregistered = <<>>

-----------------------------------------------------------------------------
\* Whoever waits.  A pending connect forbids sending and reading, a pending
\* disconnect everything else.
Placed(s) == ({s.connecting, s.disconnecting} \ {Null}) \cup s.sending \cup s.reading
AllPlaced == UNION {Placed(status[id]) : id \in Ids}
Fresh == Waiters \ (deleted \cup AllPlaced)

CreateConnection(id) == /\ Running
                        /\ connections' = connections \cup {id}
                        /\ event' = Null
                        /\ UNCHANGED <<unregistered, types, status, deleted, misused, heard>>

\* The handler of the connection fails, and removes it from the context.
LoseConnection(id) == /\ Running
                      /\ connections' = connections \ {id}
                      /\ event' = Null
                      /\ UNCHANGED <<unregistered, types, status, deleted, misused, heard>>

Watch(id) ==
  /\ Running
  /\ LET s == status[id]
         wait == [s EXCEPT !.exists = TRUE]
     IN  /\ s.disconnecting = Null
         /\ \E w \in Fresh : status' \in
              {[status EXCEPT ![id] = new] : new \in
                {[wait EXCEPT !.disconnecting = w]}
                  \cup (IF s.connecting = Null
                        THEN {[wait EXCEPT !.connecting = w],
                              [wait EXCEPT !.sending = @ \cup {w}],
                              [wait EXCEPT !.reading = @ \cup {w}]}
                        ELSE {})}
  /\ event' = Null
  /\ UNCHANGED <<unregistered, types, connections, deleted, misused, heard>>

-----------------------------------------------------------------------------
Use(waiters) == misused' = (misused \/ waiters \cap deleted # {})
Delete(waiters) == deleted' = deleted \cup waiters
Tell(waiters, signal) == [w \in Waiters |-> IF w \in waiters THEN {signal} ELSE {}]
Heard(told) == heard' = [w \in Waiters |-> heard[w] \cup told[w]]

(* Mutant: the pointer is left behind.                                     *)
ConnectedKeeps(id) ==
  LET told == {status[id].connecting} \ {Null}
  IN  /\ Use(told)
      /\ Heard(Tell(told, "connected"))
      /\ Delete(told)
      /\ UNCHANGED <<connections, status>>

\* The handler of ConnectedEvent.
Connected(id) ==
  LET told == {status[id].connecting} \ {Null}
  IN  /\ Use(told)
      /\ Heard(Tell(told, "connected"))
      /\ Delete(told)
      /\ status' = [status EXCEPT ![id].connecting = Null]
      /\ UNCHANGED connections

(* Mutant: the status goes and the context is not told.                    *)
CloseKeepsConnection(id) == /\ Delete(Placed(status[id]))
                            /\ status' = [status EXCEPT ![id] = NoStatus]
                            /\ UNCHANGED connections

\* PrivateData::Close, with the destructor of NetworkStatus.
Close(id) == /\ Delete(Placed(status[id]))
             /\ status' = [status EXCEPT ![id] = NoStatus]
             /\ connections' = connections \ {id}

\* The handler of DisconnectedEvent.  A connect that failed is told so and goes
\* on waiting, as do the readers and the senders, whose send or read was aborted.
Disconnected(id) ==
  LET s == status[id]
      failed == {s.connecting} \ {Null}
      aborted == IF failed = {} THEN s.reading \cup s.sending ELSE {}
      last == {s.disconnecting} \ {Null}
      told == [w \in Waiters |-> Tell(failed, "connect error")[w]
                                   \cup Tell(aborted, "aborted")[w]
                                   \cup Tell(last, "disconnected")[w]]
  IN  /\ Use(failed \cup aborted \cup last)
      /\ Heard(told)
      /\ IF last = {} THEN UNCHANGED <<status, connections, deleted>> ELSE Close(id)

\* NotifyConnected and NotifyDisconnected, and the dispatch of their event, or
\* of one of another class: a handler is called, and event_cast succeeds, when
\* the numbers agree.
Notify(c, id) ==
  LET handled == {h \in {"Connected", "Disconnected"} : types[h] = types[c]}
  IN  /\ Running
      /\ event' = c
      /\ \/ "Connected" \in handled /\ status[id].exists /\ Connected(id)
         \/ "Disconnected" \in handled /\ status[id].exists /\ Disconnected(id)
         \/ (handled = {} \/ ~status[id].exists) /\ UNCHANGED waiterVars
      /\ UNCHANGED <<unregistered, types>>

StatusNext == \/ Initialise
              \/ \E id \in Ids :
                   \/ CreateConnection(id) \/ LoseConnection(id) \/ Watch(id)
                   \/ \E c \in Classes : Notify(c, id)

StatusSpec == StatusInit /\ [][StatusNext]_statusVars

-----------------------------------------------------------------------------
StatusTypeOK == /\ ToSet(unregistered) \subseteq Classes
                /\ types \in [Classes -> 0 .. EventTypes - 1]
                /\ status \in [Ids -> Statuses]
                /\ connections \subseteq Ids
                /\ deleted \subseteq Waiters
                /\ misused \in BOOLEAN
                /\ heard \in [Waiters -> SUBSET Signals]
                /\ event \in Classes \cup {Null}

(***************************************************************************)
(* No waitable is called or deleted after its deletion, each one waits in  *)
(* one place until it is deleted, and those that were told that they are   *)
(* connected or disconnected have been: that is the last they hear         *)
(* (HandleEvent and the destructor of NetworkStatus).                      *)
(***************************************************************************)
WaitersSafe ==
  /\ StatusTypeOK
  /\ ~misused
  /\ AllPlaced \cap deleted = {}
  /\ \A id, other \in Ids :
       id # other => Placed(status[id]) \cap Placed(status[other]) = {}
  /\ \A id \in Ids : LET s == status[id] IN
       /\ s.sending \cap s.reading = {}
       /\ {s.connecting, s.disconnecting} \cap (s.sending \cup s.reading) = {}
       /\ s.connecting = s.disconnecting => s.connecting = Null
  /\ \A w \in Waiters : /\ heard[w] # {} => w \in AllPlaced \cup deleted
                        /\ heard[w] \cap {"connected", "disconnected"} # {} => w \in deleted

New(w) == heard'[w] \ heard[w]

(***************************************************************************)
(* A waitable is told what happened: only a ConnectedEvent makes it hear   *)
(* that the connection is there, and only a DisconnectedEvent anything     *)
(* else, as long as every class of events has a number of its own.         *)
(***************************************************************************)
ToldTheTruth ==
  [][\A w \in Waiters : /\ "connected" \in New(w) => event' = "Connected"
                        /\ New(w) \ {"connected"} # {} => event' = "Disconnected"]_statusVars

(***************************************************************************)
(* The status of a connection goes when its disconnection was asked for    *)
(* and is announced, and takes all its waitables and the connection with   *)
(* it; a connection that the context loses by itself keeps its status.     *)
(***************************************************************************)
ClosedTogether ==
  [][\A id \in Ids : status[id].exists /\ ~status'[id].exists =>
       /\ status[id].disconnecting # Null
       /\ "disconnected" \in heard'[status[id].disconnecting]
       /\ Placed(status[id]) \subseteq deleted'
       /\ id \notin connections']_statusVars
=============================================================================
