------------------------- MODULE SocketHandlersProofs -------------------------
(***************************************************************************)
(* The socket handlers, for any sockets of either kind, any number of      *)
(* streams and any size of theirs: each stream has one owner and is        *)
(* deleted once, what the kernel is given is in order, and the setters and *)
(* getters of the options agree.                                           *)
(*                                                                         *)
(* The argument: streams are numbered as they are pushed, so that each     *)
(* queue increases; the stream a handler sends is older than its queue,    *)
(* and what it has sent is older than both, or an earlier part of the      *)
(* stream it is sending.                                                   *)
(***************************************************************************)
EXTENDS SocketHandlers, TLAPS

(* What the handler of s has to delete.                                    *)
Held(s) == Queued(s) \cup InHand(s)

Ownership == /\ 1..pushed = freed \cup UNION { Held(s) : s \in Sockets }
             /\ \A s \in Sockets : Held(s) \cap freed = {}
             /\ \A s, t \in Sockets : s # t => Held(s) \cap Held(t) = {}

Increasing(q) == \A i, j \in 1..Len(q) : i < j => q[i] < q[j]

(* What was sent of s is older than its queue, and no later than what it   *)
(* is sending.                                                             *)
SentEarlier(s) ==
  \A k \in 1..Len(wire[s]) :
    /\ wire[s][k][1] <= pushed
    /\ \A i \in 1..Len(queue[s]) : wire[s][k][1] < queue[s][i]
    /\ sending[s] # NoStream =>
          \/ wire[s][k][1] < sending[s]
          \/ wire[s][k][1] = sending[s] /\ wire[s][k][2] <= Blocks - left

Order == \A s \in Sockets :
           /\ Increasing(queue[s])
           /\ \A i \in 1..Len(queue[s]) : sending[s] < queue[s][i]
           /\ SentEarlier(s)

Ind == /\ TypeOK
       /\ ~corrupt
       /\ Ownership
       /\ Order
       /\ SentInOrder

-----------------------------------------------------------------------------
(* Sequences.                                                              *)

LEMMA ToSetAppend ==
  ASSUME NEW S, NEW q \in Seq(S), NEW x \in S
  PROVE  ToSet(Append(q, x)) = ToSet(q) \cup {x}
<1> DEFINE a == Append(q, x)
<1>1. /\ DOMAIN q = 1..Len(q) /\ Len(q) \in Nat
      /\ DOMAIN a = 1..(Len(q) + 1)
      /\ \A i \in 1..Len(q) : a[i] = q[i]
      /\ a[Len(q) + 1] = x
  OBVIOUS
<1> HIDE DEF a
<1>2. 1..(Len(q) + 1) = 1..Len(q) \cup {Len(q) + 1}
  BY <1>1
<1>3. ToSet(a) = { a[i] : i \in 1..Len(q) } \cup {a[Len(q) + 1]}
  BY <1>1, <1>2 DEF ToSet
<1>4. { a[i] : i \in 1..Len(q) } = ToSet(q)
  BY <1>1 DEF ToSet
<1>. QED  BY <1>1, <1>3, <1>4 DEF a

LEMMA ToSetHeadTail ==
  ASSUME NEW S, NEW q \in Seq(S), q # <<>>
  PROVE  /\ Head(q) \in S /\ Tail(q) \in Seq(S)
         /\ Head(q) = q[1]
         /\ Len(q) \in Nat \ {0} /\ Len(Tail(q)) = Len(q) - 1
         /\ \A i \in 1..(Len(q) - 1) : Tail(q)[i] = q[i + 1]
         /\ ToSet(q) = {Head(q)} \cup ToSet(Tail(q))
<1>1. /\ Head(q) \in S /\ Tail(q) \in Seq(S)
      /\ Head(q) = q[1]
      /\ Len(q) \in Nat \ {0} /\ Len(Tail(q)) = Len(q) - 1
      /\ \A i \in 1..(Len(q) - 1) : Tail(q)[i] = q[i + 1]
      /\ DOMAIN q = 1..Len(q) /\ DOMAIN Tail(q) = 1..(Len(q) - 1)
  OBVIOUS
<1>2. ASSUME NEW i \in 1..Len(q)
      PROVE  q[i] \in {Head(q)} \cup ToSet(Tail(q))
  <2>1. i = 1 \/ (i - 1 \in 1..(Len(q) - 1) /\ Tail(q)[i - 1] = q[i])
    BY <1>1
  <2>. QED  BY <1>1, <2>1 DEF ToSet
<1>3. ASSUME NEW i \in 1..(Len(q) - 1)
      PROVE  Tail(q)[i] \in ToSet(q)
  <2>1. i + 1 \in 1..Len(q) /\ Tail(q)[i] = q[i + 1]
    BY <1>1
  <2>. QED  BY <1>1, <2>1 DEF ToSet
<1>4. Head(q) \in ToSet(q)
  BY <1>1 DEF ToSet
<1>. QED  BY <1>1, <1>2, <1>3, <1>4 DEF ToSet

LEMMA IncreasingInjective ==
  ASSUME NEW S, NEW q \in Seq(S), Increasing(q),
         \A i \in 1..Len(q) : q[i] \in Nat
  PROVE  IsInjective(q)
<1>1. DOMAIN q = 1..Len(q) /\ Len(q) \in Nat
  OBVIOUS
<1>2. ASSUME NEW i \in 1..Len(q), NEW j \in 1..Len(q), q[i] = q[j], i # j
      PROVE  FALSE
  <2>1. i < j \/ j < i
    BY <1>1, <1>2
  <2>2. q[i] \in Nat /\ q[j] \in Nat
    BY <1>1
  <2>. QED  BY <1>2, <2>1, <2>2 DEF Increasing
<1>. QED  BY <1>1, <1>2 DEF IsInjective

LEMMA StreamTypes ==
  ASSUME TypeOK, NEW s \in Sockets
  PROVE  /\ queue[s] \in Seq(Streams)
         /\ wire[s] \in Seq(Streams \X (1..Blocks))
         /\ Len(queue[s]) \in Nat /\ Len(wire[s]) \in Nat
         /\ \A i \in 1..Len(queue[s]) : queue[s][i] \in Nat \ {0}
         /\ \A k \in 1..Len(wire[s]) : wire[s][k][1] \in Nat \ {0} /\ wire[s][k][2] \in Nat
         /\ sending[s] \in Nat /\ pushed \in Nat /\ left \in Nat
         /\ MaxStreams \in Nat /\ Blocks \in Nat
<1>1. /\ queue[s] \in Seq(Streams) /\ wire[s] \in Seq(Streams \X (1..Blocks))
      /\ MaxStreams \in Nat /\ Blocks \in Nat
  BY BoundsAssumption DEF TypeOK
<1>2. \A k \in 1..Len(wire[s]) : wire[s][k] \in Streams \X (1..Blocks)
  BY <1>1
<1>3. \A i \in 1..Len(queue[s]) : queue[s][i] \in Streams
  BY <1>1
<1>4. sending[s] \in Nat
  <2>1. sending[s] \in Streams \/ sending[s] = NoStream
    BY DEF TypeOK
  <2>2. CASE sending[s] \in Streams
    BY <1>1, <2>2 DEF Streams
  <2>3. CASE sending[s] = NoStream
    BY <2>3 DEF NoStream
  <2>. QED  BY <2>1, <2>2, <2>3
<1>5. pushed \in Nat /\ left \in Nat
  BY <1>1 DEF TypeOK
<1>6. ASSUME NEW k \in 1..Len(wire[s])
      PROVE  wire[s][k][1] \in Nat \ {0} /\ wire[s][k][2] \in Nat
  <2>1. wire[s][k] \in Streams \X (1..Blocks)
    BY <1>2
  <2>2. wire[s][k][1] \in Streams /\ wire[s][k][2] \in 1..Blocks
    BY <2>1
  <2>3. Streams \subseteq Nat \ {0} /\ 1..Blocks \subseteq Nat
    BY <1>1 DEF Streams
  <2>. QED  BY <2>2, <2>3
<1>7. Len(queue[s]) \in Nat /\ Len(wire[s]) \in Nat
  BY <1>1
<1>8. ASSUME NEW i \in 1..Len(queue[s]) PROVE queue[s][i] \in Nat \ {0}
  BY <1>1, <1>3 DEF Streams
<1>. QED  BY <1>1, <1>4, <1>5, <1>6, <1>7, <1>8

-----------------------------------------------------------------------------
(* Whose the streams are.                                                  *)

(* Streams pass between the queue and the hand of one handler, or some of  *)
(* those that are held are deleted.                                        *)
LEMMA Released ==
  ASSUME Ownership, NEW gone, pushed' = pushed, freed' = freed \cup gone,
         gone \subseteq UNION { Held(s) : s \in Sockets },
         \A s \in Sockets : Held(s)' = Held(s) \ gone
  PROVE  Ownership'
<1> DEFINE all == UNION { Held(s) : s \in Sockets }
<1>1. (UNION { Held(s) : s \in Sockets })' = all \ gone
  OBVIOUS
<1>2. 1..pushed = freed \cup all
  BY DEF Ownership
<1>3. (1..pushed)' = (freed \cup UNION { Held(s) : s \in Sockets })'
  <2>1. freed \cup all = (freed \cup gone) \cup (all \ gone)
    OBVIOUS
  <2> HIDE DEF all
  <2>. QED  BY <1>1, <1>2, <2>1
<1>4. \A s \in Sockets : Held(s)' \cap freed' = {}
  BY DEF Ownership
<1>5. \A s, t \in Sockets : s # t => Held(s)' \cap Held(t)' = {}
  BY DEF Ownership
<1>. QED  BY <1>3, <1>4, <1>5 DEF Ownership

(* A stream that is new is held by one.                                    *)
LEMMA Received ==
  ASSUME Ownership, NEW r \in Sockets, pushed \in Nat, pushed' = pushed + 1, freed' = freed,
         \A s \in Sockets : Held(s)' = IF s = r THEN Held(s) \cup {pushed'} ELSE Held(s)
  PROVE  Ownership'
<1>1. /\ 1..pushed = freed \cup UNION { Held(s) : s \in Sockets }
      /\ 1..pushed' = 1..pushed \cup {pushed'}
      /\ pushed' \notin 1..pushed
  BY DEF Ownership
<1>2. pushed' \notin freed /\ \A s \in Sockets : pushed' \notin Held(s)
  BY <1>1
<1>3. (UNION { Held(s) : s \in Sockets })' = {pushed'} \cup UNION { Held(s) : s \in Sockets }
  OBVIOUS
<1>4. (1..pushed)' = (freed \cup UNION { Held(s) : s \in Sockets })'
  BY <1>1, <1>3
<1>5. \A s \in Sockets : Held(s)' \cap freed' = {}
  BY <1>2 DEF Ownership
<1>6. \A s, t \in Sockets : s # t => Held(s)' \cap Held(t)' = {}
  BY <1>2 DEF Ownership
<1>. QED  BY <1>4, <1>5, <1>6 DEF Ownership

-----------------------------------------------------------------------------
(* In which order they are.                                                *)

(* A queue may be emptied and a hand may let go.                           *)
LEMMA LettingGoKeepsOrder ==
  ASSUME TypeOK, Order, TypeOK', pushed' = pushed, left' <= left, wire' = wire,
         \A s \in Sockets : /\ queue'[s] = queue[s] \/ queue'[s] = <<>>
                            /\ sending'[s] = sending[s] \/ sending'[s] = NoStream
  PROVE  Order'
<1> SUFFICES ASSUME NEW s \in Sockets
             PROVE  /\ Increasing(queue'[s])
                    /\ \A i \in 1..Len(queue'[s]) : sending'[s] < queue'[s][i]
                    /\ SentEarlier(s)'
  BY DEF Order
<1>1. /\ Increasing(queue[s])
      /\ \A i \in 1..Len(queue[s]) : queue[s][i] \in Nat \ {0} /\ sending[s] < queue[s][i]
      /\ SentEarlier(s)
      /\ left \in Nat /\ left' \in Nat /\ Blocks \in Nat /\ sending[s] \in Nat
      /\ \A k \in 1..Len(wire[s]) : wire[s][k][1] \in Nat /\ wire[s][k][2] \in Nat
  <2>1. left' \in Nat
    BY BoundsAssumption DEF TypeOK
  <2>. QED  BY <2>1, StreamTypes DEF Order
<1>2. \A i \in 1..Len(queue'[s]) : i \in 1..Len(queue[s]) /\ queue'[s] = queue[s]
  OBVIOUS
<1>3. Increasing(queue'[s])
  BY <1>1, <1>2 DEF Increasing
<1>4. \A i \in 1..Len(queue'[s]) : sending'[s] < queue'[s][i]
  BY <1>1, <1>2 DEF NoStream
<1>5. SentEarlier(s)'
  <2> SUFFICES ASSUME NEW k \in 1..Len(wire[s])
               PROVE  /\ wire[s][k][1] <= pushed
                      /\ \A i \in 1..Len(queue'[s]) : wire[s][k][1] < queue'[s][i]
                      /\ sending'[s] # NoStream =>
                            \/ wire[s][k][1] < sending'[s]
                            \/ wire[s][k][1] = sending'[s] /\ wire[s][k][2] <= Blocks - left'
    BY DEF SentEarlier
  <2>1. /\ wire[s][k][1] <= pushed
        /\ \A i \in 1..Len(queue[s]) : wire[s][k][1] < queue[s][i]
        /\ sending[s] # NoStream =>
              \/ wire[s][k][1] < sending[s]
              \/ wire[s][k][1] = sending[s] /\ wire[s][k][2] <= Blocks - left
    BY <1>1 DEF SentEarlier
  <2>2. wire[s][k][2] <= Blocks - left => wire[s][k][2] <= Blocks - left'
    <3>1. \A n, all, l, m \in Int : n <= all - l /\ m <= l => n <= all - m
      BY SMT
    <3>2. wire[s][k][2] \in Int /\ Blocks \in Int /\ left \in Int /\ left' \in Int
      BY <1>1
    <3>. QED  BY <3>1, <3>2
  <2>3. \A i \in 1..Len(queue'[s]) : wire[s][k][1] < queue'[s][i]
    BY <1>2, <2>1
  <2>4. sending'[s] # NoStream => sending'[s] = sending[s]
    OBVIOUS
  <2>. QED  BY <2>1, <2>2, <2>3, <2>4
<1>. QED  BY <1>3, <1>4, <1>5

-----------------------------------------------------------------------------
(* The steps.                                                              *)

(* What each kind of timeval makes of SO_SNDTIMEO.                         *)
LEMMA SndTimeoCases ==
  ASSUME NEW old \in Int, NEW sec \in Int, NEW usec \in Int
  PROVE  /\ usec < 0 \/ usec > 999999 => SndTimeo(old, sec, usec) = old
         /\ usec >= 0 /\ usec <= 999999 /\ sec < 0 => SndTimeo(old, sec, usec) = 0
         /\ usec = 0 /\ sec = 0 => SndTimeo(old, sec, usec) = Forever
         /\ usec >= 0 /\ usec <= 999999 /\ sec >= 0 /\ usec + sec > 0 =>
              SndTimeo(old, sec, usec)
                = sec * Ticks + (usec + 1000 * Jiffy - 1) \div (1000 * Jiffy)
BY SMT DEF SndTimeo

LEMMA SndTimeoType ==
  ASSUME NEW old \in Int, NEW sec \in Int, NEW usec \in Int
  PROVE  SndTimeo(old, sec, usec) \in Int
<1>1. Ticks \in Int /\ Jiffy \in Int /\ Jiffy > 0
  BY JiffyAssumption, SMT DEF Ticks
<1>2. sec * Ticks + (usec + 1000 * Jiffy - 1) \div (1000 * Jiffy) \in Int
  BY <1>1, SMT
<1>3. Forever \in Int
  BY DEF Forever
<1>. QED  BY <1>2, <1>3, SndTimeoCases, SMT

LEMMA SetSendTimeoutType ==
  ASSUME NEW old \in Options, NEW ms \in Int
  PROVE  SetSendTimeout(old, ms) \in Options
<1> DEFINE new == SndTimeo(old.timeout, Quotient(ms, 1000), Remainder(ms, 1000) * 1000)
<1>1. Quotient(ms, 1000) \in Int /\ Remainder(ms, 1000) * 1000 \in Int
  BY SMT DEF Quotient, Remainder
<1>2. old.timeout \in Int
  BY SMT DEF Options
<1>3. new \in Int
  <2>1. \A sec, usec \in Int : SndTimeo(old.timeout, sec, usec) \in Int
    BY <1>2, SndTimeoType
  <2>. QED  BY <1>1, <2>1
<1>4. SetSendTimeout(old, ms) = IF ms > IntMax THEN old ELSE [old EXCEPT !.timeout = new]
  BY SMT DEF SetSendTimeout
<1> HIDE DEF new
<1>. QED  BY <1>3, <1>4, SMT DEF Options

LEMMA SetTypes == Set(Default) \subseteq Options
<1>1. Default \in Options
  BY DEF Default, Options, Forever
<1>2. ASSUME NEW old \in Options, NEW on \in BOOLEAN, NEW seconds \in Int
      PROVE  SetLinger(old, on, seconds) \in Options
  <2>1. NarrowToInt(seconds) \in Int
    BY IntMaxAssumption, SMT DEF NarrowToInt
  <2>2. \A kept \in Int : [old EXCEPT !.lingers = on, !.linger = kept] \in Options
    BY Zenon DEF Options
  <2>3. (IF on THEN NarrowToInt(seconds) ELSE old.linger) \in Int
    BY <2>1, SMT DEF Options
  <2>. QED  BY <2>2, <2>3, Zenon DEF SetLinger
<1>3. ASSUME NEW old \in Options, NEW f \in Flags, NEW enabled \in BOOLEAN
      PROVE  SetFlag(old, f, enabled) \in Options
  BY SMT DEF SetFlag, Options
<1>. QED  BY <1>1, <1>2, <1>3, SetSendTimeoutType, DurationsAssumption, SMT
          DEF Set, SetNonBlocking

(* Steps that do nothing to the streams.                                   *)
LEMMA NoStreamStep ==
  ASSUME Ind, NEW s \in Sockets,
         \/ Configure(s) \/ BeginPass \/ HandleNothing(s) \/ SendDies(s)
         \/ TakeFromEmpty(s) \/ ConnectDies(s) \/ UNCHANGED vars
  PROVE  UNCHANGED streamVars /\ TypeOK'
<1>1. UNCHANGED streamVars
  BY DEF Configure, BeginPass, HandleNothing, SendDies, TakeFromEmpty, ConnectDies, vars
<1>2. /\ options' \in [Sockets -> Options]
      /\ state' \in [Sockets -> {"registered", "removed", "deleted"}]
      /\ ready' \subseteq Sockets /\ todo' \subseteq Sockets
      /\ running' \in BOOLEAN /\ alive' \in BOOLEAN
  <2>1. CASE Configure(s)
    <3>1. PICK new \in Set(Default) : options' = [options EXCEPT ![s] = new]
      BY <2>1 DEF Configure
    <3>. QED  BY <2>1, <3>1, SetTypes DEF Configure, Ind, TypeOK, passVars
  <2>2. CASE BeginPass
    BY <2>2 DEF BeginPass, Ind, TypeOK
  <2>3. CASE HandleNothing(s)
    BY <2>3 DEF HandleNothing, Ind, TypeOK
  <2>4. CASE SendDies(s) \/ ConnectDies(s) \/ UNCHANGED vars
    BY <2>4 DEF SendDies, ConnectDies, vars, passVars, Ind, TypeOK
  <2>5. CASE TakeFromEmpty(s)
    BY <2>5 DEF TakeFromEmpty, Ind, TypeOK
  <2>. QED  BY <2>1, <2>2, <2>3, <2>4, <2>5
<1>. QED  BY <1>1, <1>2 DEF Ind, TypeOK, streamVars

LEMMA NoStreamStepKeeps ==
  ASSUME Ind, TypeOK', UNCHANGED streamVars
  PROVE  Ind'
<1>1. UNCHANGED <<pushed, queue, sending, left, freed, corrupt, wire>>
  BY DEF streamVars
<1>2. Ownership'
  <2>1. \A s \in Sockets : Held(s)' = Held(s) \ {}
    BY <1>1 DEF Held, Queued, InHand
  <2>2. pushed' = pushed /\ freed' = freed \cup {}
        /\ {} \subseteq UNION { Held(s) : s \in Sockets }
    BY <1>1
  <2>. QED  BY <2>1, <2>2, Released DEF Ind
<1>3. left' <= left
  BY <1>1, BoundsAssumption DEF Ind, TypeOK
<1>4. Order'
  BY <1>1, <1>3, LettingGoKeepsOrder DEF Ind
<1>. QED  BY <1>1, <1>2, <1>4 DEF Ind, SentInOrder

LEMMA PushTaskKeeps ==
  ASSUME Ind, NEW s \in Sockets, PushTask(s)
  PROVE  Ind'
<1>1. /\ pushed < MaxStreams /\ pushed' = pushed + 1
      /\ queue' = [queue EXCEPT ![s] = Append(@, pushed')]
      /\ UNCHANGED <<options, sending, left, freed, corrupt, wire, passVars, alive>>
      /\ \A t \in Sockets : sending[t] = NoStream
  BY DEF PushTask, Quiet
<1>2. /\ pushed \in Nat /\ pushed' \in Streams /\ pushed' \in 0..MaxStreams /\ pushed' # 0
      /\ MaxStreams \in Nat
  BY <1>1, BoundsAssumption DEF Ind, TypeOK, Streams
<1>3. queue \in [Sockets -> Seq(Streams)]
  BY DEF Ind, TypeOK
<1>4. TypeOK'
  <2>1. queue' \in [Sockets -> Seq(Streams)]
    BY <1>1, <1>2, <1>3
  <2>. QED  BY <1>1, <1>2, <2>1 DEF Ind, TypeOK, passVars
<1>5. /\ queue'[s] = Append(queue[s], pushed')
      /\ \A t \in Sockets \ {s} : queue'[t] = queue[t]
  BY <1>1, <1>3
<1>6. Ownership'
  <2>1. Queued(s)' = Queued(s) \cup {pushed'}
    BY <1>2, <1>3, <1>5, ToSetAppend DEF Queued
  <2>2. ASSUME NEW t \in Sockets
        PROVE  Held(t)' = IF t = s THEN Held(t) \cup {pushed'} ELSE Held(t)
    <3>1. InHand(t)' = InHand(t)
      BY <1>1 DEF InHand
    <3>2. t # s => Queued(t)' = Queued(t)
      BY <1>5 DEF Queued
    <3>. QED  BY <2>1, <3>1, <3>2 DEF Held
  <2>. QED  BY <1>1, <1>2, <2>2, Received DEF Ind
<1>7. ASSUME NEW t \in Sockets
      PROVE  /\ Increasing(queue'[t])
             /\ \A i \in 1..Len(queue'[t]) : sending'[t] < queue'[t][i]
             /\ SentEarlier(t)'
  <2>1. /\ Increasing(queue[t])
        /\ \A i \in 1..Len(queue[t]) : queue[t][i] \in Nat \ {0} /\ queue[t][i] <= pushed
        /\ \A k \in 1..Len(wire[t]) : /\ wire[t][k][1] \in Nat
                                      /\ wire[t][k][1] <= pushed
                                      /\ \A i \in 1..Len(queue[t]) : wire[t][k][1] < queue[t][i]
        /\ Len(queue[t]) \in Nat
    <3>1. \A i \in 1..Len(queue[t]) : queue[t][i] \in Held(t)
      BY <1>3 DEF Held, Queued, ToSet
    <3>2. \A x \in Held(t) : x \in 1..pushed
      BY DEF Ind, Ownership
    <3>. QED  BY <3>1, <3>2, StreamTypes DEF Ind, Order, SentEarlier
  <2>2. /\ sending'[t] = 0 /\ wire' = wire /\ pushed' = pushed + 1
        /\ \/ queue'[t] = queue[t]
           \/ /\ Len(queue'[t]) = Len(queue[t]) + 1
              /\ queue'[t][Len(queue[t]) + 1] = pushed'
              /\ \A i \in 1..Len(queue[t]) : queue'[t][i] = queue[t][i]
    BY <1>1, <1>2, <1>3, <1>5 DEF NoStream
  <2>3. \A i \in 1..Len(queue'[t]) :
          \/ i \in 1..Len(queue[t]) /\ queue'[t][i] = queue[t][i]
          \/ i = Len(queue[t]) + 1 /\ queue'[t][i] = pushed'
    BY <2>1, <2>2
  <2>4. Increasing(queue'[t])
    <3> SUFFICES ASSUME NEW i \in 1..Len(queue'[t]), NEW j \in 1..Len(queue'[t]), i < j
                 PROVE  queue'[t][i] < queue'[t][j]
      BY DEF Increasing
    <3>1. i \in 1..Len(queue[t]) /\ queue'[t][i] = queue[t][i]
      BY <2>1, <2>2, <2>3, SMTT(30)
    <3>2. CASE j \in 1..Len(queue[t]) /\ queue'[t][j] = queue[t][j]
      BY <2>1, <3>1, <3>2 DEF Increasing
    <3>3. CASE j = Len(queue[t]) + 1 /\ queue'[t][j] = pushed'
      BY <1>2, <2>1, <2>2, <3>1, <3>3
    <3>. QED  BY <2>3, <3>2, <3>3
  <2>5. \A i \in 1..Len(queue'[t]) : sending'[t] < queue'[t][i]
    <3>1. pushed' \in Nat \ {0}
      BY <1>2, <2>2
    <3>2. \A i \in 1..Len(queue'[t]) : queue'[t][i] \in Nat \ {0}
      BY <2>1, <2>3, <3>1
    <3>3. \A n \in Nat \ {0} : 0 < n
      BY SMT
    <3>. QED  BY <2>2, <3>2, <3>3
  <2>6. SentEarlier(t)'
    <3> SUFFICES ASSUME NEW k \in 1..Len(wire[t])
                 PROVE  /\ wire[t][k][1] <= pushed'
                        /\ \A i \in 1..Len(queue'[t]) : wire[t][k][1] < queue'[t][i]
      BY <2>2 DEF SentEarlier, NoStream
    <3>1. wire[t][k][1] \in Nat /\ wire[t][k][1] <= pushed
      BY <2>1
    <3>2. ASSUME NEW i \in 1..Len(queue'[t])
          PROVE  wire[t][k][1] < queue'[t][i]
      <4>1. \A j \in 1..Len(queue[t]) : wire[t][k][1] < queue[t][j]
        BY <2>1
      <4>2. CASE i \in 1..Len(queue[t]) /\ queue'[t][i] = queue[t][i]
        BY <4>1, <4>2
      <4>3. CASE queue'[t][i] = pushed'
        <5>1. pushed' = pushed + 1 /\ pushed \in Nat
          BY <1>2, <2>2
        <5>. QED  BY <3>1, <4>3, <5>1
      <4>. QED  BY <2>3, <4>2, <4>3
    <3>. QED  BY <1>2, <2>2, <3>1, <3>2
  <2>. QED  BY <2>4, <2>5, <2>6
<1>8. Order'
  BY <1>7 DEF Order
<1>. QED  BY <1>1, <1>4, <1>6, <1>8 DEF Ind, SentInOrder

(* The handler takes the oldest stream of its queue in hand.               *)
LEMMA TakeTaskKeeps ==
  ASSUME Ind, NEW s \in Sockets, TakeTask(s)
  PROVE  Ind'
<1> DEFINE q == queue[s]
<1>1. /\ q # <<>>
      /\ sending' = [sending EXCEPT ![s] = Head(q)]
      /\ queue' = [queue EXCEPT ![s] = Tail(q)]
      /\ left' = Blocks
      /\ UNCHANGED <<options, pushed, freed, corrupt, wire, passVars, alive>>
      /\ \A t \in Sockets : sending[t] = NoStream
  BY DEF TakeTask, Quiet
<1>2. /\ queue \in [Sockets -> Seq(Streams)]
      /\ sending \in [Sockets -> Streams \cup {NoStream}]
  BY DEF Ind, TypeOK
<1>3. /\ Head(q) \in Streams /\ Tail(q) \in Seq(Streams)
      /\ Head(q) = q[1]
      /\ Len(q) \in Nat \ {0} /\ Len(Tail(q)) = Len(q) - 1
      /\ \A i \in 1..(Len(q) - 1) : Tail(q)[i] = q[i + 1]
      /\ ToSet(q) = {Head(q)} \cup ToSet(Tail(q))
  <2>1. q \in Seq(Streams)
    BY <1>2
  <2> HIDE DEF q
  <2>. QED  BY <1>1, <2>1, ToSetHeadTail
<1>4. /\ queue'[s] = Tail(q) /\ sending'[s] = Head(q)
      /\ \A t \in Sockets \ {s} : queue'[t] = queue[t] /\ sending'[t] = sending[t]
  BY <1>1, <1>2
<1>5. TypeOK'
  <2>1. queue' \in [Sockets -> Seq(Streams)] /\ sending' \in [Sockets -> Streams \cup {NoStream}]
    BY <1>1, <1>2, <1>3
  <2>2. left' \in 0..Blocks
    BY <1>1, BoundsAssumption
  <2>. QED  BY <1>1, <2>1, <2>2 DEF Ind, TypeOK, passVars
<1>6. Ownership'
  <2>1. Head(q) # NoStream
    BY <1>3, BoundsAssumption DEF Streams, NoStream
  <2>2. ASSUME NEW t \in Sockets PROVE Held(t)' = Held(t) \ {}
    <3>1. CASE t = s
      <4>1. InHand(s) = {} /\ InHand(s)' = {Head(q)}
        BY <1>1, <1>4, <2>1 DEF InHand
      <4>2. Queued(s) = {Head(q)} \cup Queued(s)'
        BY <1>3, <1>4 DEF Queued
      <4>. QED  BY <3>1, <4>1, <4>2 DEF Held
    <3>2. CASE t # s
      BY <1>4, <3>2 DEF Held, Queued, InHand
    <3>. QED  BY <3>1, <3>2
  <2>3. pushed' = pushed /\ freed' = freed \cup {}
        /\ {} \subseteq UNION { Held(t) : t \in Sockets }
    BY <1>1
  <2>. QED  BY <2>2, <2>3, Released DEF Ind
<1>7. ASSUME NEW t \in Sockets
      PROVE  /\ Increasing(queue'[t])
             /\ \A i \in 1..Len(queue'[t]) : sending'[t] < queue'[t][i]
             /\ SentEarlier(t)'
  <2>1. /\ Increasing(queue[t])
        /\ \A i \in 1..Len(queue[t]) : queue[t][i] \in Nat /\ sending[t] < queue[t][i]
        /\ SentEarlier(t)
        /\ Len(queue[t]) \in Nat
        /\ \A k \in 1..Len(wire[t]) : wire[t][k][1] \in Nat
    BY StreamTypes DEF Ind, Order
  <2>2. CASE t # s
    <3>1. queue'[t] = queue[t] /\ sending'[t] = NoStream /\ sending[t] = NoStream
          /\ wire' = wire /\ pushed' = pushed
      BY <1>1, <1>4, <2>2
    <3>2. SentEarlier(t)'
      BY <2>1, <3>1 DEF SentEarlier
    <3>. QED  BY <2>1, <3>1, <3>2
  <2>3. CASE t = s
    <3>1. \A i \in 1..Len(queue'[t]) :
             i + 1 \in 1..Len(q) /\ queue'[t][i] = q[i + 1] /\ i + 1 > 1 /\ 1 \in 1..Len(q)
      <4>1. queue'[t] = Tail(q)
        BY <1>4, <2>3
      <4> HIDE DEF q
      <4> SUFFICES ASSUME NEW i \in 1..(Len(q) - 1)
                   PROVE  /\ i + 1 \in 1..Len(q) /\ Tail(q)[i] = q[i + 1]
                          /\ i + 1 > 1 /\ 1 \in 1..Len(q)
        BY <1>3, <4>1
      <4>. QED  BY <1>3
    <3>2. Increasing(queue'[t])
      <4> SUFFICES ASSUME NEW i \in 1..Len(queue'[t]), NEW j \in 1..Len(queue'[t]), i < j
                   PROVE  queue'[t][i] < queue'[t][j]
        BY DEF Increasing
      <4>1. i + 1 < j + 1
        BY <1>3, <1>4, <2>3
      <4>. QED  BY <2>1, <2>3, <3>1, <4>1 DEF Increasing
    <3>3. \A i \in 1..Len(queue'[t]) : sending'[t] < queue'[t][i]
      <4> SUFFICES ASSUME NEW i \in 1..Len(queue'[t]) PROVE q[1] < q[i + 1]
        BY <1>3, <1>4, <2>3, <3>1
      <4>. QED  BY <2>1, <2>3, <3>1 DEF Increasing
    <3>4. SentEarlier(t)'
      <4> SUFFICES ASSUME NEW k \in 1..Len(wire[t])
                   PROVE  /\ wire[t][k][1] <= pushed
                          /\ \A i \in 1..Len(queue'[t]) : wire[t][k][1] < queue'[t][i]
                          /\ wire[t][k][1] < sending'[t]
        BY <1>1 DEF SentEarlier
      <4>1. wire[t][k][1] <= pushed /\ \A i \in 1..Len(q) : wire[t][k][1] < q[i]
        BY <2>1, <2>3 DEF SentEarlier
      <4>2. wire[t][k][1] < q[1]
        BY <1>3, <4>1
      <4>. QED  BY <1>3, <1>4, <2>3, <3>1, <4>1, <4>2
    <3>. QED  BY <3>2, <3>3, <3>4
  <2>. QED  BY <2>2, <2>3
<1>8. Order'
  BY <1>7 DEF Order
<1>. QED  BY <1>1, <1>5, <1>6, <1>8 DEF Ind, SentInOrder

(* A part of the stream in hand follows what was sent before.              *)
LEMMA SendBlockKeeps ==
  ASSUME Ind, NEW s \in Sockets, SendBlock(s)
  PROVE  Ind'
<1> DEFINE e == <<sending[s], Blocks - left'>>
<1>1. /\ sending[s] # NoStream /\ left > 0 /\ left' = left - 1
      /\ wire' \in {wire, [wire EXCEPT ![s] = Append(@, e)]}
      /\ corrupt' = (corrupt \/ sending[s] \in freed)
      /\ UNCHANGED <<options, pushed, queue, sending, freed, passVars, alive>>
  BY DEF SendBlock
<1>2. /\ wire \in [Sockets -> Seq(Streams \X (1..Blocks))]
      /\ sending[s] \in Streams /\ left \in 0..Blocks /\ Blocks \in Nat
  BY <1>1, BoundsAssumption DEF Ind, TypeOK
<1>3. e \in Streams \X (1..Blocks) /\ e[1] = sending[s] /\ e[2] = Blocks - left + 1
      /\ left' \in 0..Blocks /\ left' < left
  BY <1>1, <1>2
<1>4. sending[s] \in Held(s) /\ sending[s] \notin freed /\ sending[s] <= pushed
  <2>1. sending[s] \in Held(s)
    BY <1>1 DEF Held, InHand
  <2>2. sending[s] \in 1..pushed
    BY <2>1 DEF Ind, Ownership
  <2>. QED  BY <2>1, <2>2 DEF Ind, Ownership
<1> HIDE DEF e
<1>5. ASSUME NEW t \in Sockets
      PROVE  \/ wire'[t] = wire[t]
             \/ t = s /\ wire'[t] = Append(wire[t], e)
  BY <1>1, <1>2
<1>6. TypeOK'
  <2>1. wire' \in [Sockets -> Seq(Streams \X (1..Blocks))]
    <3>1. Append(wire[s], e) \in Seq(Streams \X (1..Blocks))
      BY <1>2, <1>3
    <3>. QED  BY <1>1, <1>2, <3>1
  <2>2. corrupt' \in BOOLEAN
    BY <1>1, <1>4 DEF Ind
  <2>. QED  BY <1>1, <1>3, <2>1, <2>2 DEF Ind, TypeOK, passVars
<1>7. Ownership'
  <2>1. \A t \in Sockets : Held(t)' = Held(t) \ {}
    BY <1>1 DEF Held, Queued, InHand
  <2>2. pushed' = pushed /\ freed' = freed \cup {}
        /\ {} \subseteq UNION { Held(t) : t \in Sockets }
    BY <1>1
  <2>. QED  BY <2>1, <2>2, Released DEF Ind
<1>8. ASSUME NEW t \in Sockets
      PROVE  /\ SentEarlier(t)'
             /\ \A i, j \in 1..Len(wire'[t]) : i < j => Before(wire'[t][i], wire'[t][j])
  <2>1. /\ \A i \in 1..Len(queue[t]) : queue[t][i] \in Nat /\ sending[t] < queue[t][i]
        /\ SentEarlier(t)
        /\ Len(wire[t]) \in Nat /\ sending[t] \in Nat
        /\ \A k \in 1..Len(wire[t]) : wire[t][k][1] \in Nat /\ wire[t][k][2] \in Nat
        /\ \A i, j \in 1..Len(wire[t]) : i < j => Before(wire[t][i], wire[t][j])
    BY StreamTypes DEF Ind, Order, SentInOrder
  <2>2. ASSUME NEW k \in 1..Len(wire[t])
        PROVE  /\ wire[t][k][1] <= pushed
               /\ \A i \in 1..Len(queue[t]) : wire[t][k][1] < queue[t][i]
               /\ sending[t] # NoStream =>
                     \/ wire[t][k][1] < sending[t]
                     \/ wire[t][k][1] = sending[t] /\ wire[t][k][2] <= Blocks - left
    BY <2>1 DEF SentEarlier
  <2>3. ASSUME NEW k \in 1..Len(wire[t])
        PROVE  wire[t][k][2] <= Blocks - left => wire[t][k][2] <= Blocks - left'
    BY <1>1, <1>2, <2>1
  <2>4. CASE wire'[t] = wire[t]
    <3>1. SentEarlier(t)'
      BY <1>1, <2>2, <2>3, <2>4 DEF SentEarlier
    <3>. QED  BY <2>1, <2>4, <3>1
  <2>5. CASE t = s /\ wire'[t] = Append(wire[t], e)
    <3>1. /\ Len(wire'[t]) = Len(wire[t]) + 1
          /\ wire'[t][Len(wire[t]) + 1] = e
          /\ \A k \in 1..Len(wire[t]) : wire'[t][k] = wire[t][k]
      BY <1>2, <1>3, <2>5
    <3>2. ASSUME NEW k \in 1..Len(wire'[t])
          PROVE  \/ k \in 1..Len(wire[t]) /\ wire'[t][k] = wire[t][k]
                 \/ k = Len(wire[t]) + 1 /\ wire'[t][k] = e
      BY <2>1, <3>1
    <3>3. SentEarlier(t)'
      <4> SUFFICES ASSUME NEW k \in 1..Len(wire'[t])
                   PROVE  /\ wire'[t][k][1] <= pushed
                          /\ \A i \in 1..Len(queue[t]) : wire'[t][k][1] < queue[t][i]
                          /\ sending[t] # NoStream =>
                                \/ wire'[t][k][1] < sending[t]
                                \/ wire'[t][k][1] = sending[t] /\ wire'[t][k][2] <= Blocks - left'
        BY <1>1 DEF SentEarlier
      <4>1. CASE k \in 1..Len(wire[t]) /\ wire'[t][k] = wire[t][k]
        BY <2>2, <2>3, <4>1
      <4>2. CASE k = Len(wire[t]) + 1 /\ wire'[t][k] = e
        BY <1>1, <1>2, <1>3, <1>4, <2>1, <2>5, <4>2
      <4>. QED  BY <3>2, <4>1, <4>2
    <3>4. ASSUME NEW i \in 1..Len(wire'[t]), NEW j \in 1..Len(wire'[t]), i < j
          PROVE  Before(wire'[t][i], wire'[t][j])
      <4>1. i \in 1..Len(wire[t]) /\ wire'[t][i] = wire[t][i]
        BY <2>1, <3>1, <3>4
      <4>2. CASE j \in 1..Len(wire[t]) /\ wire'[t][j] = wire[t][j]
        BY <2>1, <3>4, <4>1, <4>2
      <4>3. CASE j = Len(wire[t]) + 1 /\ wire'[t][j] = e
        <5>1. \/ wire[t][i][1] < e[1]
              \/ wire[t][i][1] = e[1] /\ wire[t][i][2] <= Blocks - left
          BY <1>1, <1>3, <2>2, <2>5, <4>1
        <5>2. wire[t][i][2] <= Blocks - left => wire[t][i][2] < e[2]
          BY <1>2, <1>3, <2>1, <4>1
        <5>. QED  BY <4>1, <4>3, <5>1, <5>2 DEF Before
      <4>. QED  BY <3>2, <4>2, <4>3
    <3>. QED  BY <3>3, <3>4
  <2>. QED  BY <1>5, <2>4, <2>5
<1>9. Order' /\ SentInOrder'
  BY <1>1, <1>8 DEF Ind, Order, SentInOrder
<1>. QED  BY <1>1, <1>4, <1>6, <1>7, <1>9 DEF Ind

(* The stream in hand is deleted: it was sent, or its send failed.         *)
LEMMA LetGoKeeps ==
  ASSUME Ind, NEW s \in Sockets, EndTask(s) \/ SendFails(s)
  PROVE  Ind'
<1>1. /\ sending[s] # NoStream
      /\ freed' = freed \cup {sending[s]}
      /\ corrupt' = (corrupt \/ {sending[s]} \cap freed # {})
      /\ sending' = [sending EXCEPT ![s] = NoStream]
      /\ left' = left \/ left' = 0
      /\ UNCHANGED <<options, pushed, queue, wire, ready, running, alive>>
      /\ todo' = todo \ {s}
      /\ state' = state \/ state' = [state EXCEPT ![s] = "removed"]
  BY DEF EndTask, SendFails, Delete
<1>2. sending \in [Sockets -> Streams \cup {NoStream}] /\ sending[s] \in Streams
      /\ left \in 0..Blocks /\ Blocks \in Nat
  BY <1>1, BoundsAssumption DEF Ind, TypeOK
<1>3. sending[s] \in Held(s) /\ sending[s] \notin freed
  BY <1>1 DEF Held, InHand, Ind, Ownership
<1>4. TypeOK'
  <2>1. sending' \in [Sockets -> Streams \cup {NoStream}] /\ left' \in 0..Blocks
    BY <1>1, <1>2
  <2>2. corrupt' \in BOOLEAN /\ freed' \subseteq Streams
    BY <1>1, <1>2, <1>3 DEF Ind, TypeOK
  <2>3. state' \in [Sockets -> {"registered", "removed", "deleted"}]
    BY <1>1 DEF Ind, TypeOK
  <2>. QED  BY <1>1, <2>1, <2>2, <2>3 DEF Ind, TypeOK
<1>5. \A t \in Sockets : sending'[t] = IF t = s THEN NoStream ELSE sending[t]
  BY <1>1, <1>2
<1>6. ~corrupt'
  BY <1>1, <1>3 DEF Ind
<1>7. Ownership'
  <2>1. ASSUME NEW t \in Sockets PROVE Held(t)' = Held(t) \ {sending[s]}
    <3>1. CASE t = s
      <4>1. sending[s] \notin Queued(s)
        <5>1. \A i \in 1..Len(queue[s]) : queue[s][i] # sending[s]
          BY StreamTypes DEF Ind, Order
        <5>2. DOMAIN queue[s] = 1..Len(queue[s])
          BY DEF Ind, TypeOK
        <5>. QED  BY <5>1, <5>2 DEF Queued, ToSet
      <4>2. InHand(s)' = {} /\ Queued(s)' = Queued(s)
        BY <1>1, <1>5 DEF InHand, Queued
      <4>. QED  BY <1>1, <3>1, <4>1, <4>2 DEF Held, InHand
    <3>2. CASE t # s
      <4>1. sending[s] \notin Held(t)
        BY <1>3, <3>2 DEF Ind, Ownership
      <4>2. Held(t)' = Held(t)
        BY <1>1, <1>5, <3>2 DEF Held, InHand, Queued
      <4>. QED  BY <4>1, <4>2
    <3>. QED  BY <3>1, <3>2
  <2>2. /\ pushed' = pushed /\ freed' = freed \cup {sending[s]}
        /\ {sending[s]} \subseteq UNION { Held(t) : t \in Sockets }
    BY <1>1, <1>3
  <2>. QED  BY <2>1, <2>2, Released DEF Ind
<1>8. Order'
  <2>1. left' <= left /\ pushed' = pushed /\ wire' = wire
    BY <1>1, <1>2
  <2>2. \A t \in Sockets : /\ queue'[t] = queue[t]
                           /\ sending'[t] = sending[t] \/ sending'[t] = NoStream
    BY <1>1, <1>5
  <2>. QED  BY <1>4, <2>1, <2>2, LettingGoKeepsOrder DEF Ind
<1>. QED  BY <1>1, <1>4, <1>6, <1>7, <1>8 DEF Ind, SentInOrder

(* The queues of some handlers are destroyed while no stream is in hand.   *)
LEMMA DestroyKeeps ==
  ASSUME Ind, NEW handlers \in SUBSET Sockets, Quiet, Destroy(handlers),
         UNCHANGED <<options, pushed, sending, left, wire, todo, alive>>,
         ready' \subseteq Sockets, running' \in BOOLEAN
  PROVE  Ind'
<1> DEFINE gone == UNION { Queued(s) : s \in handlers }
<1>1. /\ freed' = freed \cup gone
      /\ corrupt' = (corrupt \/ gone \cap freed # {})
      /\ queue' = [s \in Sockets |-> IF s \in handlers THEN <<>> ELSE queue[s]]
      /\ state' = [s \in Sockets |-> IF s \in handlers THEN "deleted" ELSE state[s]]
      /\ \A s \in Sockets : sending[s] = NoStream
  BY DEF Destroy, Delete, Quiet, Queued
<1>2. gone \cap freed = {} /\ gone \subseteq UNION { Held(s) : s \in Sockets }
  BY DEF Ind, Ownership, Held
<1>3. TypeOK'
  <2>1. queue' \in [Sockets -> Seq(Streams)]
    BY <1>1 DEF Ind, TypeOK
  <2>2. state' \in [Sockets -> {"registered", "removed", "deleted"}]
    BY <1>1 DEF Ind, TypeOK
  <2>3. gone \subseteq Streams
    BY DEF Ind, TypeOK, Queued, ToSet
  <2>4. freed' \subseteq Streams /\ corrupt' \in BOOLEAN
    BY <1>1, <1>2, <2>3 DEF Ind, TypeOK
  <2>. QED  BY <2>1, <2>2, <2>4 DEF Ind, TypeOK
<1>4. Ownership'
  <2>1. ASSUME NEW t \in Sockets PROVE Held(t)' = Held(t) \ gone
    <3>1. InHand(t) = {} /\ InHand(t)' = {}
      BY <1>1 DEF InHand
    <3>2. CASE t \in handlers
      <4>1. Queued(t)' = {}
        BY <1>1, <3>2 DEF Queued, ToSet
      <4>. QED  BY <3>1, <3>2, <4>1 DEF Held
    <3>3. CASE t \notin handlers
      <4>1. Held(t)' = Held(t)
        BY <1>1, <3>1, <3>3 DEF Held, Queued
      <4>2. Held(t) \cap gone = {}
        BY <3>3 DEF Ind, Ownership, Held
      <4>. QED  BY <4>1, <4>2
    <3>. QED  BY <3>2, <3>3
  <2> HIDE DEF gone
  <2>. QED  BY <1>1, <1>2, <2>1, Released DEF Ind
<1>5. Order'
  <2>1. left' <= left
    BY BoundsAssumption DEF Ind, TypeOK
  <2>2. \A t \in Sockets : /\ queue'[t] = queue[t] \/ queue'[t] = <<>>
                           /\ sending'[t] = sending[t]
    BY <1>1
  <2>. QED  BY <1>3, <2>1, <2>2, LettingGoKeepsOrder DEF Ind
<1>. QED  BY <1>1, <1>2, <1>3, <1>4, <1>5 DEF Ind, SentInOrder

LEMMA EndPassKeeps ==
  ASSUME Ind, EndPass
  PROVE  Ind'
<1> DEFINE removed == {s \in Sockets : state[s] = "removed"}
<1>1. /\ Quiet /\ Destroy(removed)
      /\ UNCHANGED <<options, pushed, sending, left, wire, todo, alive>>
      /\ ready' \subseteq Sockets /\ running' \in BOOLEAN
      /\ removed \in SUBSET Sockets
  BY DEF EndPass
<1> HIDE DEF removed
<1>. QED  BY <1>1, DestroyKeeps

LEMMA CloseKeeps ==
  ASSUME Ind, NEW s \in Sockets, Close(s)
  PROVE  Ind'
<1>1. /\ Quiet /\ Destroy({s})
      /\ UNCHANGED <<options, pushed, sending, left, wire, todo, alive>>
      /\ ready' \subseteq Sockets /\ running' \in BOOLEAN
  BY DEF Close, Ind, TypeOK
<1>2. \A handlers \in SUBSET Sockets : handlers = {s} => Ind'
  BY <1>1, DestroyKeeps
<1>. QED  BY <1>2

-----------------------------------------------------------------------------
LEMMA InitInd == Init => Ind
<1> SUFFICES ASSUME Init PROVE Ind
  OBVIOUS
<1>1. TypeOK
  <2>1. Default \in Options
    BY DEF Default, Options, Forever
  <2>2. options \in [Sockets -> Options] /\ sending \in [Sockets -> Streams \cup {NoStream}]
    BY <2>1 DEF Init
  <2>3. queue \in [Sockets -> Seq(Streams)] /\ wire \in [Sockets -> Seq(Streams \X (1..Blocks))]
    BY DEF Init
  <2>4. pushed \in 0..MaxStreams /\ left \in 0..Blocks
    BY BoundsAssumption DEF Init
  <2>5. state \in [Sockets -> {"registered", "removed", "deleted"}]
    BY DEF Init
  <2>. QED  BY <2>2, <2>3, <2>4, <2>5 DEF Init, TypeOK
<1>2. Ownership
  <2>1. \A s \in Sockets : Held(s) = {}
    BY DEF Init, Held, Queued, InHand, ToSet
  <2>2. 1..pushed = {}
    BY DEF Init
  <2>. QED  BY <2>1, <2>2 DEF Init, Ownership
<1>3. Order /\ SentInOrder
  BY DEF Init, Order, SentInOrder, Increasing, SentEarlier
<1>. QED  BY <1>1, <1>2, <1>3 DEF Init, Ind

LEMMA NextInd == Ind /\ [Next]_vars => Ind'
<1> SUFFICES ASSUME Ind, [Next]_vars PROVE Ind'
  OBVIOUS
<1>1. ASSUME UNCHANGED vars PROVE Ind'
  <2>1. TypeOK' /\ UNCHANGED streamVars
    BY <1>1 DEF Ind, TypeOK, vars, streamVars, passVars
  <2>. QED  BY <2>1, NoStreamStepKeeps
<1>2. ASSUME NEW s \in Sockets, PushTask(s) PROVE Ind'
  BY <1>2, PushTaskKeeps
<1>3. ASSUME NEW s \in Sockets, TakeTask(s) PROVE Ind'
  BY <1>3, TakeTaskKeeps
<1>4. ASSUME NEW s \in Sockets, SendBlock(s) PROVE Ind'
  BY <1>4, SendBlockKeeps
<1>5. ASSUME NEW s \in Sockets, EndTask(s) \/ SendFails(s) PROVE Ind'
  BY <1>5, LetGoKeeps
<1>6. CASE EndPass
  BY <1>6, EndPassKeeps
<1>7. ASSUME NEW s \in Sockets, Close(s) PROVE Ind'
  BY <1>7, CloseKeeps
<1>8. ASSUME NEW s \in Sockets,
             \/ Configure(s) \/ BeginPass \/ HandleNothing(s) \/ SendDies(s)
             \/ TakeFromEmpty(s) \/ ConnectDies(s)
      PROVE  Ind'
  BY <1>8, NoStreamStep, NoStreamStepKeeps
<1>. QED  BY <1>1, <1>2, <1>3, <1>4, <1>5, <1>6, <1>7, <1>8 DEF Next

(* The inductive invariant holds of every execution.                       *)
THEOREM IndInvariant == Spec => []Ind
BY InitInd, NextInd, PTL DEF Spec

(* Each stream that was pushed has one owner until it is deleted, once,    *)
(* whatever fails, is removed or is closed.                                *)
THEOREM StreamsHaveOneOwner == Spec => []OneOwner
<1>1. Ind => OneOwner
  <2> SUFFICES ASSUME Ind PROVE OneOwner
    OBVIOUS
  <2>1. 1..pushed = freed \cup UNION {Queued(s) \cup InHand(s) : s \in Sockets}
    BY DEF Ind, Ownership, Held
  <2>2. ASSUME NEW s \in Sockets
        PROVE  /\ IsInjective(queue[s])
               /\ Queued(s) \cap InHand(s) = {}
               /\ (Queued(s) \cup InHand(s)) \cap freed = {}
               /\ \A t \in Sockets \ {s} :
                    (Queued(s) \cup InHand(s)) \cap (Queued(t) \cup InHand(t)) = {}
    <3>1. IsInjective(queue[s])
      BY StreamTypes, IncreasingInjective DEF Ind, Order
    <3>2. Queued(s) \cap InHand(s) = {}
      <4>1. \A i \in 1..Len(queue[s]) : queue[s][i] # sending[s]
        BY StreamTypes DEF Ind, Order
      <4>2. DOMAIN queue[s] = 1..Len(queue[s])
        BY DEF Ind, TypeOK
      <4>. QED  BY <4>1, <4>2 DEF Queued, InHand, ToSet
    <3>3. Held(s) \cap freed = {} /\ \A t \in Sockets \ {s} : Held(s) \cap Held(t) = {}
      BY DEF Ind, Ownership
    <3>. QED  BY <3>1, <3>2, <3>3 DEF Held
  <2>. QED  BY <2>1, <2>2 DEF Ind, OneOwner
<1>. QED  BY <1>1, IndInvariant, PTL

(* What a handler gives to the kernel is in the order in which the streams *)
(* were pushed and read, and nothing is given twice.                       *)
THEOREM StreamsSentInOrder == Spec => []SentInOrder
<1>1. Ind => SentInOrder
  BY DEF Ind
<1>. QED  BY <1>1, IndInvariant, PTL

-----------------------------------------------------------------------------
(* The setters and getters of the options, for every duration.             *)

(* What is left of a duration beside its seconds, in the unit of the        *)
(* options (Socket.cpp:83-96) and in that of the kernel's struct timeval.   *)
Milliseconds == 0..999
InMicros(r) == r * 1000

(* The seconds and the milliseconds of a duration.                         *)
Split(ms) ==
  /\ Quotient(ms, 1000) \in Nat /\ Remainder(ms, 1000) \in Milliseconds
  /\ ms = 1000 * Quotient(ms, 1000) + Remainder(ms, 1000)

LEMMA NatSplits ==
  ASSUME NEW ms \in Nat
  PROVE  Split(ms)
<1>1. Quotient(ms, 1000) = ms \div 1000 /\ Remainder(ms, 1000) = ms % 1000
  BY SMT DEF Quotient, Remainder
<1>2. /\ ms \div 1000 \in Nat /\ ms % 1000 \in 0..999
      /\ ms = 1000 * (ms \div 1000) + (ms % 1000)
  BY SMT
<1>. QED  BY <1>1, <1>2, SMT DEF Split, Milliseconds

(* What GetSendTimeout makes of a timeout that is set.                     *)
Read(timeout) == (timeout \div Ticks) * 1000 + ((timeout % Ticks) * Jiffy * 1000) \div 1000

(* A timeout of sec seconds and r milliseconds is kept to the tick, rounded *)
(* up, and read back as such.                                              *)
KeepsTime(timeout, sec, r) ==
  /\ timeout \in Int /\ timeout > 0
  /\ Read(timeout) \in Int
  /\ Read(timeout) >= 1000 * sec + r
  /\ Read(timeout) <= 1000 * sec + r + Jiffy - 1

LEMMA TimeoutIsKept ==
  ASSUME NEW old \in Int, NEW sec \in Nat, NEW r \in Milliseconds, sec + r > 0
  PROVE  KeepsTime(SndTimeo(old, sec, InMicros(r)), sec, r)
<1> DEFINE kept == SndTimeo(old, sec, r * 1000)
<1> SUFFICES KeepsTime(kept, sec, r)
  BY DEF InMicros
<1>0. r \in 0..999
  BY DEF Milliseconds
<1>1. kept = sec * Ticks + (r * 1000 + 1000 * Jiffy - 1) \div (1000 * Jiffy)
  BY <1>0, SndTimeoCases, SMT
<1> HIDE DEF kept
<1>2. CASE Jiffy = 1
  <2> DEFINE u == r
  <2>1. Ticks = 1000
    BY <1>2, SMT DEF Ticks
  <2>2. kept = sec * 1000 + u
    BY <1>0, <1>1, <1>2, <2>1, SMT
  <2>3. u \in Int /\ 0 <= u /\ u <= 1000 /\ u = r
    BY <1>0, SMT
  <2> HIDE DEF u
  <2>4. Read(kept) = sec * 1000 + u
    <3>1. CASE u < 1000
      <4>1. kept \in Int /\ kept \div 1000 = sec /\ kept % 1000 = u
        BY <2>2, <2>3, <3>1, SMT
      <4>. QED  BY <1>2, <2>1, <2>3, <4>1, SMT DEF Read
    <3>2. CASE u = 1000
      <4>1. kept \in Int /\ kept \div 1000 = sec + 1 /\ kept % 1000 = 0
        BY <2>2, <2>3, <3>2, SMT
      <4>. QED  BY <1>2, <2>1, <3>2, <4>1, SMT DEF Read
    <3>. QED  BY <2>3, <3>1, <3>2, SMT
  <2>. QED  BY <1>2, <2>2, <2>3, <2>4, <1>0, SMT DEF KeepsTime
<1>3. CASE Jiffy = 4
  <2> DEFINE u == (r + 3) \div 4
  <2>1. Ticks = 250
    BY <1>3, SMT DEF Ticks
  <2>2. kept = sec * 250 + u
    BY <1>0, <1>1, <1>3, <2>1, SMT
  <2>3. u \in Int /\ 0 <= u /\ u <= 250 /\ r <= 4 * u /\ 4 * u <= r + 3
    BY <1>0, SMT
  <2> HIDE DEF u
  <2>4. Read(kept) = sec * 1000 + u * 4
    <3>1. CASE u < 250
      <4>1. kept \in Int /\ kept \div 250 = sec /\ kept % 250 = u
        BY <2>2, <2>3, <3>1, SMT
      <4>. QED  BY <1>3, <2>1, <2>3, <4>1, SMT DEF Read
    <3>2. CASE u = 250
      <4>1. kept \in Int /\ kept \div 250 = sec + 1 /\ kept % 250 = 0
        BY <2>2, <2>3, <3>2, SMT
      <4>. QED  BY <1>3, <2>1, <3>2, <4>1, SMT DEF Read
    <3>. QED  BY <2>3, <3>1, <3>2, SMT
  <2>. QED  BY <1>3, <2>2, <2>3, <2>4, <1>0, SMT DEF KeepsTime
<1>4. CASE Jiffy = 10
  <2> DEFINE u == (r + 9) \div 10
  <2>1. Ticks = 100
    BY <1>4, SMT DEF Ticks
  <2>2. kept = sec * 100 + u
    BY <1>0, <1>1, <1>4, <2>1, SMT
  <2>3. u \in Int /\ 0 <= u /\ u <= 100 /\ r <= 10 * u /\ 10 * u <= r + 9
    BY <1>0, SMT
  <2> HIDE DEF u
  <2>4. Read(kept) = sec * 1000 + u * 10
    <3>1. CASE u < 100
      <4>1. kept \in Int /\ kept \div 100 = sec /\ kept % 100 = u
        BY <2>2, <2>3, <3>1, SMT
      <4>. QED  BY <1>4, <2>1, <2>3, <4>1, SMT DEF Read
    <3>2. CASE u = 100
      <4>1. kept \in Int /\ kept \div 100 = sec + 1 /\ kept % 100 = 0
        BY <2>2, <2>3, <3>2, SMT
      <4>. QED  BY <1>4, <2>1, <3>2, <4>1, SMT DEF Read
    <3>. QED  BY <2>3, <3>1, <3>2, SMT
  <2>. QED  BY <1>4, <2>2, <2>3, <2>4, <1>0, SMT DEF KeepsTime
<1>. QED  BY <1>2, <1>3, <1>4, JiffyAssumption, SMT

LEMMA TimeoutAlwaysInForce ==
  ASSUME NEW old \in Options, NEW ms \in Int
  PROVE  TimeoutInForce(old, ms)
<1> DEFINE new == SetSendTimeout(old, ms)
           x == SndTimeo(old.timeout, Quotient(ms, 1000), Remainder(ms, 1000) * 1000)
<1>1. old.timeout \in Int /\ new \in Options /\ IntMax \in Nat
  BY SetSendTimeoutType, IntMaxAssumption DEF Options
<1>2. new = IF ms > IntMax THEN old ELSE [old EXCEPT !.timeout = x]
  BY SMT DEF SetSendTimeout
<1>3. new = [old EXCEPT !.timeout = new.timeout]
  <2>1. old = [old EXCEPT !.timeout = old.timeout]
    BY SMT DEF Options
  <2>2. [old EXCEPT !.timeout = x].timeout = x
    BY SMT DEF Options
  <2> HIDE DEF new, x
  <2>. QED  BY <1>2, <2>1, <2>2
<1>4. ASSUME ms = 0 PROVE new.timeout = Forever
  <2>1. Quotient(ms, 1000) = 0 /\ Remainder(ms, 1000) * 1000 = 0
    BY <1>4, SMT DEF Quotient, Remainder
  <2>2. x = Forever
    BY <1>1, <2>1, SndTimeoCases, SMT
  <2> HIDE DEF new, x
  <2>. QED  BY <1>1, <1>2, <1>4, <2>2, SMT DEF Options
<1>5. ASSUME ms \in 1..IntMax
      PROVE  new.timeout > 0 /\ GetSendTimeout(new) \in ms..(ms + Jiffy - 1)
  <2> DEFINE sec == Quotient(ms, 1000)
             r == Remainder(ms, 1000)
  <2>1. /\ sec \in Nat /\ r \in Milliseconds
        /\ ms = 1000 * sec + r /\ sec + r > 0
    <3>1. ms \in Nat /\ ms > 0
      BY <1>1, <1>5, SMT
    <3>2. Split(ms)
      BY <3>1, NatSplits
    <3>3. sec \in Nat /\ r \in Milliseconds /\ ms = 1000 * sec + r
      BY <3>2, SMT DEF Split
    <3> HIDE DEF new, x, sec, r
    <3>. QED  BY <3>1, <3>3, SMT DEF Milliseconds
  <2>2. /\ x \in Int /\ x > 0 /\ Read(x) \in Int
        /\ Read(x) >= ms /\ Read(x) <= ms + Jiffy - 1
    <3>1. x = SndTimeo(old.timeout, sec, InMicros(r))
      BY DEF InMicros
    <3> HIDE DEF x, sec, r, new
    <3>2. KeepsTime(x, sec, r)
      BY <1>1, <2>1, <3>1, TimeoutIsKept
    <3>. QED  BY <2>1, <3>2, SMT DEF KeepsTime
  <2>3. new.timeout = x /\ x # Forever
    <3> HIDE DEF x, new
    <3>. QED  BY <1>1, <1>2, <1>5, <2>2, SMT DEF Options, Forever
  <2>4. GetSendTimeout(new) = Read(x)
    <3> HIDE DEF x, new
    <3>. QED  BY <2>3, SMT DEF GetSendTimeout, Read
  <2>5. Ticks \in Nat \ {0} /\ Jiffy \in Nat
    BY JiffyAssumption, SMT DEF Ticks
  <2> HIDE DEF x, new
  <2>. QED  BY <1>1, <2>2, <2>3, <2>4, <2>5, SMT
<1> HIDE DEF new, x
<1>. QED  BY <1>3, <1>4, <1>5, Zenon DEF TimeoutInForce, new

LEMMA LingerAlwaysInForce ==
  ASSUME NEW old \in Options, NEW on \in BOOLEAN, NEW seconds \in Int
  PROVE  LingerInForce(old, on, seconds)
<1> DEFINE new == SetLinger(old, on, seconds)
           kept == IF on THEN NarrowToInt(seconds) ELSE old.linger
<1>1. new = [old EXCEPT !.lingers = on, !.linger = kept]
  BY Zenon DEF SetLinger
<1>2. new.lingers = on /\ new.linger = kept
  <2> HIDE DEF kept
  <2>. QED  BY <1>1, SMT DEF Options
<1>3. ASSUME seconds \in 0..IntMax
      PROVE  GetLinger(new) = IF on THEN seconds ELSE 0
  <2>1. NarrowToInt(seconds) = seconds
    <3> DEFINE n == 2 * (IntMax + 1)
               a == seconds + IntMax + 1
    <3>1. a \in Int /\ n \in Int /\ 0 <= a /\ a < n
      BY <1>3, IntMaxAssumption, SMT
    <3>2. a % n = a
      <4> HIDE DEF a, n
      <4>. QED  BY <3>1, SMT
    <3>3. NarrowToInt(seconds) = a - (IntMax + 1)
      BY <3>2, Zenon DEF NarrowToInt
    <3>. QED  BY <1>3, <3>3, IntMaxAssumption, SMT
  <2> HIDE DEF new
  <2>. QED  BY <1>2, <2>1 DEF GetLinger
<1> HIDE DEF new
<1>4. new = [old EXCEPT !.lingers = on, !.linger = new.linger]
  <2> HIDE DEF kept
  <2>. QED  BY <1>1, <1>2
<1>. QED  BY <1>3, <1>4, Zenon DEF LingerInForce, new

LEMMA FlagAlwaysInForce ==
  ASSUME NEW old \in Options, NEW f \in Flags, NEW enabled \in BOOLEAN
  PROVE  FlagInForce(old, f, enabled)
<1> DEFINE flags == IF enabled THEN old.on \cup {f} ELSE old.on \ {f}
<1>1. SetFlag(old, f, enabled) = [old EXCEPT !.on = flags]
  BY Zenon DEF SetFlag
<1> HIDE DEF flags
<1>2. SetFlag(old, f, enabled).on = flags
  BY <1>1, SMT DEF Options
<1>3. (f \in flags) = enabled /\ flags \ {f} = old.on \ {f}
  BY DEF flags
<1>. QED  BY <1>1, <1>2, <1>3, Zenon DEF FlagInForce

(* The next call of a setter does what it says, on every descriptor,       *)
(* whatever duration it is given.                                          *)
THEOREM SettersKeepTheirWord == Spec => []OptionsInForce
<1>1. Ind => OptionsInForce
  <2> SUFFICES ASSUME Ind, NEW s \in Sockets PROVE InForce(options[s])
    BY DEF OptionsInForce
  <2>1. options[s] \in Options
    BY DEF Ind, TypeOK
  <2>2. \A ms \in Durations : TimeoutInForce(options[s], ms)
    BY <2>1, TimeoutAlwaysInForce, DurationsAssumption
  <2>3. \A on \in BOOLEAN, seconds \in Durations : LingerInForce(options[s], on, seconds)
    BY <2>1, LingerAlwaysInForce, DurationsAssumption
  <2>4. \A f \in Flags, enabled \in BOOLEAN : FlagInForce(options[s], f, enabled)
    BY <2>1, FlagAlwaysInForce
  <2>. QED  BY <2>2, <2>3, <2>4 DEF InForce
<1>. QED  BY <1>1, IndInvariant, PTL
=============================================================================
