------------------------- MODULE EventDispatcherProofs -------------------------
(***************************************************************************)
(* For any handlers, event types and depth of dispatches: Dispatch calls   *)
(* nothing that was destroyed and misses nobody.  And for the events of    *)
(* connections: each reaches the handler of its class, and whoever waits   *)
(* for it is told the truth and deleted once.                              *)
(***************************************************************************)
EXTENDS EventDispatcher, NetworkStatus, SequenceTheorems, TLAPS

Types == /\ DOMAIN handlers \subseteq Events
         /\ handlers \in [DOMAIN handlers -> SUBSET Handlers]
         /\ calls \in Seq(Frame)
         /\ held \subseteq Handlers
         /\ wanted \subseteq Events \X Handlers
         /\ alive \in BOOLEAN

(* Only the innermost activation is between two calls.                     *)
Nested == \A i \in 1..(Len(calls) - 1) : calls[i].current # None

(* Whoever was registered and not unregistered is in the tables.           *)
Registered == \A e \in Events, h \in Handlers : <<e, h>> \in wanted => h \in Of(e)

(* The copy that an activation iterates over owns what it still has to     *)
(* call and what it is calling, and nobody is skipped.                     *)
Sound(f) == /\ f.todo \subseteq f.owned
            /\ f.current # None => f.current \in f.owned
            /\ f.due \subseteq f.heard \cup f.todo

Ind == Types /\ Nested /\ Registered /\ \A i \in DOMAIN calls : Sound(calls[i])

-----------------------------------------------------------------------------
LEMMA InitEstablishes == Init => Ind
BY DEF Init, Ind, Types, Nested, Registered

(* User code that leaves the activations alone.                            *)
LEMMA TablesKeep ==
  ASSUME Ind, UNCHANGED <<calls, alive>>,
         DOMAIN handlers' \subseteq Events,
         handlers' \in [DOMAIN handlers' -> SUBSET Handlers],
         held' \subseteq Handlers,
         wanted' \subseteq Events \X Handlers,
         Registered'
  PROVE  Ind'
BY DEF Ind, Types, Nested, Sound

LEMMA WithTypes ==
  ASSUME Types, NEW e \in Events, NEW hs \in SUBSET Handlers
  PROVE  /\ DOMAIN With(e, hs) \subseteq Events
         /\ With(e, hs) \in [DOMAIN With(e, hs) -> SUBSET Handlers]
BY DEF Types, With

LEMMA OfTypes ==
  ASSUME Types, NEW e
  PROVE  Of(e) \subseteq Handlers
BY DEF Types, Of

LEMMA RegisterKeeps ==
  ASSUME Ind, NEW e \in Events, NEW hs \in SUBSET Handlers, Register(e, hs)
  PROVE  Ind'
<1>1. /\ handlers' = With(e, Of(e) \cup hs)
      /\ wanted' = wanted \cup ({e} \X hs)
      /\ UNCHANGED <<calls, held, alive>>
  BY DEF Register
<1>2. Of(e) \cup hs \subseteq Handlers
  BY OfTypes DEF Ind
<1>3. /\ DOMAIN handlers' \subseteq Events
      /\ handlers' \in [DOMAIN handlers' -> SUBSET Handlers]
  BY <1>1, <1>2, WithTypes DEF Ind
<1>4. \A d \in Events : Of(d)' = IF d = e THEN Of(e) \cup hs ELSE Of(d)
  BY <1>1 DEF With, Of
<1>5. Registered'
  BY <1>1, <1>4 DEF Ind, Registered
<1>6. wanted' \subseteq Events \X Handlers /\ held' \subseteq Handlers
  BY <1>1 DEF Ind, Types
<1>. QED  BY <1>1, <1>3, <1>5, <1>6, TablesKeep

LEMMA RegisterForKeeps ==
  ASSUME Ind, NEW es \in SUBSET Events, NEW h \in Handlers, RegisterFor(es, h)
  PROVE  Ind'
<1>1. /\ handlers' = [e \in DOMAIN handlers \cup es |-> IF e \in es THEN Of(e) \cup {h}
                                                                    ELSE handlers[e]]
      /\ wanted' = wanted \cup (es \X {h})
      /\ UNCHANGED <<calls, held, alive>>
  BY DEF RegisterFor
<1>2. \A e \in es : Of(e) \cup {h} \subseteq Handlers
  BY OfTypes DEF Ind
<1>3. /\ DOMAIN handlers' \subseteq Events
      /\ handlers' \in [DOMAIN handlers' -> SUBSET Handlers]
  BY <1>1, <1>2 DEF Ind, Types
<1>4. \A d \in Events : Of(d)' = IF d \in es THEN Of(d) \cup {h} ELSE Of(d)
  BY <1>1 DEF Of
<1>5. Registered'
  BY <1>1, <1>4 DEF Ind, Registered
<1>6. wanted' \subseteq Events \X Handlers /\ held' \subseteq Handlers
  BY <1>1 DEF Ind, Types
<1>. QED  BY <1>1, <1>3, <1>5, <1>6, TablesKeep

LEMMA UnregisterEventKeeps ==
  ASSUME Ind, NEW e \in Events, UnregisterEvent(e)
  PROVE  Ind'
<1>1. /\ handlers' = [d \in DOMAIN handlers \ {e} |-> handlers[d]]
      /\ wanted' = wanted \ ({e} \X Handlers)
      /\ UNCHANGED <<calls, held, alive>>
  BY DEF UnregisterEvent
<1>2. /\ DOMAIN handlers' \subseteq Events
      /\ handlers' \in [DOMAIN handlers' -> SUBSET Handlers]
  BY <1>1 DEF Ind, Types
<1>3. \A d \in Events : d # e => Of(d)' = Of(d)
  BY <1>1 DEF Of
<1>4. Registered'
  BY <1>1, <1>3 DEF Ind, Registered
<1>5. wanted' \subseteq Events \X Handlers /\ held' \subseteq Handlers
  BY <1>1 DEF Ind, Types
<1>. QED  BY <1>1, <1>2, <1>4, <1>5, TablesKeep

LEMMA UnregisterKeeps ==
  ASSUME Ind, NEW e \in Events, NEW h \in Handlers, Unregister(e, h)
  PROVE  Ind'
<1>1. /\ handlers' = IF e \in DOMAIN handlers THEN With(e, Of(e) \ {h}) ELSE handlers
      /\ wanted' = wanted \ {<<e, h>>}
      /\ UNCHANGED <<calls, held, alive>>
  BY DEF Unregister
<1>2. /\ DOMAIN handlers' \subseteq Events
      /\ handlers' \in [DOMAIN handlers' -> SUBSET Handlers]
  <2>1. Of(e) \ {h} \subseteq Handlers
    BY OfTypes DEF Ind
  <2>2. CASE e \in DOMAIN handlers
    BY <2>1, <2>2, <1>1, WithTypes DEF Ind
  <2>3. CASE e \notin DOMAIN handlers
    BY <2>3, <1>1 DEF Ind, Types
  <2>. QED  BY <2>2, <2>3
<1>3. \A d \in Events : Of(d)' = IF d = e THEN Of(e) \ {h} ELSE Of(d)
  BY <1>1 DEF With, Of
<1>4. Registered'
  BY <1>1, <1>3 DEF Ind, Registered
<1>5. wanted' \subseteq Events \X Handlers /\ held' \subseteq Handlers
  BY <1>1 DEF Ind, Types
<1>. QED  BY <1>1, <1>2, <1>4, <1>5, TablesKeep

(* Unregister(handler), which leaves the tables alone, and Release.        *)
LEMMA ForgetKeeps ==
  ASSUME Ind, NEW h \in Handlers, UnregisterHandler(h) \/ Release(h)
  PROVE  Ind'
<1>1. /\ UNCHANGED <<handlers, calls, alive>>
      /\ wanted' \subseteq wanted /\ held' \subseteq held
  BY DEF UnregisterHandler, Release
<1>2. Registered'
  BY <1>1 DEF Ind, Registered, Of
<1>. QED  BY <1>1, <1>2, TablesKeep DEF Ind, Types

-----------------------------------------------------------------------------
(* Dispatch, the calls and the returns.                                    *)

LEMMA LastFrame ==
  ASSUME Types, calls # <<>>
  PROVE  /\ Len(calls) \in Nat \ {0}
         /\ Len(calls) \in DOMAIN calls
         /\ DOMAIN calls = 1..Len(calls)
         /\ Top \in Frame
BY DEF Types, Top

LEMMA DispatchKeeps ==
  ASSUME Ind, NEW e \in Events, Dispatch(e)
  PROVE  Ind'
<1> DEFINE f == [ event |-> e, todo |-> handlers[e], owned |-> handlers[e],
                  current |-> None, heard |-> {}, due |-> Due(e) ]
<1>1. calls' = Append(calls, f) /\ UNCHANGED <<handlers, held, wanted, alive>>
  BY DEF Dispatch
<1>2. f \in Frame
  BY DEF Dispatch, Ind, Types, Frame, Due
<1>3. Sound(f)
  BY DEF Dispatch, Ind, Types, Registered, Sound, Due, Of
<1>4. calls \in Seq(Frame)
  BY DEF Ind, Types
<1> HIDE DEF f
<1>5. /\ calls' \in Seq(Frame)
      /\ Len(calls') = Len(calls) + 1
      /\ \A i \in 1..Len(calls) : calls'[i] = calls[i]
      /\ calls'[Len(calls) + 1] = f
  BY <1>1, <1>2, <1>4, AppendProperties
<1>6. Len(calls) \in Nat /\ DOMAIN calls = 1..Len(calls) /\ DOMAIN calls' = 1..(Len(calls) + 1)
  BY <1>4, <1>5
<1>7. \A i \in DOMAIN calls' : Sound(calls'[i])
  BY <1>3, <1>5, <1>6 DEF Ind
<1>8. Nested'
  <2>1. calls # <<>> => calls[Len(calls)].current # None
    BY DEF Dispatch, UserCode, Outside, Inside, Top
  <2>2. \A i \in 1..Len(calls) : calls[i].current # None
    <3>1. Len(calls) \in Nat /\ (Len(calls) # 0 => calls # <<>>)
      BY <1>4
    <3>. QED  BY <2>1, <3>1 DEF Ind, Nested
  <2>. QED  BY <2>2, <1>5, <1>6 DEF Nested
<1>9. Types' /\ Registered'
  BY <1>1, <1>5 DEF Ind, Types, Registered, Of
<1>. QED  BY <1>7, <1>8, <1>9 DEF Ind, Sound

(* A step of the innermost activation.                                     *)
LEMMA TopKeeps ==
  ASSUME Ind, calls # <<>>, NEW f \in Frame, Sound(f),
         calls' = [calls EXCEPT ![Len(calls)] = f],
         UNCHANGED <<handlers, held, wanted, alive>>
  PROVE  Ind'
<1>1. /\ Len(calls) \in Nat \ {0} /\ Len(calls) \in DOMAIN calls
      /\ DOMAIN calls = 1..Len(calls)
  BY LastFrame DEF Ind
<1>2. calls' \in Seq(Frame) /\ Len(calls') = Len(calls) /\ DOMAIN calls' = DOMAIN calls
  BY <1>1 DEF Ind, Types
<1>3. \A i \in DOMAIN calls : calls'[i] = IF i = Len(calls) THEN f ELSE calls[i]
  BY <1>1
<1>4. \A i \in DOMAIN calls' : Sound(calls'[i])
  BY <1>2, <1>3 DEF Ind
<1>5. Nested'
  <2>1. \A i \in 1..(Len(calls) - 1) : i \in DOMAIN calls /\ i # Len(calls)
    <3>1. \A n \in Nat \ {0} : \A i \in 1..(n - 1) : i \in 1..n /\ i # n
      OBVIOUS
    <3>. QED  BY <3>1, <1>1
  <2>2. \A i \in 1..(Len(calls) - 1) : calls'[i] = calls[i]
    BY <1>3, <2>1
  <2>. QED  BY <1>2, <2>2 DEF Ind, Nested
<1>6. Types' /\ Registered'
  BY <1>2 DEF Ind, Types, Registered, Of
<1>. QED  BY <1>4, <1>5, <1>6 DEF Ind, Sound

LEMMA CallKeeps ==
  ASSUME Ind, NEW h \in Handlers, Call(h)
  PROVE  Ind'
<1> DEFINE f == [Top EXCEPT !.todo = @ \ {h}, !.current = h, !.heard = @ \cup {h}]
<1>1. calls # <<>> /\ h \in Top.todo /\ UNCHANGED <<handlers, held, wanted, alive>>
  BY DEF Call
<1>2. Len(calls) \in DOMAIN calls /\ Top \in Frame
  BY <1>1, LastFrame DEF Ind
<1>3. calls' = [calls EXCEPT ![Len(calls)] = f]
  BY <1>2 DEF Call, Top, Frame, Ind, Types
<1>4. f \in Frame
  BY <1>2 DEF Frame
<1>5. Sound(f)
  BY <1>1, <1>2 DEF Ind, Sound, Top, Frame
<1> HIDE DEF f
<1>. QED  BY <1>1, <1>3, <1>4, <1>5, TopKeeps

LEMMA ReturnKeeps ==
  ASSUME Ind, Return
  PROVE  Ind'
<1> DEFINE f == [Top EXCEPT !.current = None]
<1>1. calls # <<>> /\ UNCHANGED <<handlers, held, wanted, alive>>
  BY DEF Return, Inside
<1>2. Len(calls) \in DOMAIN calls /\ Top \in Frame
  BY <1>1, LastFrame DEF Ind
<1>3. calls' = [calls EXCEPT ![Len(calls)] = f]
  BY <1>2 DEF Return, Top, Frame, Ind, Types
<1>4. f \in Frame
  BY <1>2 DEF Frame
<1>5. Sound(f)
  BY <1>2 DEF Ind, Sound, Top, Frame
<1> HIDE DEF f
<1>. QED  BY <1>1, <1>3, <1>4, <1>5, TopKeeps

LEMMA EndDispatchKeeps ==
  ASSUME Ind, EndDispatch
  PROVE  Ind'
<1>1. /\ calls # <<>> /\ calls' = SubSeq(calls, 1, Len(calls) - 1)
      /\ UNCHANGED <<handlers, held, wanted, alive>>
  BY DEF EndDispatch
<1>2. Len(calls) \in Nat \ {0} /\ DOMAIN calls = 1..Len(calls)
  BY <1>1, LastFrame DEF Ind
<1>3. /\ calls' \in Seq(Frame) /\ DOMAIN calls' = 1..(Len(calls) - 1)
      /\ Len(calls') = Len(calls) - 1
      /\ \A i \in 1..(Len(calls) - 1) : calls'[i] = calls[i]
  BY <1>1, <1>2 DEF Ind, Types
<1>4. \A i \in DOMAIN calls' : Sound(calls'[i])
  BY <1>2, <1>3 DEF Ind
<1>5. Nested'
  BY <1>2, <1>3 DEF Ind, Nested
<1>6. Types' /\ Registered'
  BY <1>1, <1>3 DEF Ind, Types, Registered, Of
<1>. QED  BY <1>4, <1>5, <1>6 DEF Ind, Sound

LEMMA NextKeeps == Ind /\ [Next]_vars => Ind'
<1> SUFFICES ASSUME Ind, [Next]_vars
             PROVE  Ind'
  OBVIOUS
<1>1. ASSUME NEW e \in Events, NEW hs \in SUBSET Handlers, Register(e, hs)
      PROVE  Ind'
  BY <1>1, RegisterKeeps
<1>2. ASSUME NEW es \in SUBSET Events, NEW h \in Handlers, RegisterFor(es, h)
      PROVE  Ind'
  BY <1>2, RegisterForKeeps
<1>3. ASSUME NEW e \in Events, UnregisterEvent(e)
      PROVE  Ind'
  BY <1>3, UnregisterEventKeeps
<1>4. ASSUME NEW e \in Events, Dispatch(e)
      PROVE  Ind'
  BY <1>4, DispatchKeeps
<1>5. ASSUME NEW e \in Events, NEW h \in Handlers, Unregister(e, h)
      PROVE  Ind'
  BY <1>5, UnregisterKeeps
<1>6. ASSUME NEW h \in Handlers, UnregisterHandler(h) \/ Release(h)
      PROVE  Ind'
  BY <1>6, ForgetKeeps
<1>7. ASSUME NEW h \in Handlers, Call(h)
      PROVE  Ind'
  BY <1>7, CallKeeps
<1>8. CASE Return \/ EndDispatch
  BY <1>8, ReturnKeeps, EndDispatchKeeps
<1>9. CASE Throw
  BY <1>9 DEF Throw, Ind, Types, Nested, Registered, Of, Sound
<1>10. CASE UNCHANGED vars
  BY <1>10 DEF vars, Ind, Types, Nested, Registered, Of, Sound
<1>11. ASSUME NEW e \in Events, DispatchNothing(e)
       PROVE  Ind'
  BY <1>10, <1>11 DEF DispatchNothing
<1>. QED
  BY <1>1, <1>2, <1>3, <1>4, <1>5, <1>6, <1>7, <1>8, <1>9, <1>10, <1>11 DEF Next

THEOREM Invariance == Spec => []Ind
BY InitEstablishes, NextKeeps, PTL DEF Spec

(* Types; a handler that dispatches is always the one that is running.     *)
THEOREM TypeCorrect == Spec => []TypeOK
<1>1. Ind => TypeOK
  <2> SUFFICES ASSUME Ind
               PROVE  TypeOK
    OBVIOUS
  <2>1. handlers \in Tables
    BY DEF Ind, Types, Tables
  <2>. QED  BY <2>1 DEF Ind, Types, Nested, TypeOK
<1>. QED  BY <1>1, Invariance, PTL

(* No handler is destroyed while it runs, however it and others register,  *)
(* unregister, release and dispatch: the copy that Dispatch makes owns it. *)
THEOREM RunningHasOwner == Spec => []RunningIsOwned
<1>1. Ind => RunningIsOwned
  BY DEF Ind, Sound, RunningIsOwned
<1>. QED  BY <1>1, Invariance, PTL

(* A dispatch that ends was heard by everybody who was registered when it  *)
(* began.                                                                  *)
THEOREM AllHear == Spec => EveryoneHears
<1>1. Ind /\ [Next]_vars => [Len(calls') < Len(calls) => Top.due \subseteq Top.heard]_vars
  <2> SUFFICES ASSUME Ind, Next, Len(calls') < Len(calls)
               PROVE  Top.due \subseteq Top.heard
    OBVIOUS
  <2>1. calls' # calls /\ calls \in Seq(Frame) /\ Len(calls) \in Nat
    BY DEF Ind, Types
  <2>2. CASE EndDispatch
    BY <2>2, LastFrame DEF EndDispatch, Ind, Sound, Top
  <2>3. ASSUME NEW e \in Events, Dispatch(e)
        PROVE  FALSE
    <3>1. \E f : calls' = Append(calls, f)
      BY <2>3 DEF Dispatch
    <3>. QED  BY <3>1, <2>1
  <2>4. ASSUME Return \/ \E h \in Handlers : Call(h)
        PROVE  FALSE
    <3>1. DOMAIN calls' = DOMAIN calls
      BY <2>4 DEF Return, Call
    <3>. QED  BY <3>1, <2>1
  <2>. QED
    BY <2>1, <2>2, <2>3, <2>4
    DEF Next, Register, RegisterFor, UnregisterEvent, Unregister, UnregisterHandler,
        Release, DispatchNothing, Throw, vars
<1>. QED  BY <1>1, Invariance, PTL DEF Spec, EveryoneHears

-----------------------------------------------------------------------------
(***************************************************************************)
(* The events of connections and who waits for them (NetworkStatus): for   *)
(* any connections and waitables, and whichever translation unit is        *)
(* initialised first.                                                      *)
(***************************************************************************)

ClassNames == {"ReceiveResponse", "Connected", "SentRequest", "Disconnected", "Exception"}

Distinct(s) == \A i, j \in DOMAIN s : s[i] = s[j] => i = j
IsDrawn(c) == \A i \in DOMAIN unregistered : unregistered[i] # c

(* The numbers that were drawn differ, and none is larger than the number  *)
(* of classes that have drawn.                                             *)
Numbered ==
  /\ unregistered \in Seq(ClassNames) /\ Len(unregistered) <= 5
  /\ Distinct(unregistered)
  /\ types \in [ClassNames -> Int]
  /\ \A c \in ClassNames : 0 <= types[c] /\ types[c] <= 5 - Len(unregistered)
  /\ \A c, d \in ClassNames : IsDrawn(c) /\ IsDrawn(d) /\ types[c] = types[d] => c = d

StatusInd == WaitersSafe /\ Numbered

Lists(s, c1, c2, c3, c4, c5) ==
  /\ s \in Seq(ClassNames) /\ Len(s) = 5 /\ DOMAIN s = {1, 2, 3, 4, 5}
  /\ s[1] = c1 /\ s[2] = c2 /\ s[3] = c3 /\ s[4] = c4 /\ s[5] = c5

(* The two orders in which the initialisers may run.                       *)
LEMMA TheOrders ==
  /\ Lists(NetworkMessages \o ExceptionEvents,
           "ReceiveResponse", "Connected", "SentRequest", "Disconnected", "Exception")
  /\ Lists(ExceptionEvents \o NetworkMessages,
           "Exception", "ReceiveResponse", "Connected", "SentRequest", "Disconnected")
<1> DEFINE a == NetworkMessages
           b == ExceptionEvents
<1>1. a = <<"ReceiveResponse", "Connected", "SentRequest", "Disconnected">> /\ b = <<"Exception">>
  BY DEF NetworkMessages, ExceptionEvents
<1>2. a \in Seq(ClassNames) /\ b \in Seq(ClassNames)
  BY <1>1 DEF ClassNames
<1>3. /\ Len(a) = 4 /\ a[1] = "ReceiveResponse" /\ a[2] = "Connected"
      /\ a[3] = "SentRequest" /\ a[4] = "Disconnected"
      /\ Len(b) = 1 /\ b[1] = "Exception"
  BY <1>1
<1> HIDE DEF a, b
<1>4. /\ a \o b \in Seq(ClassNames) /\ Len(a \o b) = Len(a) + Len(b)
      /\ \A i \in 1..Len(a) + Len(b) :
           (a \o b)[i] = IF i <= Len(a) THEN a[i] ELSE b[i - Len(a)]
  BY <1>2, ConcatProperties
<1>5. /\ b \o a \in Seq(ClassNames) /\ Len(b \o a) = Len(b) + Len(a)
      /\ \A i \in 1..Len(b) + Len(a) :
           (b \o a)[i] = IF i <= Len(b) THEN b[i] ELSE a[i - Len(b)]
  BY <1>2, ConcatProperties
<1>6. DOMAIN (a \o b) = {1, 2, 3, 4, 5} /\ DOMAIN (b \o a) = {1, 2, 3, 4, 5}
  BY <1>3, <1>4, <1>5, LenProperties
<1>7. Lists(a \o b, "ReceiveResponse", "Connected", "SentRequest", "Disconnected", "Exception")
  BY <1>3, <1>4, <1>6 DEF Lists
<1>8. Lists(b \o a, "Exception", "ReceiveResponse", "Connected", "SentRequest", "Disconnected")
  BY <1>3, <1>5, <1>6 DEF Lists
<1>. QED  BY <1>7, <1>8 DEF a, b

LEMMA TheClasses == Classes = ClassNames
<1> DEFINE s == NetworkMessages \o ExceptionEvents
<1>1. Lists(s, "ReceiveResponse", "Connected", "SentRequest", "Disconnected", "Exception")
  BY TheOrders
<1>2. Classes = { s[i] : i \in DOMAIN s }
  BY DEF Classes, ToSet
<1> HIDE DEF s
<1>. QED  BY <1>1, <1>2 DEF ClassNames, Lists

LEMMA Largest ==
  ASSUME NEW t \in [ClassNames -> Int]
  PROVE  LET R == {0} \cup {t[c] : c \in ClassNames}
         IN  Max(R) \in R /\ \A x \in R : x <= Max(R)
<1> DEFINE R == {0} \cup {t[c] : c \in ClassNames}
<1>1. \E m \in R : \A x \in R : m >= x
  BY SMT DEF ClassNames
<1>2. Max(R) \in R /\ \A x \in R : Max(R) >= x
  BY <1>1 DEF Max
<1>3. R \subseteq Int
  OBVIOUS
<1>4. \A x \in R : x <= Max(R)
  BY <1>2, <1>3, SMT
<1>. QED  BY <1>2, <1>4

LEMMA SmallRemainder ==
  ASSUME NEW n \in Nat, NEW x \in Nat, x < n
  PROVE  x % n = x
BY SMT

LEMMA InitialiseKeepsNumbers ==
  ASSUME Numbered, Initialise
  PROVE  Numbered' /\ types' \in [ClassNames -> 0 .. EventTypes - 1]
<1> DEFINE first == Head(unregistered)
           rest == Tail(unregistered)
           R == {0} \cup {types[c] : c \in ClassNames}
           m == Max(R)
<1>1. /\ unregistered # <<>> /\ unregistered \in Seq(ClassNames) /\ Len(unregistered) <= 5
      /\ Len(unregistered) \in Nat /\ Len(unregistered) >= 1
      /\ Distinct(unregistered) /\ types \in [ClassNames -> Int]
      /\ \A c \in ClassNames : 0 <= types[c] /\ types[c] <= 5 - Len(unregistered)
  BY EmptySeq, LenProperties DEF Numbered, Initialise
<1>2. /\ first \in ClassNames /\ first = unregistered[1]
      /\ rest \in Seq(ClassNames) /\ Len(rest) = Len(unregistered) - 1
      /\ \A i \in 1..Len(rest) : rest[i] = unregistered[i + 1]
  BY <1>1, HeadTailProperties
<1>3. m \in Int /\ 0 <= m /\ m <= 5 - Len(unregistered) /\ \A c \in ClassNames : types[c] <= m
  <2>1. m \in R /\ \A x \in R : x <= m
    BY <1>1, Largest
  <2> HIDE DEF m
  <2>. QED  BY <1>1, <2>1, SMT
<1>4. RegisteredTypes = R
  BY TheClasses DEF RegisteredTypes, NullEvent
<1>5. types' = [types EXCEPT ![first] = (m + 1) % EventTypes] /\ unregistered' = rest
  BY <1>4 DEF Initialise, RegisterType
<1> HIDE DEF first, rest, m
<1>6. (m + 1) % EventTypes = m + 1
  <2>1. EventTypes \in Nat /\ m + 1 \in Nat /\ m + 1 < EventTypes
    BY <1>1, <1>3, EventTypesAssumption, SMT
  <2>. QED  BY <2>1, SmallRemainder
<1>7. /\ types' \in [ClassNames -> Int] /\ types'[first] = m + 1
      /\ \A c \in ClassNames : c # first => types'[c] = types[c]
  BY <1>1, <1>2, <1>3, <1>5, <1>6
<1>8. \A c \in ClassNames : 0 <= types'[c] /\ types'[c] <= 5 - Len(unregistered')
  BY <1>1, <1>2, <1>3, <1>5, <1>7, SMT
<1>9. DOMAIN unregistered = 1..Len(unregistered) /\ DOMAIN rest = 1..Len(rest)
  BY <1>1, <1>2, LenProperties
<1>10. Distinct(rest)
  <2> SUFFICES ASSUME NEW i \in 1..Len(rest), NEW j \in 1..Len(rest), rest[i] = rest[j]
               PROVE  i = j
    BY <1>9 DEF Distinct
  <2>1. i + 1 \in DOMAIN unregistered /\ j + 1 \in DOMAIN unregistered
    BY <1>1, <1>2, <1>9, SMT
  <2>2. unregistered[i + 1] = unregistered[j + 1]
    BY <1>2
  <2>3. i + 1 = j + 1
    BY <1>1, <2>1, <2>2 DEF Distinct
  <2>. QED  BY <2>3, SMT
<1>11. \A c \in ClassNames : IsDrawn(c)' => c = first \/ IsDrawn(c)
  <2> SUFFICES ASSUME NEW c \in ClassNames, IsDrawn(c)', c # first,
                      NEW i \in DOMAIN unregistered
               PROVE  unregistered[i] # c
    BY DEF IsDrawn
  <2>1. CASE i = 1
    BY <1>2, <2>1
  <2>2. CASE i > 1
    <3>1. i - 1 \in DOMAIN rest /\ rest[i - 1] = unregistered[i]
      BY <1>1, <1>2, <1>9, <2>2, SMT
    <3>. QED  BY <1>5, <3>1 DEF IsDrawn
  <2>. QED  BY <1>9, <2>1, <2>2, SMT
<1>12. \A c, d \in ClassNames :
         IsDrawn(c)' /\ IsDrawn(d)' /\ types'[c] = types'[d] => c = d
  <2> SUFFICES ASSUME NEW c \in ClassNames, NEW d \in ClassNames,
                      IsDrawn(c)', IsDrawn(d)', types'[c] = types'[d]
               PROVE  c = d
    OBVIOUS
  <2>1. \A x \in ClassNames : x # first => types'[x] # types'[first]
    BY <1>1, <1>3, <1>7, SMT
  <2>2. CASE c # first /\ d # first
    <3>1. IsDrawn(c) /\ IsDrawn(d) /\ types[c] = types[d]
      BY <1>7, <1>11, <2>2
    <3>. QED  BY <3>1 DEF Numbered
  <2>. QED  BY <2>1, <2>2
<1>13. \A c \in ClassNames : types'[c] \in 0 .. EventTypes - 1
  <2>1. types' \in [ClassNames -> Int] /\ Len(unregistered') >= 0
    BY <1>2, <1>5, <1>7
  <2>. QED  BY <1>2, <1>5, <1>8, <2>1, EventTypesAssumption, SMT
<1>. QED  BY <1>1, <1>2, <1>5, <1>7, <1>8, <1>10, <1>12, <1>13, SMT DEF Numbered

-----------------------------------------------------------------------------
(* The waitables.                                                          *)

OneRole(s) == /\ s.sending \cap s.reading = {}
              /\ {s.connecting, s.disconnecting} \cap (s.sending \cup s.reading) = {}
              /\ s.connecting = s.disconnecting => s.connecting = Null

LastWords == {"connected", "disconnected"}

(* WaitersSafe, waitable by waitable.                                      *)
WaitersApart ==
  /\ StatusTypeOK /\ ~misused
  /\ \A id \in Ids : OneRole(status[id])
  /\ \A id \in Ids : \A w \in Placed(status[id]) : w \notin deleted
  /\ \A id, other \in Ids : \A w \in Placed(status[id]) :
       w \in Placed(status[other]) => id = other
  /\ \A w \in Waiters :
       /\ heard[w] # {} => w \in deleted \/ \E id \in Ids : w \in Placed(status[id])
       /\ heard[w] \cap LastWords # {} => w \in deleted

LEMMA WaiterByWaiter == WaitersSafe <=> WaitersApart
<1>1. \A w : w \in AllPlaced <=> \E id \in Ids : w \in Placed(status[id])
  BY DEF AllPlaced
<1>2. AllPlaced \cap deleted = {} <=>
        \A id \in Ids : \A w \in Placed(status[id]) : w \notin deleted
  BY <1>1
<1>3. (\A id, other \in Ids :
         id # other => Placed(status[id]) \cap Placed(status[other]) = {}) <=>
        \A id, other \in Ids : \A w \in Placed(status[id]) :
          w \in Placed(status[other]) => id = other
  OBVIOUS
<1>. QED  BY <1>1, <1>2, <1>3, Zenon DEF WaitersSafe, WaitersApart, OneRole, LastWords

LEMMA WaiterByWaiterNext == WaitersSafe' <=> WaitersApart'
BY WaiterByWaiter, PTL

(* What a step may do to the waitables of one connection: take new ones,   *)
(* delete some and tell some something; the last words only to those that  *)
(* it deletes.                                                             *)
LEMMA WaitersKept ==
  ASSUME WaitersSafe, StatusTypeOK', ~misused',
         NEW id \in Ids, NEW new, NEW gone,
         status' = [status EXCEPT ![id] = new], deleted' = deleted \cup gone,
         OneRole(new),
         gone \subseteq Placed(status[id]),
         Placed(new) \cap gone = {},
         Placed(status[id]) \subseteq Placed(new) \cup gone,
         \A w \in Placed(new) : w \in Placed(status[id]) \cup Fresh,
         \A w \in Waiters : /\ heard'[w] # heard[w] => w \in Placed(status[id])
                            /\ heard'[w] \cap LastWords # heard[w] \cap LastWords => w \in gone
  PROVE  WaitersSafe'
<1> DEFINE Waits(i) == Placed(status[i])
           Waits1(i) == Placed(status'[i])
<1>1. status \in [Ids -> Statuses]
  BY DEF WaitersSafe, StatusTypeOK
<1>2. Waits1(id) = Placed(new) /\ \A i \in Ids : i # id => Waits1(i) = Waits(i)
  BY <1>1
<1>3. \A w : w \in Fresh => w \notin deleted /\ \A i \in Ids : w \notin Waits(i)
  BY DEF Fresh, AllPlaced
<1>4. /\ \A i \in Ids : OneRole(status[i])
      /\ \A i \in Ids : \A w \in Waits(i) : w \notin deleted
      /\ \A i, j \in Ids : \A w \in Waits(i) : w \in Waits(j) => i = j
      /\ \A w \in Waiters :
           /\ heard[w] # {} => w \in deleted \/ \E i \in Ids : w \in Waits(i)
           /\ heard[w] \cap LastWords # {} => w \in deleted
  BY WaiterByWaiter DEF WaitersApart
<1>5. \A i \in Ids : OneRole(status'[i])
  BY <1>1, <1>4
<1> HIDE DEF Waits, Waits1
<1>6. \A i \in Ids : \A w \in Waits1(i) : w \notin deleted'
  BY <1>2, <1>3, <1>4 DEF Waits
<1>7. \A i, j \in Ids : \A w \in Waits1(i) : w \in Waits1(j) => i = j
  BY <1>2, <1>3, <1>4 DEF Waits
<1>8. \A w \in Waiters : heard'[w] # {} => w \in deleted' \/ \E i \in Ids : w \in Waits1(i)
  BY <1>2, <1>4 DEF Waits
<1>9. \A w \in Waiters : heard'[w] \cap LastWords # {} => w \in deleted'
  BY <1>4
<1>10. WaitersApart'
  BY <1>5, <1>6, <1>7, <1>8, <1>9, WaiterByWaiter DEF WaitersApart, Waits1
<1>. QED  BY <1>10, WaiterByWaiterNext

(* TypeOK, with the names of the classes spelled out.                      *)
StatusTypes ==
  /\ \A i \in DOMAIN unregistered : unregistered[i] \in ClassNames
  /\ types \in [ClassNames -> 0 .. EventTypes - 1]
  /\ status \in [Ids -> Statuses]
  /\ connections \subseteq Ids
  /\ deleted \subseteq Waiters
  /\ misused \in BOOLEAN
  /\ heard \in [Waiters -> SUBSET Signals]
  /\ event \in ClassNames \cup {Null}

LEMMA TypesSpelled == StatusTypeOK <=> StatusTypes
<1>1. ToSet(unregistered) \subseteq ClassNames <=>
        \A i \in DOMAIN unregistered : unregistered[i] \in ClassNames
  BY DEF ToSet
<1>. QED  BY <1>1, TheClasses, Zenon DEF StatusTypeOK, StatusTypes

LEMMA TypesSpelledNext == StatusTypeOK' <=> StatusTypes'
BY TypesSpelled, PTL

LEMMA StatusIndTypes ==
  ASSUME StatusInd
  PROVE  StatusTypes /\ ~misused
BY TypesSpelled DEF StatusInd, WaitersSafe

LEMMA StatusInitEstablishes ==
  ASSUME StatusInit
  PROVE  StatusInd
<1>1. \/ Lists(unregistered, "ReceiveResponse", "Connected", "SentRequest", "Disconnected", "Exception")
      \/ Lists(unregistered, "Exception", "ReceiveResponse", "Connected", "SentRequest", "Disconnected")
  BY TheOrders DEF StatusInit
<1>4. types = [c \in ClassNames |-> 0]
  BY TheClasses DEF StatusInit
<1>5. unregistered \in Seq(ClassNames) /\ Len(unregistered) = 5
  BY <1>1 DEF Lists
<1>7. Distinct(unregistered)
  BY <1>1 DEF Lists, Distinct
<1>8. Numbered
  <2>1. \A c \in ClassNames : ~IsDrawn(c)
    BY <1>1 DEF Lists, IsDrawn, ClassNames
  <2>. QED  BY <1>4, <1>5, <1>7, <2>1 DEF Numbered
<1>9. StatusTypes
  <2>1. types \in [ClassNames -> 0 .. EventTypes - 1]
    BY <1>4, EventTypesAssumption, SMT
  <2>2. status \in [Ids -> Statuses]
    BY DEF StatusInit, NoStatus, Statuses
  <2>3. \A i \in DOMAIN unregistered : unregistered[i] \in ClassNames
    BY <1>1 DEF Lists, ClassNames
  <2>4. heard \in [Waiters -> SUBSET Signals]
    BY DEF StatusInit
  <2>. QED  BY <2>1, <2>2, <2>3, <2>4 DEF StatusTypes, StatusInit
<1>10. /\ Placed(NoStatus) = {} /\ OneRole(NoStatus)
  BY DEF Placed, NoStatus, OneRole
<1>11. WaitersApart
  BY <1>9, <1>10, TypesSpelled DEF WaitersApart, StatusInit
<1>. QED  BY <1>8, <1>11, WaiterByWaiter DEF StatusInd

LEMMA WatchIsSafe ==
  ASSUME StatusInd, NEW id \in Ids, Watch(id)
  PROVE  WaitersSafe'
<1> DEFINE s == status[id]
           wait == [s EXCEPT !.exists = TRUE]
<1>0. /\ StatusTypes /\ ~misused /\ WaitersSafe /\ s \in Statuses
      /\ Null \notin Waiters /\ OneRole(s)
  BY StatusIndTypes, WaiterByWaiter, NullAssumption
  DEF StatusInd, StatusTypes, WaitersApart
<1>1. PICK w \in Fresh : status' \in
        {[status EXCEPT ![id] = new] : new \in
          {[wait EXCEPT !.disconnecting = w]}
            \cup (IF s.connecting = Null
                  THEN {[wait EXCEPT !.connecting = w],
                        [wait EXCEPT !.sending = @ \cup {w}],
                        [wait EXCEPT !.reading = @ \cup {w}]}
                  ELSE {})}
  BY Zenon DEF Watch
<1>2. w \in Waiters /\ w \notin Placed(s) /\ w # Null
  BY <1>0 DEF Fresh, AllPlaced
<1>3. s.disconnecting = Null
  BY DEF Watch
<1>4. PICK new :
        /\ status' = [status EXCEPT ![id] = new]
        /\ \/ new = [wait EXCEPT !.disconnecting = w]
           \/ s.connecting = Null /\ new = [wait EXCEPT !.connecting = w]
           \/ s.connecting = Null /\ new = [wait EXCEPT !.sending = @ \cup {w}]
           \/ s.connecting = Null /\ new = [wait EXCEPT !.reading = @ \cup {w}]
  <2>1. CASE s.connecting = Null
    BY <1>1, <2>1, Zenon
  <2>2. CASE s.connecting # Null
    BY <1>1, <2>2, Zenon
  <2>. QED  BY <2>1, <2>2
<1> DEFINE Fits == /\ new \in Statuses
                   /\ Placed(new) = Placed(s) \cup {w}
                   /\ OneRole(new)
<1>5. Fits
  <2>0. /\ wait \in Statuses /\ wait.disconnecting = Null
        /\ wait.connecting = s.connecting /\ wait.sending = s.sending
        /\ wait.reading = s.reading
    BY <1>0, <1>3 DEF Statuses
  <2>00. /\ Placed(wait) = Placed(s) /\ OneRole(wait)
    BY <1>0, <2>0 DEF Placed, OneRole
  <2> HIDE DEF wait, s
  <2>1. CASE new = [wait EXCEPT !.disconnecting = w]
    <3>1. new \in Statuses
      BY <1>2, <2>0, <2>1 DEF Statuses
    <3>2. /\ new.disconnecting = w /\ new.connecting = wait.connecting
          /\ new.sending = wait.sending /\ new.reading = wait.reading
      BY <2>0, <2>1 DEF Statuses
    <3>. QED  BY <1>2, <2>0, <2>00, <3>1, <3>2 DEF Placed, OneRole
  <2>2. CASE s.connecting = Null /\ new = [wait EXCEPT !.connecting = w]
    <3>1. new \in Statuses
      BY <1>2, <2>0, <2>2 DEF Statuses
    <3>2. /\ new.connecting = w /\ new.disconnecting = wait.disconnecting
          /\ new.sending = wait.sending /\ new.reading = wait.reading
      BY <2>0, <2>2 DEF Statuses
    <3>. QED  BY <1>2, <2>0, <2>00, <2>2, <3>1, <3>2 DEF Placed, OneRole
  <2>3. CASE s.connecting = Null /\ new = [wait EXCEPT !.sending = @ \cup {w}]
    <3>1. new \in Statuses
      BY <1>2, <2>0, <2>3 DEF Statuses
    <3>2. /\ new.connecting = wait.connecting /\ new.disconnecting = wait.disconnecting
          /\ new.sending = wait.sending \cup {w} /\ new.reading = wait.reading
      BY <2>0, <2>3 DEF Statuses
    <3>. QED  BY <1>2, <2>0, <2>00, <2>3, <3>1, <3>2 DEF Placed, OneRole
  <2>4. CASE s.connecting = Null /\ new = [wait EXCEPT !.reading = @ \cup {w}]
    <3>1. new \in Statuses
      BY <1>2, <2>0, <2>4 DEF Statuses
    <3>2. /\ new.connecting = wait.connecting /\ new.disconnecting = wait.disconnecting
          /\ new.sending = wait.sending /\ new.reading = wait.reading \cup {w}
      BY <2>0, <2>4 DEF Statuses
    <3>. QED  BY <1>2, <2>0, <2>00, <2>4, <3>1, <3>2 DEF Placed, OneRole
  <2>. QED  BY <1>4, <2>1, <2>2, <2>3, <2>4 DEF s
<1>6. /\ UNCHANGED <<unregistered, types, connections, deleted, misused, heard>>
      /\ event' = Null
  BY DEF Watch
<1>7. StatusTypes'
  BY <1>0, <1>4, <1>5, <1>6 DEF StatusTypes
<1>8. deleted' = deleted \cup {}
  BY <1>6
<1>. QED  BY <1>0, <1>4, <1>5, <1>6, <1>7, <1>8, TypesSpelledNext, WaitersKept

LEMMA ConnectedIsSafe ==
  ASSUME StatusInd, NEW id \in Ids,
         Connected(id),
         UNCHANGED <<unregistered, types>>, event' \in ClassNames
  PROVE  WaitersSafe'
<1> DEFINE s == status[id]
           told == {s.connecting} \ {Null}
           new == [s EXCEPT !.connecting = Null]
<1>0. /\ StatusTypes /\ ~misused /\ WaitersSafe /\ s \in Statuses
      /\ Null \notin Waiters /\ OneRole(s) /\ \A w \in Placed(s) : w \notin deleted
  BY StatusIndTypes, WaiterByWaiter, NullAssumption
  DEF StatusInd, StatusTypes, WaitersApart
<1>1. /\ misused' = (misused \/ told \cap deleted # {})
      /\ heard' = [w \in Waiters |-> heard[w] \cup Tell(told, "connected")[w]]
      /\ deleted' = deleted \cup told
      /\ status' = [status EXCEPT ![id] = new]
      /\ connections' = connections
  BY DEF Connected, Use, Heard, Delete
<1>2. told \subseteq Placed(s) /\ told \subseteq Waiters
  BY <1>0 DEF Placed, Statuses
<1>3. /\ new \in Statuses
      /\ new.connecting = Null /\ new.disconnecting = s.disconnecting
      /\ new.sending = s.sending /\ new.reading = s.reading
  BY <1>0 DEF Statuses
<1> HIDE DEF new
<1>4. /\ OneRole(new) /\ Placed(new) \cap told = {}
      /\ Placed(new) \subseteq Placed(s)
      /\ Placed(s) \subseteq Placed(new) \cup told
  BY <1>0, <1>3 DEF OneRole, Placed, Statuses
<1>5. ~misused'
  BY <1>0, <1>1, <1>2
<1>6. \A w \in Waiters :
        /\ heard'[w] = heard[w] \cup (IF w \in told THEN {"connected"} ELSE {})
        /\ w \notin told => heard'[w] = heard[w]
  BY <1>1 DEF Tell
<1>7. heard' \in [Waiters -> SUBSET Signals]
  <2>1. DOMAIN heard' = Waiters /\ heard' = [w \in Waiters |-> heard'[w]]
    BY <1>1
  <2>2. \A w \in Waiters : heard'[w] \subseteq Signals
    <3>1. "connected" \in Signals /\ \A w \in Waiters : heard[w] \subseteq Signals
      BY <1>0 DEF StatusTypes, Signals
    <3>. QED  BY <1>6, <3>1
  <2>. QED  BY <2>1, <2>2
<1>8. StatusTypes'
  BY <1>0, <1>1, <1>2, <1>3, <1>5, <1>7 DEF StatusTypes
<1> HIDE DEF told, s
<1>. QED  BY <1>0, <1>1, <1>2, <1>4, <1>5, <1>6, <1>8, TypesSpelledNext, WaitersKept DEF s

LEMMA DisconnectedIsSafe ==
  ASSUME StatusInd, NEW id \in Ids,
         Disconnected(id),
         UNCHANGED <<unregistered, types>>, event' \in ClassNames
  PROVE  WaitersSafe'
<1> DEFINE s == status[id]
           failed == {s.connecting} \ {Null}
           aborted == IF failed = {} THEN s.reading \cup s.sending ELSE {}
           last == {s.disconnecting} \ {Null}
           said(w) == Tell(failed, "connect error")[w]
                        \cup Tell(aborted, "aborted")[w]
                        \cup Tell(last, "disconnected")[w]
           told == [w \in Waiters |-> said(w)]
           all == failed \cup aborted \cup last
<1>0. /\ StatusTypes /\ ~misused /\ WaitersSafe /\ s \in Statuses
      /\ Null \notin Waiters /\ OneRole(s) /\ \A w \in Placed(s) : w \notin deleted
  BY StatusIndTypes, WaiterByWaiter, NullAssumption
  DEF StatusInd, StatusTypes, WaitersApart
<1>1. /\ misused' = (misused \/ all \cap deleted # {})
      /\ heard' = [w \in Waiters |-> heard[w] \cup told[w]]
      /\ IF last = {} THEN UNCHANGED <<status, connections, deleted>> ELSE Close(id)
  BY DEF Disconnected, Use, Heard
<1>2. all \subseteq Placed(s) /\ Placed(s) \subseteq Waiters
  BY <1>0 DEF Placed, Statuses
<1>3. \A w \in Waiters : said(w) = (IF w \in failed THEN {"connect error"} ELSE {})
                                     \cup (IF w \in aborted THEN {"aborted"} ELSE {})
                                     \cup (IF w \in last THEN {"disconnected"} ELSE {})
  BY DEF Tell
<1> HIDE DEF said
<1>4. \A w \in Waiters : heard'[w] = heard[w] \cup said(w)
  BY <1>1
<1> HIDE DEF told
<1>5. ~misused'
  BY <1>0, <1>1, <1>2
<1>6. \A w \in Waiters : said(w) \subseteq Signals
  BY <1>3 DEF Signals
<1>7. heard' \in [Waiters -> SUBSET Signals]
  <2>1. heard' = [w \in Waiters |-> heard'[w]]
    BY <1>1
  <2>2. \A w \in Waiters : heard[w] \subseteq Signals
    BY <1>0 DEF StatusTypes
  <2>. QED  BY <1>4, <1>6, <2>1, <2>2
<1>8. \A w \in Waiters : /\ heard'[w] # heard[w] => w \in all
                         /\ heard'[w] \cap LastWords # heard[w] \cap LastWords => w \in last
  <2>1. \A w \in Waiters : w \notin all => said(w) = {}
    BY <1>3
  <2>2. \A w \in Waiters : w \notin last => said(w) \cap LastWords = {}
    BY <1>3 DEF LastWords
  <2>. QED  BY <1>4, <2>1, <2>2
<1>9. last \subseteq all
  OBVIOUS
<1> HIDE DEF all
<1>10. CASE last = {}
  <2>1. status' = [status EXCEPT ![id] = s] /\ deleted' = deleted \cup {}
    BY <1>0, <1>1, <1>10 DEF StatusTypes
  <2>2. StatusTypes'
    BY <1>0, <1>1, <1>5, <1>7, <1>10 DEF StatusTypes
  <2> HIDE DEF s, last
  <2>. QED  BY <1>0, <1>2, <1>5, <1>8, <1>10, <2>1, <2>2, TypesSpelledNext, WaitersKept DEF s
<1>11. CASE last # {}
  <2>1. /\ status' = [status EXCEPT ![id] = NoStatus]
        /\ deleted' = deleted \cup Placed(s)
        /\ connections' = connections \ {id}
    BY <1>1, <1>11 DEF Close, Delete
  <2>2. /\ NoStatus \in Statuses /\ OneRole(NoStatus)
        /\ Placed(NoStatus) = {}
    BY DEF NoStatus, Statuses, OneRole, Placed
  <2>3. StatusTypes'
    <3>1. status' \in [Ids -> Statuses]
      BY <1>0, <2>1, <2>2 DEF StatusTypes
    <3>2. deleted' \subseteq Waiters /\ connections' \subseteq Ids
      BY <1>0, <1>2, <2>1 DEF StatusTypes
    <3>. QED  BY <1>0, <1>1, <1>7, <3>1, <3>2 DEF StatusTypes
  <2> HIDE DEF s, last
  <2>. QED  BY <1>0, <1>2, <1>5, <1>8, <1>9, <2>1, <2>2, <2>3, TypesSpelledNext, WaitersKept DEF s
<1>. QED  BY <1>10, <1>11

(* Nobody that waits is touched.                                           *)
LEMMA WaitersUntouched ==
  ASSUME WaitersSafe, StatusTypeOK',
         UNCHANGED <<status, deleted, misused, heard>>
  PROVE  WaitersSafe'
BY WaiterByWaiter, WaiterByWaiterNext DEF WaitersApart

LEMMA StatusNextKeeps ==
  ASSUME StatusInd, [StatusNext]_statusVars
  PROVE  StatusInd'
<1>0. StatusTypes /\ WaitersSafe /\ Numbered
  BY StatusIndTypes DEF StatusInd
<1>1. ASSUME UNCHANGED <<unregistered, types>>
      PROVE  Numbered'
  BY <1>0, <1>1 DEF Numbered, IsDrawn
<1>2. CASE Initialise
  <2>1. UNCHANGED <<status, connections, deleted, misused, heard, event>>
    BY <1>2 DEF Initialise, waiterVars
  <2>2. Numbered' /\ types' \in [ClassNames -> 0 .. EventTypes - 1]
    BY <1>0, <1>2, InitialiseKeepsNumbers
  <2>3. \A i \in DOMAIN unregistered' : unregistered'[i] \in ClassNames
    BY <2>2 DEF Numbered
  <2>4. StatusTypes'
    BY <1>0, <2>1, <2>2, <2>3 DEF StatusTypes
  <2>. QED  BY <1>0, <2>1, <2>2, <2>4, TypesSpelledNext, WaitersUntouched DEF StatusInd
<1>3. ASSUME NEW id \in Ids, CreateConnection(id) \/ LoseConnection(id)
      PROVE  StatusInd'
  <2>1. /\ UNCHANGED <<unregistered, types, status, deleted, misused, heard>>
        /\ event' = Null /\ connections' \subseteq Ids
    BY <1>0, <1>3 DEF StatusTypes, CreateConnection, LoseConnection
  <2>2. StatusTypes'
    BY <1>0, <2>1 DEF StatusTypes
  <2>. QED  BY <1>0, <1>1, <2>1, <2>2, TypesSpelledNext, WaitersUntouched DEF StatusInd
<1>4. ASSUME NEW id \in Ids, Watch(id)
      PROVE  StatusInd'
  BY <1>1, <1>4, WatchIsSafe DEF StatusInd, Watch
<1>5. ASSUME NEW id \in Ids, NEW c \in Classes, Notify(c, id)
      PROVE  StatusInd'
  <2>1. UNCHANGED <<unregistered, types>> /\ event' \in ClassNames
    BY <1>5, TheClasses DEF Notify
  <2>2. CASE Connected(id)
    BY <1>1, <2>1, <2>2, ConnectedIsSafe DEF StatusInd
  <2>3. CASE Disconnected(id)
    BY <1>1, <2>1, <2>3, DisconnectedIsSafe DEF StatusInd
  <2>4. CASE UNCHANGED waiterVars
    <3>1. UNCHANGED <<status, connections, deleted, misused, heard>>
      BY <2>4 DEF waiterVars
    <3>2. StatusTypes'
      BY <1>0, <2>1, <3>1 DEF StatusTypes
    <3>. QED  BY <1>0, <1>1, <2>1, <3>1, <3>2, TypesSpelledNext, WaitersUntouched DEF StatusInd
  <2>. QED  BY <1>5, <2>2, <2>3, <2>4 DEF Notify
<1>6. CASE UNCHANGED statusVars
  <2>1. /\ UNCHANGED <<unregistered, types, status, connections, deleted, misused, heard, event>>
    BY <1>6 DEF statusVars, waiterVars
  <2>2. StatusTypes'
    BY <1>0, <2>1 DEF StatusTypes
  <2>. QED  BY <1>0, <1>1, <2>1, <2>2, TypesSpelledNext, WaitersUntouched DEF StatusInd
<1>. QED  BY <1>2, <1>3, <1>4, <1>5, <1>6 DEF StatusNext

THEOREM StatusInvariance == StatusSpec => []StatusInd
<1>1. StatusInit => StatusInd
  BY StatusInitEstablishes
<1>2. StatusInd /\ [StatusNext]_statusVars => StatusInd'
  BY StatusNextKeeps
<1>. QED  BY <1>1, <1>2, PTL DEF StatusSpec

(* No waitable is used after its deletion or waits in two places, and the  *)
(* last that it hears is that it is connected or disconnected, whatever    *)
(* the connections, the waitables and the order of the initialisers.       *)
THEOREM WaitersAreSafe == StatusSpec => []WaitersSafe
<1>1. StatusInd => WaitersSafe
  BY DEF StatusInd
<1>. QED  BY <1>1, StatusInvariance, PTL

(* Once the initialisers have run, every class has a number of its own, so *)
(* that an event reaches the handler of its class and no other.            *)
LEMMA OwnNumber ==
  ASSUME StatusInd, Running, NEW c \in ClassNames, NEW d \in ClassNames,
         types[c] = types[d]
  PROVE  c = d
<1>1. \A x \in ClassNames : IsDrawn(x)
  BY DEF Running, IsDrawn
<1>. QED  BY <1>1 DEF StatusInd, Numbered

(* A waitable hears that it is connected from a ConnectedEvent only, and   *)
(* anything else from a DisconnectedEvent only (event_cast).               *)
THEOREM WaitersHearTheTruth == StatusSpec => ToldTheTruth
<1> DEFINE Truth == \A w \in Waiters :
             /\ "connected" \in New(w) => event' = "Connected"
             /\ New(w) \ {"connected"} # {} => event' = "Disconnected"
<1>1. ASSUME StatusInd, [StatusNext]_statusVars
      PROVE  Truth
  <2>0. StatusTypes
    BY <1>1, StatusIndTypes
  <2>1. CASE heard' = heard
    BY <2>1 DEF New
  <2>2. ASSUME NEW id \in Ids, NEW c \in Classes, Notify(c, id)
        PROVE  Truth
    <3>0. /\ c \in ClassNames /\ event' = c /\ Running
          /\ "Connected" \in ClassNames /\ "Disconnected" \in ClassNames
      BY <2>2, TheClasses DEF Notify, ClassNames
    <3>1. CASE types["Connected"] = types[c] /\ Connected(id)
      <4>1. c = "Connected"
        BY <1>1, <3>0, <3>1, OwnNumber
      <4>2. \A w \in Waiters : heard'[w] = heard[w]
              \cup Tell({status[id].connecting} \ {Null}, "connected")[w]
        BY <3>1 DEF Connected, Heard
      <4>3. \A w \in Waiters : New(w) \subseteq {"connected"}
        BY <4>2 DEF Tell, New
      <4>. QED  BY <3>0, <4>1, <4>3
    <3>2. CASE types["Disconnected"] = types[c] /\ Disconnected(id)
      <4>1. c = "Disconnected"
        BY <1>1, <3>0, <3>2, OwnNumber
      <4>2. PICK f, a, l : \A w \in Waiters : heard'[w] = heard[w]
              \cup (Tell(f, "connect error")[w] \cup Tell(a, "aborted")[w]
                      \cup Tell(l, "disconnected")[w])
        <5> DEFINE f == {status[id].connecting} \ {Null}
                   a == IF f = {} THEN status[id].reading \cup status[id].sending ELSE {}
                   l == {status[id].disconnecting} \ {Null}
        <5>1. \A w \in Waiters : heard'[w] = heard[w]
                \cup (Tell(f, "connect error")[w] \cup Tell(a, "aborted")[w]
                        \cup Tell(l, "disconnected")[w])
          BY <3>2 DEF Disconnected, Heard
        <5> HIDE DEF f, a, l
        <5>. QED  BY <5>1
      <4>3. \A w \in Waiters : "connected" \notin New(w)
        <5>1. \A w \in Waiters : /\ "connected" \notin Tell(f, "connect error")[w]
                                 /\ "connected" \notin Tell(a, "aborted")[w]
                                 /\ "connected" \notin Tell(l, "disconnected")[w]
          BY DEF Tell
        <5>. QED  BY <4>2, <5>1 DEF New
      <4>. QED  BY <3>0, <4>1, <4>3
    <3>3. CASE UNCHANGED waiterVars
      BY <2>1, <3>3 DEF waiterVars
    <3>. QED  BY <2>2, <3>1, <3>2, <3>3 DEF Notify
  <2>. QED
    BY <1>1, <2>1, <2>2 DEF StatusNext, Initialise, CreateConnection,
       LoseConnection, Watch, statusVars, waiterVars
<1>2. StatusInd /\ [StatusNext]_statusVars => [Truth]_statusVars
  BY <1>1
<1>. QED  BY <1>2, StatusInvariance, PTL DEF StatusSpec, ToldTheTruth

(* The status of a connection goes only when the disconnection that was    *)
(* asked for is announced, and takes its waitables and the connection along *)
(* (PrivateData::Close).                                                   *)
THEOREM StatusClosedTogether == StatusSpec => ClosedTogether
<1> DEFINE Together(id) ==
             status[id].exists /\ ~status'[id].exists =>
               /\ status[id].disconnecting # Null
               /\ "disconnected" \in heard'[status[id].disconnecting]
               /\ Placed(status[id]) \subseteq deleted'
               /\ id \notin connections'
           All == \A id \in Ids : Together(id)
<1>1. ASSUME StatusInd, [StatusNext]_statusVars
      PROVE  All
  <2>0. StatusTypes /\ \A id \in Ids : status[id] \in Statuses
    BY <1>1, StatusIndTypes DEF StatusTypes
  <2>1. ASSUME NEW other \in Ids, NEW new,
               status' = [status EXCEPT ![other] = new], new.exists \/ Together(other)
        PROVE  All
    BY <2>0, <2>1 DEF StatusTypes
  <2>2. CASE status' = status
    BY <2>2
  <2>3. ASSUME NEW other \in Ids, Watch(other)
        PROVE  All
    <3> DEFINE old == status[other]
               wait == [old EXCEPT !.exists = TRUE]
    <3>1. PICK w : status' \in
            {[status EXCEPT ![other] = new] : new \in
              {[wait EXCEPT !.disconnecting = w]}
                \cup (IF old.connecting = Null
                      THEN {[wait EXCEPT !.connecting = w],
                            [wait EXCEPT !.sending = @ \cup {w}],
                            [wait EXCEPT !.reading = @ \cup {w}]}
                      ELSE {})}
      BY <2>3, Zenon DEF Watch
    <3>2. PICK new :
            /\ status' = [status EXCEPT ![other] = new]
            /\ \/ new = [wait EXCEPT !.disconnecting = w]
               \/ new = [wait EXCEPT !.connecting = w]
               \/ new = [wait EXCEPT !.sending = @ \cup {w}]
               \/ new = [wait EXCEPT !.reading = @ \cup {w}]
      <4>1. CASE old.connecting = Null
        BY <3>1, <4>1, Zenon
      <4>2. CASE old.connecting # Null
        BY <3>1, <4>2, Zenon
      <4>. QED  BY <4>1, <4>2
    <3>3. new.exists
      BY <2>0, <3>2 DEF Statuses
    <3>. QED  BY <2>1, <3>2, <3>3
  <2>4. ASSUME NEW other \in Ids, Connected(other)
        PROVE  All
    <3>1. PICK new : /\ status' = [status EXCEPT ![other] = new]
                     /\ new = [status[other] EXCEPT !.connecting = Null]
      BY <2>4 DEF Connected
    <3>2. new.exists = status[other].exists
      BY <2>0, <3>1 DEF Statuses
    <3>. QED  BY <2>0, <2>1, <3>1, <3>2 DEF StatusTypes
  <2>5. ASSUME NEW other \in Ids, Disconnected(other)
        PROVE  All
    <3> DEFINE d == status[other].disconnecting
    <3>1. CASE d = Null
      BY <2>2, <2>5, <3>1 DEF Disconnected
    <3>2. CASE d # Null
      <4>1. /\ status' = [status EXCEPT ![other] = NoStatus]
            /\ Placed(status[other]) \subseteq deleted'
            /\ connections' = connections \ {other}
        BY <2>5, <3>2 DEF Disconnected, Close, Delete
      <4>2. d \in Waiters
        BY <2>0, <3>2 DEF Statuses
      <4>3. "disconnected" \in heard'[d]
        <5>1. \E f, a : \A w \in Waiters : heard'[w] = heard[w]
                \cup (Tell(f, "connect error")[w] \cup Tell(a, "aborted")[w]
                        \cup Tell({d} \ {Null}, "disconnected")[w])
          <6> DEFINE f == {status[other].connecting} \ {Null}
                     a == IF f = {} THEN status[other].reading \cup status[other].sending
                                    ELSE {}
          <6>1. \A w \in Waiters : heard'[w] = heard[w]
                  \cup (Tell(f, "connect error")[w] \cup Tell(a, "aborted")[w]
                          \cup Tell({d} \ {Null}, "disconnected")[w])
            BY <2>5 DEF Disconnected, Heard
          <6> HIDE DEF f, a
          <6>. QED  BY <6>1
        <5>2. "disconnected" \in Tell({d} \ {Null}, "disconnected")[d]
          BY <3>2, <4>2 DEF Tell
        <5>. QED  BY <4>2, <5>1, <5>2
      <4>. QED  BY <2>1, <3>2, <4>1, <4>3
    <3>. QED  BY <3>1, <3>2
  <2>. QED
    BY <1>1, <2>2, <2>3, <2>4, <2>5 DEF StatusNext, Initialise,
       CreateConnection, LoseConnection, Notify, statusVars,
       waiterVars
<1>2. StatusInd /\ [StatusNext]_statusVars => [All]_statusVars
  BY <1>1
<1>. QED  BY <1>2, StatusInvariance, PTL DEF StatusSpec, ClosedTogether
=============================================================================
