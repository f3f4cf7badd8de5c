---------------------------- MODULE ServicesProofs ----------------------------
(***************************************************************************)
(* For any threads, contexts, services and requests: what native code made *)
(* for Java has one owner and goes once, but for what a failing            *)
(* constructor made, and what an accepted request was made on stays        *)
(* (Services).  And what becomes of the requests, from a URL to connect()  *)
(* (Requests): each connects once, and the newest of an id wins.           *)
(***************************************************************************)
EXTENDS Services, Requests, FiniteSetTheorems, SequenceTheorems, TLAPS

(* The unique_ptr of the call of t has o; some call's has.                 *)
Holds(t, o) == call[t].service = o /\ call[t].at \in {"provided", "failed"}
Held(o) == \E t \in Threads : Holds(t, o)

(* What is there is held by one call or by Java, and what is not by none.  *)
Owned == /\ \A o \in Objects \ halfMade : native[o] = "there" <=> HasHandle(o) \/ Held(o)
         /\ \A o \in Objects \ halfMade : ~(HasHandle(o) /\ Held(o))
         /\ \A o : \A t, u \in Threads : Holds(t, o) /\ Holds(u, o) => t = u

(* What a constructor made that threw is there as long as the failing call *)
(* and a Java object that nobody got both have it; the one that is late    *)
(* deletes it again.                                                       *)
HalfSound(s) == /\ java[s] \in {"dropped", "finalized"}
                /\ native[s] \in {"there", "deleted"}
                /\ native[s] = "there" <=> HasHandle(s) /\ Held(s)
                /\ s \in misused <=> ~HasHandle(s) /\ ~Held(s)
                /\ \A t \in Threads : Holds(t, s) => call[t].at = "failed"

Halves == misused \subseteq halfMade /\ \A s \in halfMade : HalfSound(s)

(* What calls hold or use are services, and what a request is made on is   *)
(* pinned from the moment its adapter is.                                  *)
CallsSound ==
  \A t \in Threads :
    /\ call[t].at \in {"provided", "failed"} => call[t].service \in Services
    /\ call[t].at = "adapted" => <<call[t].request, call[t].service>> \in refs

(* A listener that native code has a reference to is made on a service     *)
(* that Java got and that is not finalized.                                *)
Pins ==
  /\ \A r \in Requests, s \in Services : <<r, s>> \in refs => HasHandle(s) /\ s \notin halfMade
  /\ \A r \in Requests : request[r] \in {"adapted", "queued", "deleted"} =>
       \E s \in Services : <<r, s>> \in refs

Ind == TypeOK /\ Owned /\ Halves /\ CallsSound /\ Pins

LEMMA InitEstablishes == Init => Ind
<1> SUFFICES ASSUME Init
             PROVE  Ind
  OBVIOUS
<1>1. \A t \in Threads : call[t] = Idle
  BY DEF Init
<1>2. Idle \in Calls /\ Idle.at = "idle"
  BY DEF Idle, Calls
<1>3. TypeOK
  BY <1>2 DEF Init, TypeOK
<1>4. \A t \in Threads : \A o : ~Holds(t, o)
  BY <1>1, <1>2 DEF Holds
<1>5. Owned /\ Halves /\ CallsSound /\ Pins
  BY <1>1, <1>2, <1>4 DEF Init, Owned, Halves, CallsSound, Pins, HasHandle, Held
<1>. QED  BY <1>3, <1>5 DEF Ind

(* What Java holds, and what has a listener that native code refers to, is *)
(* there, and no constructor threw that made it.                           *)
LEMMA UsableIsThere ==
  ASSUME Ind, NEW o \in Objects, java[o] = "held" \/ (o \in Services /\ Pinned(o))
  PROVE  native[o] = "there" /\ o \notin halfMade /\ HasHandle(o)
<1>1. o \notin halfMade /\ HasHandle(o)
  BY DEF Ind, Halves, HalfSound, Pins, Pinned, HasHandle
<1>. QED  BY <1>1 DEF Ind, Owned

LEMMA ProvideKeeps ==
  ASSUME Ind, NEW t \in Threads, NEW j \in JContexts, Provide(t, j)
  PROVE  Ind'
<1>1. PICK s \in Services :
        /\ native[s] = "unborn" /\ native' = [native EXCEPT ![s] = "there"]
        /\ Enter(t, [at |-> "provided", uses |-> {j}, service |-> s, request |-> None])
  BY DEF Provide
<1> DEFINE c == [at |-> "provided", uses |-> {j}, service |-> s, request |-> None]
<1>2. /\ call[t] = Idle /\ call' = [call EXCEPT ![t] = c]
      /\ j \in Objects /\ s \in Objects
  BY <1>1 DEF Enter, Objects
<1>3. c \in Calls /\ c.at = "provided" /\ c.service = s /\ Idle.at = "idle"
  BY DEF Calls, Objects, Idle
<1>4. /\ UNCHANGED <<java, request, refs, looping, halfMade, alive>>
      /\ java[j] = "held"
      /\ misused' = misused \cup {x \in {j} : native[x] = "deleted"}
  BY DEF Provide, UseNative
<1> HIDE DEF c
<1>5. native[j] = "there"
  BY <1>2, <1>4, UsableIsThere
<1>6. misused' = misused
  BY <1>4, <1>5
<1>7. TypeOK'
  BY <1>1, <1>2, <1>3, <1>4, <1>6 DEF Ind, TypeOK
<1>8. /\ native'[s] = "there" /\ call'[t] = c
      /\ \A o \in Objects : o # s => native'[o] = native[o]
      /\ \A u \in Threads : u # t => call'[u] = call[u]
  BY <1>1, <1>2 DEF Ind, TypeOK
<1>9. s \notin halfMade /\ ~HasHandle(s) /\ ~Held(s)
  BY <1>1, <1>2 DEF Ind, Owned, Halves, HalfSound
<1>10. \A o : HasHandle(o)' <=> HasHandle(o)
  BY <1>4 DEF HasHandle
<1>11. /\ Holds(t, s)'
       /\ \A o : o # s => ~Holds(t, o)' /\ ~Holds(t, o)
       /\ \A o : \A u \in Threads : u # t => (Holds(u, o)' <=> Holds(u, o))
  BY <1>2, <1>3, <1>8 DEF Holds
<1>12. Held(s)' /\ \A o : o # s => (Held(o)' <=> Held(o))
  BY <1>11 DEF Held
<1>13. Owned'
  <2>1. \A o : \A u, v \in Threads : Holds(u, o)' /\ Holds(v, o)' => u = v
    BY <1>9, <1>11 DEF Ind, Owned, Held
  <2>2. \A o \in Objects \ halfMade' : native'[o] = "there" <=> HasHandle(o)' \/ Held(o)'
    BY <1>4, <1>8, <1>9, <1>10, <1>12 DEF Ind, Owned
  <2>3. \A o \in Objects \ halfMade' : ~(HasHandle(o)' /\ Held(o)')
    BY <1>4, <1>9, <1>10, <1>12 DEF Ind, Owned
  <2>. QED  BY <2>1, <2>2, <2>3 DEF Owned
<1>14. Halves'
  <2> SUFFICES ASSUME NEW h \in halfMade
               PROVE  HalfSound(h)'
    BY <1>4, <1>6 DEF Ind, Halves
  <2>1. HalfSound(h) /\ h # s /\ h \in Objects
    BY <1>9 DEF Ind, Halves, TypeOK, Objects
  <2>2. \A u \in Threads : Holds(u, h)' => u # t /\ Holds(u, h)
    BY <2>1, <1>11
  <2>. QED  BY <2>1, <2>2, <1>4, <1>6, <1>8, <1>10, <1>12 DEF HalfSound
<1>15. CallsSound' /\ Pins'
  BY <1>3, <1>4, <1>8, <1>10 DEF Ind, CallsSound, Pins
<1>. QED  BY <1>7, <1>13, <1>14, <1>15 DEF Ind

(* What a step keeps that leaves Java's objects, the native ones and who   *)
(* holds them alone.                                                       *)
LEMMA OwnersStay ==
  ASSUME Ind, UNCHANGED <<java, native, halfMade, misused>>,
         \A t \in Threads : \A o : Holds(t, o)' <=> Holds(t, o),
         \A t \in Threads : \A o : Holds(t, o)' /\ call[t].at = "failed" => call'[t].at = "failed"
  PROVE  Owned' /\ Halves'
<1>1. \A o : (HasHandle(o)' <=> HasHandle(o)) /\ (Held(o)' <=> Held(o))
  BY DEF HasHandle, Held
<1>2. Owned'
  BY <1>1 DEF Ind, Owned
<1>3. Halves'
  <2> SUFFICES ASSUME NEW h \in halfMade
               PROVE  HalfSound(h)'
    BY DEF Ind, Halves
  <2>1. HalfSound(h)
    BY DEF Ind, Halves
  <2>. QED  BY <2>1, <1>1 DEF HalfSound
<1>. QED  BY <1>2, <1>3

LEMMA LookupFailsKeeps ==
  ASSUME Ind, NEW t \in Threads, LookupFails(t)
  PROVE  Ind'
<1>1. /\ call[t].at = "provided" /\ call' = [call EXCEPT ![t].at = "failed"]
      /\ UNCHANGED <<java, native, request, refs, looping, halfMade, misused, alive>>
  BY DEF LookupFails, GoOn
<1>2. call[t] \in Calls /\ call \in [Threads -> Calls]
  BY DEF Ind, TypeOK
<1>3. call' \in [Threads -> Calls]
  BY <1>1, <1>2 DEF Calls
<1>4. TypeOK'
  BY <1>1, <1>3 DEF Ind, TypeOK
<1>5. /\ call'[t].at = "failed" /\ call'[t].service = call[t].service
      /\ \A u \in Threads : u # t => call'[u] = call[u]
  BY <1>1, <1>2 DEF Calls
<1>6. \A u \in Threads : \A o : Holds(u, o)' <=> Holds(u, o)
  BY <1>1, <1>5 DEF Holds
<1>7. Owned' /\ Halves'
  BY <1>1, <1>5, <1>6, OwnersStay
<1>8. CallsSound' /\ Pins'
  BY <1>1, <1>5 DEF Ind, CallsSound, Pins, HasHandle
<1>. QED  BY <1>4, <1>7, <1>8 DEF Ind

(* A call returns without the service that it held.                        *)
LEMMA CallReturns ==
  ASSUME Ind, NEW t \in Threads, call' = [call EXCEPT ![t] = Idle]
  PROVE  /\ call' \in [Threads -> Calls] /\ call'[t].at = "idle"
         /\ \A u \in Threads : u # t => call'[u] = call[u]
         /\ \A o : ~Holds(t, o)'
         /\ \A u \in Threads : \A o : u # t => (Holds(u, o)' <=> Holds(u, o))
<1>1. Idle \in Calls /\ Idle.at = "idle"
  BY DEF Idle, Calls
<1>2. call \in [Threads -> Calls]
  BY DEF Ind, TypeOK
<1>. QED  BY <1>1, <1>2 DEF Holds

(* A call returns that held service s: nobody holds that any more.         *)
LEMMA HolderReturns ==
  ASSUME Ind, NEW t \in Threads, call' = [call EXCEPT ![t] = Idle],
         call[t].at \in {"provided", "failed"}, NEW s, s = call[t].service
  PROVE  /\ s \in Services /\ s \in Objects /\ Held(s) /\ ~Held(s)'
         /\ \A o : o # s => (Held(o)' <=> Held(o))
         /\ \A u \in Threads : \A o : Holds(u, o)' => Holds(u, o) /\ u # t
<1>0. /\ call' \in [Threads -> Calls] /\ call'[t].at = "idle"
      /\ \A u \in Threads : u # t => call'[u] = call[u]
      /\ \A o : ~Holds(t, o)'
      /\ \A u \in Threads : \A o : u # t => (Holds(u, o)' <=> Holds(u, o))
  BY CallReturns
<1>1. Holds(t, s) /\ \A o : o # s => ~Holds(t, o)
  BY DEF Holds
<1>2. s \in Services /\ s \in Objects
  BY DEF Ind, CallsSound, Objects
<1>3. \A u \in Threads : Holds(u, s) => u = t
  BY <1>1 DEF Ind, Owned
<1>4. Held(s) /\ ~Held(s)'
  BY <1>0, <1>1, <1>3 DEF Held
<1>5. \A o : o # s => (Held(o)' <=> Held(o))
  BY <1>0, <1>1 DEF Held
<1>. QED  BY <1>0, <1>2, <1>4, <1>5

LEMMA AcquireHandsOver ==
  ASSUME Ind, NEW t \in Threads, Acquire(t)
  PROVE  Ind'
<1>. PICK s : s = call[t].service
  OBVIOUS
<1>1. /\ call[t].at = "provided" /\ call' = [call EXCEPT ![t] = Idle]
      /\ java' = [java EXCEPT ![s] = "held"]
      /\ UNCHANGED <<native, request, refs, looping, halfMade, misused, alive>>
  BY DEF Acquire, Return
<1>2. /\ call' \in [Threads -> Calls] /\ call'[t].at = "idle"
      /\ \A u \in Threads : u # t => call'[u] = call[u]
  BY <1>1, CallReturns
<1>3. /\ s \in Services /\ s \in Objects /\ Held(s) /\ ~Held(s)'
      /\ \A o : o # s => (Held(o)' <=> Held(o))
      /\ \A u \in Threads : \A o : Holds(u, o)' => Holds(u, o) /\ u # t
  BY <1>1, HolderReturns
<1>4. TypeOK'
  BY <1>1, <1>2 DEF Ind, TypeOK
<1>5. s \notin halfMade
  BY <1>1 DEF Ind, Halves, HalfSound, Holds
<1>6. /\ java'[s] = "held" /\ \A o \in Objects : o # s => java'[o] = java[o]
  BY <1>1, <1>3 DEF Ind, TypeOK
<1>7. HasHandle(s)' /\ \A o \in Objects : o # s => (HasHandle(o)' <=> HasHandle(o))
  BY <1>6 DEF HasHandle
<1>8. native[s] = "there"
  BY <1>3, <1>5 DEF Ind, Owned
<1>9. Owned'
  <2>1. \A o : \A u, v \in Threads : Holds(u, o)' /\ Holds(v, o)' => u = v
    BY <1>3 DEF Ind, Owned
  <2>2. \A o \in Objects \ halfMade' : native'[o] = "there" <=> HasHandle(o)' \/ Held(o)'
    BY <1>1, <1>3, <1>7, <1>8 DEF Ind, Owned
  <2>3. \A o \in Objects \ halfMade' : ~(HasHandle(o)' /\ Held(o)')
    BY <1>1, <1>3, <1>7 DEF Ind, Owned
  <2>. QED  BY <2>1, <2>2, <2>3 DEF Owned
<1>10. Halves'
  <2> SUFFICES ASSUME NEW h \in halfMade
               PROVE  HalfSound(h)'
    BY <1>1 DEF Ind, Halves
  <2>1. HalfSound(h) /\ h # s /\ h \in Objects
    BY <1>5 DEF Ind, Halves, TypeOK, Objects
  <2>2. \A u \in Threads : Holds(u, h)' => Holds(u, h) /\ call'[u] = call[u]
    BY <1>2, <1>3
  <2>. QED  BY <2>1, <2>2, <1>1, <1>3, <1>6, <1>7 DEF HalfSound
<1>11. CallsSound'
  BY <1>1, <1>2 DEF Ind, CallsSound
<1>12. Pins'
  BY <1>1, <1>7 DEF Ind, Pins, Objects
<1>. QED  BY <1>4, <1>9, <1>10, <1>11, <1>12 DEF Ind

(* The service that it makes half has two owners from here.                *)
LEMMA AcquireThrowsKeeps ==
  ASSUME Ind, NEW t \in Threads, AcquireThrows(t)
  PROVE  Ind'
<1>. PICK s : s = call[t].service
  OBVIOUS
<1>1. /\ call[t].at = "provided" /\ call' = [call EXCEPT ![t].at = "failed"]
      /\ java' = [java EXCEPT ![s] = "dropped"]
      /\ halfMade' = halfMade \cup {s}
      /\ UNCHANGED <<native, request, refs, looping, misused, alive>>
  BY DEF AcquireThrows, GoOn
<1>2. /\ call' \in [Threads -> Calls]
      /\ call'[t].at = "failed" /\ call'[t].service = s
      /\ \A u \in Threads : u # t => call'[u] = call[u]
  BY <1>1 DEF Ind, TypeOK, Calls
<1>3. s \in Services /\ s \in Objects /\ Holds(t, s) /\ Held(s)
  BY <1>1 DEF Ind, CallsSound, Objects, Holds, Held
<1>4. TypeOK'
  BY <1>1, <1>2, <1>3 DEF Ind, TypeOK
<1>5. \A u \in Threads : \A o : Holds(u, o)' <=> Holds(u, o)
  BY <1>1, <1>2 DEF Holds
<1>6. \A o : Held(o)' <=> Held(o)
  BY <1>5 DEF Held
<1>7. s \notin halfMade
  BY <1>1, <1>3 DEF Ind, Halves, HalfSound
<1>8. native[s] = "there" /\ ~HasHandle(s) /\ s \notin misused
  BY <1>3, <1>7 DEF Ind, Owned, Halves
<1>9. java'[s] = "dropped" /\ \A o \in Objects : o # s => java'[o] = java[o]
  BY <1>1, <1>3 DEF Ind, TypeOK
<1>10. HasHandle(s)' /\ \A o \in Objects : o # s => (HasHandle(o)' <=> HasHandle(o))
  BY <1>9 DEF HasHandle
<1>11. Owned'
  BY <1>1, <1>5, <1>6, <1>10 DEF Ind, Owned
<1>12. Halves'
  <2>1. \A u \in Threads : Holds(u, s)' => call'[u].at = "failed"
    BY <1>2, <1>3, <1>5 DEF Ind, Owned
  <2>2. HalfSound(s)'
    BY <2>1, <1>1, <1>3, <1>6, <1>8, <1>9, <1>10 DEF HalfSound
  <2>3. ASSUME NEW h \in halfMade
        PROVE  HalfSound(h)'
    <3>1. HalfSound(h) /\ h # s /\ h \in Objects
      BY <1>7 DEF Ind, Halves, TypeOK, Objects
    <3>2. \A u \in Threads : Holds(u, h)' => call'[u].at = "failed"
      BY <3>1, <1>2, <1>5 DEF HalfSound
    <3>. QED  BY <3>1, <3>2, <1>1, <1>6, <1>9, <1>10 DEF HalfSound
  <2>. QED  BY <2>2, <2>3, <1>1 DEF Ind, Halves
<1>13. CallsSound'
  BY <1>1, <1>2, <1>3 DEF Ind, CallsSound
<1>14. Pins'
  BY <1>1, <1>8, <1>10 DEF Ind, Pins, Objects
<1>. QED  BY <1>4, <1>11, <1>12, <1>13, <1>14 DEF Ind

LEMMA UnwindKeeps ==
  ASSUME Ind, NEW t \in Threads, Unwind(t)
  PROVE  Ind'
<1>. PICK s : s = call[t].service
  OBVIOUS
<1>1. /\ call[t].at = "failed" /\ call' = [call EXCEPT ![t] = Idle]
      /\ native' = [native EXCEPT ![s] = "deleted"]
      /\ misused' = misused \cup {x \in {s} : native[x] = "deleted"}
      /\ UNCHANGED <<java, request, refs, looping, halfMade, alive>>
  BY DEF Unwind, Return, Delete, UseNative
<1>2. /\ call' \in [Threads -> Calls] /\ call'[t].at = "idle"
      /\ \A u \in Threads : u # t => call'[u] = call[u]
  BY <1>1, CallReturns
<1>3. /\ s \in Services /\ s \in Objects /\ Held(s) /\ ~Held(s)'
      /\ \A o : o # s => (Held(o)' <=> Held(o))
      /\ \A u \in Threads : \A o : Holds(u, o)' => Holds(u, o) /\ u # t
  BY <1>1, HolderReturns
<1>4. TypeOK'
  BY <1>1, <1>2, <1>3 DEF Ind, TypeOK
<1>5. /\ native'[s] = "deleted" /\ \A o \in Objects : o # s => native'[o] = native[o]
  BY <1>1, <1>3 DEF Ind, TypeOK
<1>6. \A o : HasHandle(o)' <=> HasHandle(o)
  BY <1>1 DEF HasHandle
<1>7. s \notin halfMade => native[s] = "there" /\ ~HasHandle(s)
  BY <1>3 DEF Ind, Owned
<1>8. Owned'
  <2>1. \A o : \A u, v \in Threads : Holds(u, o)' /\ Holds(v, o)' => u = v
    BY <1>3 DEF Ind, Owned
  <2>2. \A o \in Objects \ halfMade' : native'[o] = "there" <=> HasHandle(o)' \/ Held(o)'
    BY <1>1, <1>3, <1>5, <1>6, <1>7 DEF Ind, Owned
  <2>3. \A o \in Objects \ halfMade' : ~(HasHandle(o)' /\ Held(o)')
    BY <1>1, <1>3, <1>6 DEF Ind, Owned
  <2>. QED  BY <2>1, <2>2, <2>3 DEF Owned
<1>9. Halves'
  <2>1. misused' \subseteq halfMade'
    BY <1>1, <1>7 DEF Ind, Halves
  <2>2. ASSUME s \in halfMade
        PROVE  HalfSound(s)'
    <3>1. HalfSound(s) /\ s \notin misused
      BY <2>2, <1>3 DEF Ind, Halves, HalfSound
    <3>2. s \in misused' <=> ~HasHandle(s)
      BY <3>1, <1>1, <1>3 DEF HalfSound
    <3>. QED  BY <3>1, <3>2, <1>1, <1>3, <1>5, <1>6 DEF HalfSound, Held
  <2>3. ASSUME NEW h \in halfMade, h # s
        PROVE  HalfSound(h)'
    <3>1. HalfSound(h) /\ h \in Objects
      BY DEF Ind, Halves, TypeOK, Objects
    <3>2. \A u \in Threads : Holds(u, h)' => Holds(u, h) /\ call'[u] = call[u]
      BY <1>2, <1>3
    <3>3. h \in misused' <=> h \in misused
      BY <2>3, <1>1
    <3>. QED  BY <2>3, <3>1, <3>2, <3>3, <1>1, <1>3, <1>5, <1>6 DEF HalfSound
  <2>. QED  BY <2>1, <2>2, <2>3, <1>1 DEF Halves
<1>10. CallsSound' /\ Pins'
  BY <1>1, <1>2, <1>6 DEF Ind, CallsSound, Pins
<1>. QED  BY <1>4, <1>8, <1>9, <1>10 DEF Ind

LEMMA MakeAdapterKeeps ==
  ASSUME Ind, NEW t \in Threads, NEW s \in Services, NEW r \in Requests, MakeAdapter(t, s, r)
  PROVE  Ind'
<1> DEFINE c == [at |-> "adapted", uses |-> {s}, service |-> s, request |-> r]
<1>1. /\ java[s] = "held" /\ call[t] = Idle /\ call' = [call EXCEPT ![t] = c]
      /\ misused' = misused \cup {x \in {s} : native[x] = "deleted"}
      /\ request' = [request EXCEPT ![r] = "adapted"] /\ refs' = refs \cup {<<r, s>>}
      /\ UNCHANGED <<java, native, looping, halfMade, alive>>
  BY DEF MakeAdapter, Enter, UseNative
<1>2. /\ c \in Calls /\ c.at = "adapted" /\ c.service = s /\ c.request = r
      /\ Idle.at = "idle" /\ s \in Objects
  BY DEF Calls, Objects, Idle
<1> HIDE DEF c
<1>3. /\ call' \in [Threads -> Calls] /\ call'[t] = c
      /\ \A u \in Threads : u # t => call'[u] = call[u]
  BY <1>1, <1>2 DEF Ind, TypeOK
<1>4. native[s] = "there" /\ s \notin halfMade /\ HasHandle(s)
  BY <1>1, <1>2, UsableIsThere
<1>5. misused' = misused
  BY <1>1, <1>4
<1>6. TypeOK'
  BY <1>1, <1>3, <1>5 DEF Ind, TypeOK
<1>7. \A u \in Threads : \A o : Holds(u, o)' <=> Holds(u, o)
  BY <1>1, <1>2, <1>3 DEF Holds
<1>8. Owned' /\ Halves'
  <2>1. \A u \in Threads : \A o :
          Holds(u, o)' /\ call[u].at = "failed" => call'[u].at = "failed"
    BY <1>2, <1>3 DEF Holds
  <2>. QED  BY <2>1, <1>1, <1>5, <1>7, OwnersStay
<1>9. CallsSound'
  BY <1>1, <1>2, <1>3 DEF Ind, CallsSound
<1>10. Pins'
  <2>1. \A q \in Requests : request'[q] = (IF q = r THEN "adapted" ELSE request[q])
    BY <1>1 DEF Ind, TypeOK
  <2>2. \A q \in Requests, x \in Services :
          <<q, x>> \in refs' => <<q, x>> \in refs \/ x = s
    BY <1>1
  <2>3. \A q \in Requests, x \in Services :
          <<q, x>> \in refs' => HasHandle(x)' /\ x \notin halfMade'
    BY <2>2, <1>1, <1>4 DEF Ind, Pins, HasHandle
  <2>. QED  BY <2>1, <2>3, <1>1 DEF Ind, Pins
<1>. QED  BY <1>6, <1>8, <1>9, <1>10 DEF Ind

LEMMA PostRequestKeeps ==
  ASSUME Ind, NEW t \in Threads, PostRequest(t)
  PROVE  Ind'
<1>. PICK s, r : s = call[t].service /\ r = call[t].request
  OBVIOUS
<1>1. /\ call[t].at = "adapted"
      /\ misused' = misused \cup {x \in {s} : native[x] = "deleted"}
      /\ UNCHANGED <<java, native, refs, looping, halfMade>>
  BY DEF PostRequest, UseNative
<1>2. <<r, s>> \in refs /\ r \in Requests /\ s \in Services /\ s \in Objects
  BY <1>1 DEF Ind, CallsSound, TypeOK, Objects
<1>3. Pinned(s)
  BY <1>2 DEF Pinned
<1>4. misused' = misused
  BY <1>1, <1>2, <1>3, UsableIsThere
<1>5. CASE looping
  <2>1. /\ call' = [call EXCEPT ![t] = Idle] /\ UNCHANGED alive
        /\ request' = [request EXCEPT ![r] = "queued"]
    BY <1>5 DEF PostRequest, Return
  <2>2. /\ call' \in [Threads -> Calls] /\ call'[t].at = "idle"
        /\ \A u \in Threads : u # t => call'[u] = call[u]
        /\ \A u \in Threads : \A o : Holds(u, o)' <=> Holds(u, o)
    <3>1. \A o : ~Holds(t, o)
      BY <1>1 DEF Holds
    <3>. QED  BY <2>1, <3>1, CallReturns
  <2>3. TypeOK'
    BY <1>1, <1>4, <2>1, <2>2 DEF Ind, TypeOK
  <2>4. Owned' /\ Halves'
    BY <1>1, <1>4, <2>2, OwnersStay
  <2>5. CallsSound'
    BY <1>1, <2>2 DEF Ind, CallsSound
  <2>6. Pins'
    <3>1. \A q \in Requests : request'[q] = (IF q = r THEN "queued" ELSE request[q])
      BY <2>1 DEF Ind, TypeOK
    <3>. QED  BY <3>1, <1>1, <1>2 DEF Ind, Pins, HasHandle
  <2>. QED  BY <2>3, <2>4, <2>5, <2>6 DEF Ind
<1>6. CASE ~looping
  <2>1. /\ call' = [call EXCEPT ![t].at = "adapted"] /\ alive' = FALSE /\ UNCHANGED request
    BY <1>6 DEF PostRequest, GoOn
  <2>2. call' = call
    BY <1>1, <2>1 DEF Ind, TypeOK, Calls
  <2>3. TypeOK'
    BY <1>1, <1>4, <2>1, <2>2 DEF Ind, TypeOK
  <2>4. \A u \in Threads : \A o : Holds(u, o)' <=> Holds(u, o)
    BY <2>2 DEF Holds
  <2>5. Owned' /\ Halves'
    BY <1>1, <1>4, <2>2, <2>4, OwnersStay
  <2>6. CallsSound' /\ Pins'
    BY <1>1, <2>1, <2>2 DEF Ind, CallsSound, Pins, HasHandle
  <2>. QED  BY <2>3, <2>5, <2>6 DEF Ind
<1>. QED  BY <1>5, <1>6

LEMMA DropKeeps ==
  ASSUME Ind, NEW o \in Objects, Drop(o)
  PROVE  Ind'
<1>1. /\ java[o] = "held"
      /\ java' = [java EXCEPT ![o] = "dropped"]
      /\ UNCHANGED <<native, call, request, refs, looping, halfMade, misused, alive>>
  BY DEF Drop
<1>2. TypeOK'
  BY <1>1 DEF Ind, TypeOK
<1>3. /\ java'[o] = "dropped" /\ \A x \in Objects : x # o => java'[x] = java[x]
  BY <1>1 DEF Ind, TypeOK
<1>4. \A x \in Objects : HasHandle(x)' <=> HasHandle(x)
  BY <1>1, <1>3 DEF HasHandle
<1>5. /\ \A u \in Threads : \A x : Holds(u, x)' <=> Holds(u, x)
      /\ \A x : Held(x)' <=> Held(x)
  BY <1>1 DEF Holds, Held
<1>6. Owned'
  BY <1>1, <1>4, <1>5 DEF Ind, Owned
<1>7. Halves'
  <2> SUFFICES ASSUME NEW h \in halfMade
               PROVE  HalfSound(h)'
    BY <1>1 DEF Ind, Halves
  <2>1. HalfSound(h) /\ h \in Objects /\ h # o
    BY <1>1 DEF Ind, Halves, HalfSound, TypeOK, Objects
  <2>. QED  BY <2>1, <1>1, <1>3, <1>4, <1>5 DEF HalfSound
<1>8. CallsSound' /\ Pins'
  BY <1>1, <1>4 DEF Ind, CallsSound, Pins, Objects
<1>. QED  BY <1>2, <1>6, <1>7, <1>8 DEF Ind

LEMMA FinalizeKeeps ==
  ASSUME Ind, NEW o \in Objects, Finalize(o)
  PROVE  Ind'
<1>1. /\ java[o] = "dropped" /\ java' = [java EXCEPT ![o] = "finalized"]
      /\ ~Pinned(o)
      /\ native' = [native EXCEPT ![o] = "deleted"]
      /\ misused' = misused \cup {x \in {o} : native[x] = "deleted"}
      /\ UNCHANGED <<call, request, refs, looping, halfMade, alive>>
  BY DEF Finalize, Reachable, Delete, UseNative
<1>2. TypeOK'
  BY <1>1 DEF Ind, TypeOK
<1>3. /\ java'[o] = "finalized" /\ native'[o] = "deleted"
      /\ \A x \in Objects : x # o => java'[x] = java[x] /\ native'[x] = native[x]
  BY <1>1 DEF Ind, TypeOK
<1>4. /\ ~HasHandle(o)' /\ HasHandle(o)
      /\ \A x \in Objects : x # o => (HasHandle(x)' <=> HasHandle(x))
  BY <1>1, <1>3 DEF HasHandle
<1>5. /\ \A u \in Threads : \A x : Holds(u, x)' <=> Holds(u, x)
      /\ \A x : Held(x)' <=> Held(x)
  BY <1>1 DEF Holds, Held
<1>6. o \notin halfMade => native[o] = "there" /\ ~Held(o)
  BY <1>4 DEF Ind, Owned
<1>7. Owned'
  BY <1>1, <1>3, <1>4, <1>5, <1>6 DEF Ind, Owned
<1>8. Halves'
  <2>1. misused' \subseteq halfMade'
    BY <1>1, <1>6 DEF Ind, Halves
  <2>2. ASSUME o \in halfMade
        PROVE  HalfSound(o)'
    <3>1. HalfSound(o) /\ o \notin misused
      BY <2>2, <1>4 DEF Ind, Halves, HalfSound
    <3>2. o \in misused' <=> ~Held(o)
      BY <3>1, <1>1, <1>4 DEF HalfSound
    <3>. QED  BY <3>1, <3>2, <1>1, <1>3, <1>4, <1>5 DEF HalfSound
  <2>3. ASSUME NEW h \in halfMade, h # o
        PROVE  HalfSound(h)'
    <3>1. HalfSound(h) /\ h \in Objects
      BY DEF Ind, Halves, TypeOK, Objects
    <3>2. h \in misused' <=> h \in misused
      BY <2>3, <1>1
    <3>. QED  BY <2>3, <3>1, <3>2, <1>1, <1>3, <1>4, <1>5 DEF HalfSound
  <2>. QED  BY <2>1, <2>2, <2>3, <1>1 DEF Halves
<1>9. CallsSound'
  BY <1>1 DEF Ind, CallsSound
<1>10. Pins'
  <2>1. \A r \in Requests, s \in Services : <<r, s>> \in refs => s # o
    BY <1>1 DEF Pinned
  <2>. QED  BY <2>1, <1>1, <1>4 DEF Ind, Pins, Objects
<1>. QED  BY <1>2, <1>7, <1>8, <1>9, <1>10 DEF Ind

LEMMA NextKeeps == Ind /\ [Next]_vars => Ind'
<1> SUFFICES ASSUME Ind, [Next]_vars
             PROVE  Ind'
  OBVIOUS
<1>1. ASSUME UNCHANGED <<java, native, call, refs, halfMade, misused>>, TypeOK',
             \A r \in Requests : request'[r] \in {"adapted", "queued", "deleted"} =>
                                   request[r] \in {"adapted", "queued", "deleted"}
      PROVE  Ind'
  <2>1. Owned' /\ Halves'
    BY <1>1, OwnersStay DEF Holds
  <2>2. CallsSound' /\ Pins'
    BY <1>1 DEF Ind, CallsSound, Pins, HasHandle
  <2>. QED  BY <1>1, <2>1, <2>2 DEF Ind
<1>2. ASSUME NEW t \in Threads, NEW s \in Services, NEW r \in Requests, Refuse(t, s, r)
      PROVE  Ind'
  BY <1>1, <1>2 DEF Refuse, Ind, TypeOK
<1>3. ASSUME NEW r \in Requests, HandleRequest(r)
      PROVE  Ind'
  BY <1>1, <1>3 DEF HandleRequest, Ind, TypeOK
<1>4. CASE Quit
  BY <1>1, <1>4 DEF Quit, Ind, TypeOK
<1>5. CASE UNCHANGED vars
  BY <1>1, <1>5 DEF vars, Ind, TypeOK
<1>. QED
  BY <1>2, <1>3, <1>4, <1>5, ProvideKeeps, LookupFailsKeeps, AcquireHandsOver,
     AcquireThrowsKeeps, UnwindKeeps, MakeAdapterKeeps, PostRequestKeeps, DropKeeps,
     FinalizeKeeps
  DEF Next

THEOREM IndInvariant == Spec => []Ind
<1>. QED  BY InitEstablishes, NextKeeps, PTL DEF Spec

(* A native object has one owner until it is deleted, once, and is used    *)
(* before that only, for any threads that ask for services at any time,    *)
(* whatever is collected when, and whatever fails; but what a constructor  *)
(* made that threw has two owners, and is deleted by each of them.         *)
THEOREM HandlesAreSafe == Spec => []HandlesSafe
<1>1. Ind => HandlesSafe
  <2> SUFFICES ASSUME Ind, NEW o \in Objects
               PROVE  Owners(o) = (IF native[o] = "there" THEN 1 ELSE 0)
                                    + (IF o \in halfMade \ misused THEN 1 ELSE 0)
    BY DEF Ind, Halves, HandlesSafe
  <2> DEFINE n == Cardinality(Holding(o))
  <2>1. n = IF Held(o) THEN 1 ELSE 0
    <3>1. Holding(o) = { t \in Threads : Holds(t, o) }
      BY DEF Holding, Holds
    <3>2. CASE Held(o)
      <4>1. PICK t \in Threads : Holds(t, o)
        BY <3>2 DEF Held
      <4>2. Holding(o) = {t}
        BY <3>1, <4>1 DEF Ind, Owned
      <4>. QED  BY <3>2, <4>2, FS_Singleton
    <3>3. CASE ~Held(o)
      <4>1. Holding(o) = {}
        BY <3>1, <3>3 DEF Held
      <4>. QED  BY <3>3, <4>1, FS_EmptySet
    <3>. QED  BY <3>2, <3>3
  <2>2. Owners(o) = n + (IF HasHandle(o) THEN 1 ELSE 0)
    BY DEF Owners
  <2> HIDE DEF n
  <2>3. CASE o \in halfMade
    <3>1. /\ native[o] = "there" <=> HasHandle(o) /\ Held(o)
          /\ o \in misused <=> ~HasHandle(o) /\ ~Held(o)
      BY <2>3 DEF Ind, Halves, HalfSound
    <3>. QED  BY <2>1, <2>2, <2>3, <3>1
  <2>4. CASE o \notin halfMade
    <3>1. /\ native[o] = "there" <=> HasHandle(o) \/ Held(o)
          /\ ~(HasHandle(o) /\ Held(o))
      BY <2>4 DEF Ind, Owned
    <3>. QED  BY <2>1, <2>2, <2>4, <3>1
  <2>. QED  BY <2>3, <2>4
<1>. QED  BY <1>1, IndInvariant, PTL

(* The service that an accepted request was made on has its native object, *)
(* for any threads, services and requests, whatever Java code lets go of   *)
(* and whatever the collector does.                                        *)
THEOREM RequestsPinServices == Spec => []RequestsKeepServices
<1>1. Ind => RequestsKeepServices
  <2> SUFFICES ASSUME Ind, NEW r \in Requests,
                      request[r] \in {"adapted", "queued", "deleted"}
               PROVE  \E s \in Services : <<r, s>> \in refs /\ native[s] = "there"
    BY DEF RequestsKeepServices
  <2>1. PICK s \in Services : <<r, s>> \in refs
    BY DEF Ind, Pins
  <2>2. native[s] = "there"
    BY <2>1, UsableIsThere DEF Pinned, Objects
  <2>. QED  BY <2>1, <2>2
<1>. QED  BY <1>1, IndInvariant, PTL

-----------------------------------------------------------------------------
(***************************************************************************)
(* The way of the requests to connect() (Requests), for any URLs, hosts,   *)
(* hashes and bounds.                                                      *)
(***************************************************************************)

MessageType == [ req : Nat, id : Ids, ip : { u.host : u \in Urls }, port : Ports,
                 domain : {"INET", "INET6"}, type : {"TCP", "UDP"} ]

IsLive(i) == conns[i] # NoConnection

(* Each request is in one place: queued and not tried, or that of one      *)
(* connection; those in the queue are in the order they were made, and     *)
(* newer than any connection.                                              *)
InOrder ==
  /\ \A k \in DOMAIN messages : /\ messages[k].req \in 1..Len(asked)
                                /\ calls[messages[k].req] = <<>>
  /\ \A k, l \in DOMAIN messages : k < l => messages[k].req < messages[l].req
  /\ \A i \in Ids : IsLive(i) => /\ conns[i].req \in 1..Len(asked)
                                 /\ \A k \in DOMAIN messages : conns[i].req < messages[k].req
  /\ \A i, j \in Ids : IsLive(i) /\ IsLive(j) /\ conns[i].req = conns[j].req => i = j

(* A connection that is not connected has not been by any of its calls.    *)
NotYet == \A i \in Ids : IsLive(i) /\ ~conns[i].connected =>
            \A k \in DOMAIN calls[conns[i].req] : ~ConnectReturns(calls[conns[i].req][k])

PathInd == /\ ConnectsOnce /\ InOrder /\ NotYet
           /\ messages \in Seq(MessageType) /\ Len(asked) <= MaxRequests

(* What the conversions yield.                                             *)
LEMMA MessageIsTyped ==
  ASSUME NEW u \in Urls, NEW r \in Nat, hash \in [Urls -> Ids]
  PROVE  Message(r, u) \in MessageType /\ Message(r, u).req = r
<1>1. Narrow(u.port) \in Ports
  <2>1. NoPort \in Int /\ \A p \in Ports : p \in Int
    BY SMT DEF NoPort, Ports
  <2>2. u.port \in Int
    BY <2>1, UrlAssumption DEF IsPort
  <2>3. PICK max \in Int : max = 65535
    BY SMT
  <2>4. \A p \in Int : p % 65536 \in Int /\ 0 <= p % 65536 /\ p % 65536 <= max
    BY <2>3, SMT
  <2>5. 0..max = Ports
    BY <2>3 DEF Ports
  <2>6. \A n \in Int : 0 <= n /\ n <= max => n \in 0..max
    BY SMT
  <2>. QED  BY <2>2, <2>4, <2>5, <2>6 DEF Narrow
<1>2. u.host \in { v.host : v \in Urls }
  OBVIOUS
<1>3. Message(r, u) = [ req |-> r, id |-> hash[u], ip |-> u.host, port |-> Narrow(u.port),
                        domain |-> IF IsTCP(u) THEN "INET6" ELSE "INET",
                        type |-> IF IsIPv4 THEN "TCP" ELSE "UDP" ]
  BY DEF Message, ConnectionString
<1>. QED  BY <1>1, <1>2, <1>3 DEF MessageType

LEMMA ResultsAreTyped ==
  ASSUME NEW c
  PROVE  ResultsFor(c) \subseteq Results
<1>1. \A domain, addr : ConnectResults(domain, addr) \subseteq Results
  BY DEF ConnectResults, Results, IOErrors, OtherErrors
<1>. QED  BY <1>1 DEF ResultsFor

LEMMA PathInit == RequestsInit => PathInd
<1> SUFFICES ASSUME RequestsInit
             PROVE  PathInd
  OBVIOUS
<1>1. /\ asked = <<>> /\ messages = <<>> /\ calls = <<>>
      /\ hash \in [Urls -> Ids] /\ running = TRUE
      /\ conns = [i \in Ids |-> NoConnection]
  BY DEF RequestsInit
<1>2. RequestsTypeOK
  BY <1>1, EmptySeq DEF RequestsTypeOK
<1>3. Len(asked) <= MaxRequests
  BY <1>1, BoundAssumption
<1>4. \A i \in Ids : ~IsLive(i)
  BY <1>1 DEF IsLive
<1>. QED
  BY <1>1, <1>2, <1>3, <1>4, EmptySeq DEF PathInd, ConnectsOnce, InOrder, NotYet

LEMMA PathTypes ==
  ASSUME PathInd
  PROVE  /\ hash \in [Urls -> Ids] /\ asked \in Seq(Urls) /\ Len(asked) \in Nat
         /\ conns \in [Ids -> Connections \cup {NoConnection}]
         /\ calls \in Seq(Seq(Results)) /\ Len(calls) = Len(asked)
         /\ DOMAIN calls = 1..Len(asked)
         /\ \A r \in 1..Len(asked) : /\ calls[r] \in Seq(Results) /\ Len(calls[r]) \in Nat
                                     /\ DOMAIN calls[r] = 1..Len(calls[r])
         /\ messages \in Seq(MessageType) /\ Len(messages) \in Nat
         /\ DOMAIN messages = 1..Len(messages)
         /\ \A k \in 1..Len(messages) : messages[k] \in MessageType
<1>1. /\ hash \in [Urls -> Ids] /\ asked \in Seq(Urls)
      /\ conns \in [Ids -> Connections \cup {NoConnection}]
      /\ calls \in Seq(Seq(Results)) /\ Len(calls) = Len(asked)
      /\ messages \in Seq(MessageType)
  BY DEF PathInd, ConnectsOnce, RequestsTypeOK
<1>2. \A r \in 1..Len(calls) : calls[r] \in Seq(Results)
  BY <1>1, ElementOfSeq
<1>. QED  BY <1>1, <1>2, ElementOfSeq, LenProperties

(* The types that a state has whose sequences and connections have theirs. *)
LEMMA PathTypesNext ==
  ASSUME hash' \in [Urls -> Ids], asked' \in Seq(Urls),
         conns' \in [Ids -> Connections \cup {NoConnection}],
         calls' \in Seq(Seq(Results)), Len(calls') = Len(asked'),
         messages' \in Seq(MessageType), running' \in BOOLEAN
  PROVE  RequestsTypeOK'
<1>1. \A k \in DOMAIN messages' : messages'[k] \in MessageType
  BY ElementOfSeq, LenProperties
<1>2. \A k \in DOMAIN messages' : /\ messages'[k].type \in {"TCP", "UDP"}
                                  /\ messages'[k].port \in Ports
  BY <1>1 DEF MessageType
<1>. QED  BY <1>2 DEF RequestsTypeOK

OnceOf(all) == \A r \in DOMAIN all : \A k \in 1..(Len(all[r]) - 1) : ~ConnectReturns(all[r][k])

LEMMA ConnectsOnceSplit == ConnectsOnce <=> RequestsTypeOK /\ OnceOf(calls)
BY DEF ConnectsOnce, OnceOf

LEMMA ConnectsOnceSplitNext == ConnectsOnce' <=> RequestsTypeOK' /\ OnceOf(calls')
BY DEF ConnectsOnce, OnceOf

LEMMA RequestKeeps ==
  ASSUME PathInd, NEW u \in Urls, Request(u)
  PROVE  PathInd'
<1> DEFINE m == Message(Len(asked) + 1, u)
<1>0. /\ hash \in [Urls -> Ids] /\ asked \in Seq(Urls) /\ Len(asked) \in Nat
      /\ calls \in Seq(Seq(Results)) /\ Len(calls) = Len(asked) /\ DOMAIN calls = 1..Len(asked)
      /\ messages \in Seq(MessageType) /\ Len(messages) \in Nat
      /\ DOMAIN messages = 1..Len(messages)
      /\ conns \in [Ids -> Connections \cup {NoConnection}]
      /\ InOrder /\ NotYet /\ OnceOf(calls) /\ Len(asked) <= MaxRequests
  BY PathTypes, ConnectsOnceSplit DEF PathInd
<1>1. /\ Len(asked) < MaxRequests /\ asked' = Append(asked, u)
      /\ calls' = Append(calls, <<>>) /\ messages' = Append(messages, m)
      /\ UNCHANGED <<hash, conns, running>>
  BY DEF Request
<1>2. m \in MessageType /\ m.req = Len(asked) + 1
  BY <1>0, MessageIsTyped
<1> HIDE DEF m
<1>3. /\ asked' \in Seq(Urls) /\ Len(asked') = Len(asked) + 1
  BY <1>0, <1>1, AppendProperties
<1>4. /\ calls' \in Seq(Seq(Results)) /\ Len(calls') = Len(asked) + 1
      /\ \A r \in 1..Len(asked) : calls'[r] = calls[r]
      /\ calls'[Len(asked) + 1] = <<>>
  BY <1>0, <1>1, EmptySeq, AppendProperties
<1>5. /\ messages' \in Seq(MessageType) /\ Len(messages') = Len(messages) + 1
      /\ \A k \in 1..Len(messages) : messages'[k] = messages[k]
      /\ messages'[Len(messages) + 1] = m
  BY <1>0, <1>1, <1>2, AppendProperties
<1>6. /\ DOMAIN calls' = 1..(Len(asked) + 1) /\ DOMAIN messages' = 1..(Len(messages) + 1)
  BY <1>4, <1>5, LenProperties
<1>7. RequestsTypeOK'
  BY <1>0, <1>1, <1>3, <1>4, <1>5, PathTypesNext DEF PathInd, ConnectsOnce, RequestsTypeOK
<1>8. OnceOf(calls')
  <2> SUFFICES ASSUME NEW r \in 1..(Len(asked) + 1), NEW k \in 1..(Len(calls'[r]) - 1)
               PROVE  ~ConnectReturns(calls'[r][k])
    BY <1>6 DEF OnceOf
  <2>1. CASE r = Len(asked) + 1
    BY <1>4, <2>1, EmptySeq, SMT
  <2>2. CASE r \in 1..Len(asked)
    BY <1>0, <1>4, <2>2 DEF OnceOf
  <2>3. r = Len(asked) + 1 \/ r \in 1..Len(asked)
    BY <1>0, SMT
  <2>. QED  BY <2>1, <2>2, <2>3
<1>9. InOrder'
  <2>1. \A k \in 1..Len(messages) : /\ messages[k].req \in 1..Len(asked)
                                    /\ calls[messages[k].req] = <<>>
    BY <1>0 DEF InOrder
  <2>2. \A k \in 1..(Len(messages) + 1) : k \in 1..Len(messages) \/ k = Len(messages) + 1
    BY <1>0, SMT
  <2>3. \A k \in DOMAIN messages' : /\ messages'[k].req \in 1..Len(asked')
                                    /\ calls'[messages'[k].req] = <<>>
    <3> SUFFICES ASSUME NEW k \in DOMAIN messages'
                 PROVE  messages'[k].req \in 1..Len(asked') /\ calls'[messages'[k].req] = <<>>
      OBVIOUS
    <3>1. CASE k \in 1..Len(messages)
      <4>1. messages'[k] = messages[k] /\ messages[k].req \in 1..Len(asked)
        BY <1>5, <2>1, <3>1
      <4>2. messages[k].req \in 1..Len(asked')
        BY <1>0, <1>3, <4>1, SMT
      <4>. QED  BY <1>4, <2>1, <3>1, <4>1, <4>2
    <3>2. CASE k = Len(messages) + 1
      <4>1. messages'[k].req = Len(asked) + 1 /\ Len(asked) + 1 \in 1..Len(asked')
        BY <1>0, <1>2, <1>3, <1>5, <3>2
      <4>. QED  BY <1>4, <4>1
    <3>. QED  BY <1>6, <2>2, <3>1, <3>2
  <2>4. \A k, l \in DOMAIN messages' : k < l => messages'[k].req < messages'[l].req
    <3> SUFFICES ASSUME NEW k \in DOMAIN messages', NEW l \in DOMAIN messages', k < l
                 PROVE  messages'[k].req < messages'[l].req
      OBVIOUS
    <3>1. k \in 1..Len(messages)
      BY <1>0, <1>6, SMT
    <3>2. CASE l \in 1..Len(messages)
      BY <1>0, <1>5, <3>1, <3>2 DEF InOrder
    <3>3. CASE l = Len(messages) + 1
      BY <1>0, <1>2, <1>5, <2>1, <3>1, <3>3
    <3>. QED  BY <1>6, <2>2, <3>2, <3>3
  <2>5. \A i \in Ids : IsLive(i)' =>
          /\ conns'[i].req \in 1..Len(asked')
          /\ \A k \in DOMAIN messages' : conns'[i].req < messages'[k].req
    <3>1. \A i \in Ids : IsLive(i) =>
            /\ conns[i].req \in 1..Len(asked)
            /\ \A k \in 1..Len(messages) : conns[i].req < messages[k].req
      BY <1>0 DEF InOrder
    <3>. QED  BY <1>0, <1>1, <1>2, <1>3, <1>5, <1>6, <2>2, <3>1 DEF IsLive
  <2>. QED  BY <1>0, <1>1, <2>3, <2>4, <2>5 DEF InOrder, IsLive
<1>10. NotYet'
  <2>1. \A i \in Ids : IsLive(i) => conns[i].req \in 1..Len(asked)
    BY <1>0 DEF InOrder
  <2>. QED  BY <1>0, <1>1, <1>4, <2>1 DEF NotYet, IsLive
<1>11. Len(asked') <= MaxRequests
  BY <1>0, <1>1, <1>3, BoundAssumption
<1>. QED  BY <1>5, <1>7, <1>8, <1>9, <1>10, <1>11, ConnectsOnceSplitNext DEF PathInd

(* The first message leaves the queue.                                     *)
LEMMA TailKeeps ==
  ASSUME PathInd, messages # <<>>, messages' = Tail(messages),
         UNCHANGED <<hash, asked, conns, calls>>, running' \in BOOLEAN
  PROVE  PathInd'
<1>0. /\ messages \in Seq(MessageType) /\ Len(messages) \in Nat
      /\ DOMAIN messages = 1..Len(messages)
      /\ InOrder /\ NotYet /\ OnceOf(calls) /\ Len(asked) <= MaxRequests
      /\ hash \in [Urls -> Ids] /\ asked \in Seq(Urls)
      /\ calls \in Seq(Seq(Results)) /\ Len(calls) = Len(asked)
      /\ conns \in [Ids -> Connections \cup {NoConnection}]
  BY PathTypes, ConnectsOnceSplit DEF PathInd
<1>1. /\ messages' \in Seq(MessageType) /\ Len(messages') = Len(messages) - 1
      /\ \A k \in 1..Len(messages') : messages'[k] = messages[k + 1]
  BY <1>0, HeadTailProperties
<1>2. DOMAIN messages' = 1..Len(messages')
  BY <1>1, LenProperties
<1>3. RequestsTypeOK'
  BY <1>0, <1>1, PathTypesNext
<1>4. \A k \in DOMAIN messages' : k + 1 \in DOMAIN messages /\ messages'[k] = messages[k + 1]
  BY <1>0, <1>1, <1>2, SMT
<1>5. \A k, l \in DOMAIN messages' : k < l => k + 1 < l + 1
  BY <1>0, <1>1, <1>2, SMT
<1>6. InOrder'
  BY <1>0, <1>4, <1>5 DEF InOrder, IsLive
<1>7. NotYet' /\ OnceOf(calls')
  BY <1>0 DEF NotYet, IsLive
<1>. QED  BY <1>0, <1>1, <1>3, <1>6, <1>7, ConnectsOnceSplitNext DEF PathInd

LEMMA ProcessKeeps ==
  ASSUME PathInd, Process
  PROVE  PathInd'
<1> DEFINE m == Head(messages)
           c == Connection(m)
<1>0. /\ messages \in Seq(MessageType) /\ Len(messages) \in Nat
      /\ DOMAIN messages = 1..Len(messages)
      /\ InOrder /\ NotYet /\ OnceOf(calls) /\ Len(asked) <= MaxRequests /\ Len(asked) \in Nat
      /\ hash \in [Urls -> Ids] /\ asked \in Seq(Urls)
      /\ calls \in Seq(Seq(Results)) /\ Len(calls) = Len(asked)
      /\ conns \in [Ids -> Connections \cup {NoConnection}]
  BY PathTypes, ConnectsOnceSplit DEF PathInd
<1>1. /\ messages # <<>> /\ messages' = Tail(messages)
      /\ conns' = [conns EXCEPT ![m.id] = c]
      /\ UNCHANGED <<hash, asked, calls, running>> /\ running = TRUE
  BY DEF Process, PathInd, ConnectsOnce, RequestsTypeOK
<1>2. /\ messages' \in Seq(MessageType) /\ Len(messages') = Len(messages) - 1
      /\ \A k \in 1..Len(messages') : messages'[k] = messages[k + 1]
      /\ m \in MessageType /\ m = messages[1]
  BY <1>0, <1>1, HeadTailProperties
<1>3. /\ DOMAIN messages' = 1..Len(messages') /\ 1 \in DOMAIN messages
  BY <1>0, <1>1, <1>2, LenProperties, EmptySeq
<1>4. m.id \in Ids /\ m.req \in 1..Len(asked) /\ calls[m.req] = <<>>
  BY <1>0, <1>2, <1>3 DEF MessageType, InOrder
<1>5. /\ c \in Connections /\ c.req = m.req
  <2>1. m.req \in 1..MaxRequests
    BY <1>0, <1>4, BoundAssumption
  <2>. QED  BY <1>2, <2>1 DEF MessageType, Connection, Connections
<1> HIDE DEF m, c
<1>6. /\ conns'[m.id] = c /\ \A i \in Ids : i # m.id => conns'[i] = conns[i]
      /\ conns' \in [Ids -> Connections \cup {NoConnection}]
  BY <1>0, <1>1, <1>4, <1>5
<1>7. \A k \in DOMAIN messages' : /\ k + 1 \in DOMAIN messages /\ 1 < k + 1
                                  /\ messages'[k] = messages[k + 1]
  BY <1>0, <1>2, <1>3, SMT
<1>8. \A k, l \in DOMAIN messages' : k < l => k + 1 < l + 1
  BY <1>0, <1>2, <1>3, SMT
<1>9. RequestsTypeOK'
  BY <1>0, <1>1, <1>2, <1>6, PathTypesNext
<1>10. \A i \in Ids : IsLive(i)' => i = m.id \/ (IsLive(i) /\ conns'[i] = conns[i])
  BY <1>6 DEF IsLive
<1>11. InOrder'
  <2>1. \A k \in DOMAIN messages' : /\ messages'[k].req \in 1..Len(asked')
                                    /\ calls'[messages'[k].req] = <<>>
    BY <1>0, <1>1, <1>7 DEF InOrder
  <2>2. \A k, l \in DOMAIN messages' : k < l => messages'[k].req < messages'[l].req
    BY <1>0, <1>7, <1>8 DEF InOrder
  <2>3. \A k \in DOMAIN messages' : m.req < messages'[k].req
    BY <1>0, <1>2, <1>3, <1>7 DEF InOrder
  <2>4. \A i \in Ids : IsLive(i)' =>
          /\ conns'[i].req \in 1..Len(asked')
          /\ \A k \in DOMAIN messages' : conns'[i].req < messages'[k].req
    BY <1>0, <1>1, <1>4, <1>5, <1>6, <1>7, <1>10, <2>3 DEF InOrder
  <2>5. \A i \in Ids : IsLive(i) => conns[i].req < m.req
    BY <1>0, <1>2, <1>3 DEF InOrder
  <2>6. \A i, j \in Ids : IsLive(i)' /\ IsLive(j)' /\ conns'[i].req = conns'[j].req => i = j
    <3>1. \A i \in Ids : IsLive(i) => conns[i].req # m.req
      BY <1>0, <1>4, <2>5, SMT DEF InOrder
    <3>. QED  BY <1>0, <1>5, <1>6, <1>10, <3>1 DEF InOrder
  <2>. QED  BY <2>1, <2>2, <2>4, <2>6 DEF InOrder
<1>12. NotYet'
  <2>1. DOMAIN calls[m.req] = {}
    BY <1>4
  <2>. QED  BY <1>0, <1>1, <1>5, <1>6, <1>10, <2>1 DEF NotYet
<1>13. OnceOf(calls')
  BY <1>0, <1>1
<1>. QED  BY <1>0, <1>1, <1>2, <1>9, <1>11, <1>12, <1>13, ConnectsOnceSplitNext DEF PathInd

(* connect() is called once more for a request.                            *)
LEMMA OneMoreCall ==
  ASSUME PathInd, NEW q \in 1..Len(asked), NEW x \in Results,
         calls' = [calls EXCEPT ![q] = Append(@, x)]
  PROVE  /\ calls' \in Seq(Seq(Results)) /\ Len(calls') = Len(calls)
         /\ calls'[q] = Append(calls[q], x)
         /\ \A r \in 1..Len(asked) : r # q => calls'[r] = calls[r]
         /\ Len(calls'[q]) = Len(calls[q]) + 1 /\ calls'[q][Len(calls[q]) + 1] = x
         /\ DOMAIN calls'[q] = 1..(Len(calls[q]) + 1)
         /\ \A k \in 1..Len(calls[q]) : calls'[q][k] = calls[q][k]
<1>0. /\ calls \in Seq(Seq(Results)) /\ Len(calls) = Len(asked)
      /\ calls[q] \in Seq(Results)
  BY PathTypes
<1>1. /\ Append(calls[q], x) \in Seq(Results)
      /\ Len(Append(calls[q], x)) = Len(calls[q]) + 1
      /\ Append(calls[q], x)[Len(calls[q]) + 1] = x
      /\ \A k \in 1..Len(calls[q]) : Append(calls[q], x)[k] = calls[q][k]
  BY <1>0, AppendProperties
<1>2. DOMAIN Append(calls[q], x) = 1..(Len(calls[q]) + 1)
  BY <1>1, LenProperties
<1>3. /\ calls' \in Seq(Seq(Results)) /\ Len(calls') = Len(calls)
      /\ \A r \in 1..Len(calls) : calls'[r] = IF r = q THEN Append(calls[q], x) ELSE calls[r]
  BY <1>0, <1>1, ExceptSeq
<1>. QED  BY <1>0, <1>1, <1>2, <1>3

(* It is called for a connection that is not connected, and what it        *)
(* returns is noted, or the connection goes, or the process.               *)
LEMMA CallKeeps ==
  ASSUME PathInd, NEW i \in Ids, IsLive(i), ~conns[i].connected,
         NEW x \in Results, NEW c \in Connections \cup {NoConnection},
         calls' = [calls EXCEPT ![conns[i].req] = Append(@, x)],
         conns' = [conns EXCEPT ![i] = c],
         c # NoConnection => /\ c.req = conns[i].req
                             /\ ~c.connected => ~ConnectReturns(x),
         UNCHANGED <<hash, asked, messages>>, running' \in BOOLEAN
  PROVE  PathInd'
<1>. PICK q : q = conns[i].req
  OBVIOUS
<1>0. /\ InOrder /\ NotYet /\ OnceOf(calls) /\ Len(asked) <= MaxRequests
      /\ hash \in [Urls -> Ids] /\ asked \in Seq(Urls) /\ Len(asked) \in Nat
      /\ calls \in Seq(Seq(Results)) /\ Len(calls) = Len(asked) /\ DOMAIN calls = 1..Len(asked)
      /\ conns \in [Ids -> Connections \cup {NoConnection}]
      /\ messages \in Seq(MessageType)
  BY PathTypes, ConnectsOnceSplit DEF PathInd
<1>1. q \in 1..Len(asked)
  BY <1>0 DEF InOrder
<1>2. /\ calls' \in Seq(Seq(Results)) /\ Len(calls') = Len(calls)
      /\ \A r \in 1..Len(asked) : r # q => calls'[r] = calls[r]
      /\ Len(calls'[q]) = Len(calls[q]) + 1 /\ calls'[q][Len(calls[q]) + 1] = x
      /\ DOMAIN calls'[q] = 1..(Len(calls[q]) + 1)
      /\ \A k \in 1..Len(calls[q]) : calls'[q][k] = calls[q][k]
  BY <1>1, OneMoreCall
<1>3. Len(calls[q]) \in Nat /\ DOMAIN calls[q] = 1..Len(calls[q])
  BY <1>1, PathTypes
<1>4. DOMAIN calls' = 1..Len(asked)
  BY <1>0, <1>2, LenProperties
<1>5. /\ conns'[i] = c /\ \A j \in Ids : j # i => conns'[j] = conns[j]
      /\ conns' \in [Ids -> Connections \cup {NoConnection}]
  BY <1>0
<1>6. \A j \in Ids : IsLive(j)' => IsLive(j) /\ conns'[j].req = conns[j].req
  BY <1>5 DEF IsLive
<1>7. RequestsTypeOK'
  BY <1>0, <1>2, <1>5, PathTypesNext
<1>8. \A k \in 1..Len(calls[q]) : ~ConnectReturns(calls[q][k])
  BY <1>0, <1>3 DEF NotYet
<1>9. OnceOf(calls')
  <2> SUFFICES ASSUME NEW r \in 1..Len(asked), NEW k \in 1..(Len(calls'[r]) - 1)
               PROVE  ~ConnectReturns(calls'[r][k])
    BY <1>4 DEF OnceOf
  <2>1. CASE r = q
    <3>1. k \in 1..Len(calls[q])
      BY <1>2, <1>3, <2>1, SMT
    <3>. QED  BY <1>2, <1>8, <2>1, <3>1
  <2>2. CASE r # q
    BY <1>0, <1>2, <2>2 DEF OnceOf
  <2>. QED  BY <2>1, <2>2
<1>10. InOrder'
  <2>1. \A k \in DOMAIN messages : messages[k].req # q
    BY <1>0, <1>1, SMT DEF InOrder
  <2>2. \A k \in DOMAIN messages' : /\ messages'[k].req \in 1..Len(asked')
                                    /\ calls'[messages'[k].req] = <<>>
    BY <1>0, <1>2, <2>1 DEF InOrder
  <2>3. \A j \in Ids : IsLive(j)' =>
          /\ conns'[j].req \in 1..Len(asked')
          /\ \A k \in DOMAIN messages' : conns'[j].req < messages'[k].req
    BY <1>0, <1>6 DEF InOrder
  <2>4. \A j, l \in Ids : IsLive(j)' /\ IsLive(l)' /\ conns'[j].req = conns'[l].req => j = l
    BY <1>0, <1>6 DEF InOrder
  <2>5. \A k, l \in DOMAIN messages' : k < l => messages'[k].req < messages'[l].req
    BY <1>0 DEF InOrder
  <2>. QED  BY <2>2, <2>3, <2>4, <2>5 DEF InOrder
<1>11. NotYet'
  <2> SUFFICES ASSUME NEW j \in Ids, IsLive(j)', ~conns'[j].connected,
                      NEW k \in DOMAIN calls'[conns'[j].req]
               PROVE  ~ConnectReturns(calls'[conns'[j].req][k])
    BY DEF NotYet
  <2>1. CASE j = i
    <3>1. c # NoConnection /\ conns'[j].req = q /\ ~ConnectReturns(x)
      BY <1>5, <2>1 DEF IsLive
    <3>2. k \in 1..Len(calls[q]) \/ k = Len(calls[q]) + 1
      BY <1>2, <1>3, <3>1, SMT
    <3>. QED  BY <1>2, <1>8, <3>1, <3>2
  <2>2. CASE j # i
    <3>1. conns'[j] = conns[j] /\ IsLive(j) /\ conns[j].req \in 1..Len(asked) /\ conns[j].req # q
      BY <1>0, <1>5, <1>6, <2>2 DEF InOrder
    <3>. QED  BY <1>0, <1>2, <3>1 DEF NotYet
  <2>. QED  BY <2>1, <2>2
<1>. QED  BY <1>0, <1>7, <1>9, <1>10, <1>11, ConnectsOnceSplitNext DEF PathInd

LEMMA ConnectKeeps ==
  ASSUME PathInd, NEW i \in Ids, Connect(i) \/ ConnectDies(i)
  PROVE  PathInd'
<1>0. /\ conns \in [Ids -> Connections \cup {NoConnection}]
      /\ IsLive(i) /\ ~conns[i].connected /\ conns[i] \in Connections
  BY PathTypes DEF Connect, ConnectDies, IsLive
<1>1. ResultsFor(conns[i]) \subseteq Results
  BY ResultsAreTyped
<1>2. CASE Connect(i)
  <2>1. PICK x \in ResultsFor(conns[i]) :
          /\ calls' = [calls EXCEPT ![conns[i].req] = Append(@, x)]
          /\ \E c \in {[conns[i] EXCEPT !.connected = ConnectReturns(x)], NoConnection} :
                conns' = [conns EXCEPT ![i] = c]
    BY <1>2 DEF Connect
  <2>2. PICK c \in {[conns[i] EXCEPT !.connected = ConnectReturns(x)], NoConnection} :
          conns' = [conns EXCEPT ![i] = c]
    BY <2>1
  <2>3. /\ c \in Connections \cup {NoConnection}
        /\ c # NoConnection => c.req = conns[i].req /\ (~c.connected => ~ConnectReturns(x))
    <3>1. CASE c = NoConnection
      BY <3>1
    <3>2. CASE c = [conns[i] EXCEPT !.connected = ConnectReturns(x)]
      <4> DEFINE b == ConnectReturns(x)
      <4>1. b \in BOOLEAN
        BY DEF ConnectReturns
      <4>2. c = [conns[i] EXCEPT !.connected = b]
        BY <3>2
      <4> HIDE DEF b
      <4>3. c \in Connections /\ c.req = conns[i].req /\ c.connected = b
        BY <1>0, <4>1, <4>2 DEF Connections
      <4>. QED  BY <4>3 DEF b
    <3>. QED  BY <2>2, <3>1, <3>2
  <2>4. UNCHANGED <<hash, asked, messages>> /\ running' \in BOOLEAN
    BY <1>2 DEF Connect
  <2>. QED  BY <1>0, <1>1, <2>1, <2>2, <2>3, <2>4, CallKeeps
<1>3. CASE ConnectDies(i)
  <2>1. PICK x \in ResultsFor(conns[i]) \cap OtherErrors :
          calls' = [calls EXCEPT ![conns[i].req] = Append(@, x)]
    BY <1>3 DEF ConnectDies
  <2>2. /\ ~ConnectReturns(x) /\ x \in Results
    BY <1>1, <2>1 DEF ConnectReturns
  <2>3. UNCHANGED <<hash, asked, messages>> /\ running' \in BOOLEAN
        /\ conns' = [conns EXCEPT ![i] = conns[i]]
    BY <1>0, <1>3 DEF ConnectDies
  <2>. QED  BY <1>0, <2>1, <2>2, <2>3, CallKeeps
<1>. QED  BY <1>2, <1>3

LEMMA ServeKeeps ==
  ASSUME PathInd, NEW i \in Ids, Serve(i)
  PROVE  PathInd'
<1>0. /\ InOrder /\ NotYet /\ OnceOf(calls) /\ Len(asked) <= MaxRequests
      /\ hash \in [Urls -> Ids] /\ asked \in Seq(Urls)
      /\ calls \in Seq(Seq(Results)) /\ Len(calls) = Len(asked)
      /\ conns \in [Ids -> Connections \cup {NoConnection}]
      /\ messages \in Seq(MessageType)
  BY PathTypes, ConnectsOnceSplit DEF PathInd
<1>1. /\ conns' = conns \/ conns' = [conns EXCEPT ![i] = NoConnection]
      /\ UNCHANGED <<hash, asked, messages, calls>> /\ running' \in BOOLEAN
  BY DEF Serve
<1>2. conns' \in [Ids -> Connections \cup {NoConnection}]
  BY <1>0, <1>1
<1>3. \A j \in Ids : IsLive(j)' => IsLive(j) /\ conns'[j] = conns[j]
  BY <1>0, <1>1 DEF IsLive
<1>4. RequestsTypeOK'
  BY <1>0, <1>1, <1>2, PathTypesNext
<1>5. InOrder'
  BY <1>0, <1>1, <1>3 DEF InOrder
<1>6. NotYet' /\ OnceOf(calls')
  BY <1>0, <1>1, <1>3 DEF NotYet
<1>. QED  BY <1>0, <1>1, <1>4, <1>5, <1>6, ConnectsOnceSplitNext DEF PathInd

LEMMA PathNext == PathInd /\ [RequestsNext]_requestVars => PathInd'
<1> SUFFICES ASSUME PathInd, [RequestsNext]_requestVars
             PROVE  PathInd'
  OBVIOUS
<1>0. running \in BOOLEAN
  BY DEF PathInd, ConnectsOnce, RequestsTypeOK
<1>1. ASSUME UNCHANGED <<hash, asked, messages, conns, calls>>, running' \in BOOLEAN
      PROVE  PathInd'
  <2>1. RequestsTypeOK'
    BY <1>1, PathTypes, PathTypesNext
  <2>. QED
    BY <1>1, <2>1 DEF PathInd, ConnectsOnce, InOrder, NotYet, IsLive
<1>2. ASSUME NEW u \in Urls, RequestRejected(u) \/ RequestDies(u)
      PROVE  PathInd'
  BY <1>0, <1>1, <1>2 DEF RequestRejected, RequestDies, requestVars
<1>3. CASE ProcessFails
  BY <1>0, <1>3, TailKeeps DEF ProcessFails
<1>4. CASE ProcessDies
  BY <1>1, <1>4 DEF ProcessDies
<1>5. CASE UNCHANGED requestVars
  BY <1>0, <1>1, <1>5 DEF requestVars
<1>. QED
  BY <1>2, <1>3, <1>4, <1>5, RequestKeeps, ProcessKeeps, ConnectKeeps, ServeKeeps
  DEF RequestsNext

THEOREM PathInvariance == RequestsSpec => []PathInd
<1>. QED  BY PathInit, PathNext, PTL DEF RequestsSpec

(* connect() is not called again for a request once it has returned, for   *)
(* any requests, ids that clash, replacements and failures.                *)
THEOREM EachConnectsOnce == RequestsSpec => []ConnectsOnce
<1>1. PathInd => ConnectsOnce
  BY DEF PathInd
<1>. QED  BY <1>1, PathInvariance, PTL

(* A connection never gives way to that of an older request.               *)
THEOREM NewestRequestWins == RequestsSpec => NewestWins
<1> DEFINE Newer == \A i \in Ids : conns[i] # NoConnection /\ conns'[i] # NoConnection =>
                                     conns'[i].req >= conns[i].req
<1>1. ASSUME PathInd, [RequestsNext]_requestVars
      PROVE  Newer
  <2>0. /\ conns \in [Ids -> Connections \cup {NoConnection}] /\ InOrder
        /\ \A i \in Ids : IsLive(i) => conns[i].req \in Nat
    BY <1>1, PathTypes DEF PathInd, InOrder
  <2>1. CASE \A i \in Ids : conns'[i] = conns[i] \/ conns'[i] = NoConnection
                              \/ (IsLive(i) /\ conns'[i].req = conns[i].req)
    BY <2>0, <2>1, SMT DEF IsLive
  <2>2. CASE Process
    <3>1. messages # <<>> /\ messages \in Seq(MessageType)
      BY <1>1, <2>2, PathTypes DEF Process
    <3>. PICK m : m = Head(messages)
      OBVIOUS
    <3>2. m = messages[1] /\ 1 \in DOMAIN messages /\ m \in MessageType
      BY <3>1, HeadTailProperties, LenProperties, EmptySeq
    <3>3. conns' = [conns EXCEPT ![m.id] = Connection(m)] /\ Connection(m).req = m.req
      BY <2>2 DEF Process, Connection
    <3>4. \A i \in Ids : IsLive(i) => conns[i].req < m.req
      BY <2>0, <3>2 DEF InOrder
    <3>5. m.req \in Nat
      BY <3>2 DEF MessageType
    <3>. QED  BY <2>0, <3>3, <3>4, <3>5, SMT DEF IsLive
  <2>3. ASSUME NEW i \in Ids, Connect(i)
        PROVE  Newer
    <3>0. PICK x \in ResultsFor(conns[i]) :
            \E c \in {[conns[i] EXCEPT !.connected = ConnectReturns(x)], NoConnection} :
               conns' = [conns EXCEPT ![i] = c]
      BY <2>3 DEF Connect
    <3>1. PICK c \in {[conns[i] EXCEPT !.connected = ConnectReturns(x)], NoConnection} :
            conns' = [conns EXCEPT ![i] = c]
      BY <3>0
    <3>2. conns[i] \in Connections /\ IsLive(i)
      BY <2>0, <2>3 DEF Connect, IsLive
    <3>3. c = NoConnection \/ c.req = conns[i].req
      BY <3>1, <3>2 DEF Connections
    <3>. QED  BY <2>0, <2>1, <3>1, <3>2, <3>3
  <2>4. ASSUME NEW i \in Ids, Serve(i)
        PROVE  Newer
    BY <2>0, <2>1, <2>4 DEF Serve
  <2>. QED
    BY <1>1, <2>1, <2>2, <2>3, <2>4 DEF RequestsNext, Request, RequestRejected, RequestDies,
       ProcessFails, ProcessDies, ConnectDies, requestVars
<1>2. PathInd /\ [RequestsNext]_requestVars => [Newer]_requestVars
  BY <1>1
<1>. QED  BY <1>2, PathInvariance, PTL DEF RequestsSpec, NewestWins
=============================================================================
