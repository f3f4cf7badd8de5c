------------------------- MODULE ClientRunnableProofs -------------------------
(***************************************************************************)
(* The queue, the array and the loop of the network thread, for any        *)
(* posters, any number of posts and any size of the array: no message is   *)
(* lost or deleted twice, and together they are a mailbox.                 *)
(*                                                                         *)
(* The argument: `All', what was deleted followed by what is pending, only *)
(* ever grows at its end, and only by the message of a Post.  TakeSome and *)
(* HandleOne move messages inside it.                                      *)
(***************************************************************************)
EXTENDS ClientRunnable, SequenceTheorems, TLAPS

Batch == SubSeq(messages, first, last - 1)
All == deleted \o Pending

Distinct(seq) == \A i, j \in DOMAIN seq : i # j => seq[i] # seq[j]

(* The array holds a message wherever the loop will read it, and nothing   *)
(* is left of a batch when the next one is taken.                          *)
BatchOK == /\ \A i \in first..(last - 1) : messages[i] \in Messages
           /\ pc = "take" => first = last

(* What a poster that has looked the queue up is about to post is new.     *)
FoundOK == \A p \in found : /\ posts[p] >= 1
                            /\ <<p, posts[p]>> \notin Elements(All)

Ind == TypeOK /\ BatchOK /\ FoundOK /\ Distinct(All) /\ NothingLost

-----------------------------------------------------------------------------
LEMMA BatchSeq ==
  ASSUME TypeOK, BatchOK
  PROVE  /\ Batch \in Seq(Messages)
         /\ Len(Batch) = last - first
         /\ \A i \in 1..(last - first) : Batch[i] = messages[first + i - 1]
<1>1. first \in Int /\ last \in Int /\ last - 1 \in Int /\ first <= last
  BY BoundsAssumption DEF TypeOK
<1>2. \A i \in first..(last - 1) : messages[i] \in Messages
  BY DEF BatchOK
<1>3. /\ Batch \in Seq(Messages)
      /\ Len(Batch) = IF first <= last - 1 THEN last - 1 - first + 1 ELSE 0
      /\ \A i \in 1..(last - 1 - first + 1) : Batch[i] = messages[first + i - 1]
  BY <1>1, <1>2, SubSeqProperties DEF Batch
<1>. QED  BY <1>1, <1>3

Whole == /\ Pending \in Seq(Messages)
         /\ All \in Seq(Messages)
         /\ Elements(All) = Elements(Pending) \cup Elements(deleted)

LEMMA AllSeq == TypeOK /\ BatchOK => Whole
<1> SUFFICES ASSUME TypeOK, BatchOK PROVE Whole
  OBVIOUS
<1>1. Pending \in Seq(Messages)
  BY BatchSeq, ConcatProperties DEF TypeOK, Pending, Batch
<1>2. deleted \in Seq(Messages)
  BY DEF TypeOK
<1>3. /\ All \in Seq(Messages)
      /\ Len(All) = Len(deleted) + Len(Pending)
      /\ \A i \in 1..(Len(deleted) + Len(Pending)) :
           All[i] = IF i <= Len(deleted) THEN deleted[i] ELSE Pending[i - Len(deleted)]
  BY <1>1, <1>2, ConcatProperties DEF All
<1>4. ASSUME NEW i \in DOMAIN All PROVE All[i] \in Elements(Pending) \cup Elements(deleted)
  <2>1. CASE i <= Len(deleted)
    <3>1. i \in DOMAIN deleted /\ All[i] = deleted[i]
      BY <1>1, <1>2, <1>3, <2>1
    <3>. QED  BY <3>1 DEF Elements
  <2>2. CASE ~(i <= Len(deleted))
    <3>1. i - Len(deleted) \in DOMAIN Pending /\ All[i] = Pending[i - Len(deleted)]
      BY <1>1, <1>2, <1>3, <2>2
    <3>. QED  BY <3>1 DEF Elements
  <2>. QED  BY <2>1, <2>2
<1>5. ASSUME NEW i \in DOMAIN deleted PROVE deleted[i] \in Elements(All)
  <2>1. i \in DOMAIN All /\ All[i] = deleted[i]
    BY <1>1, <1>2, <1>3
  <2>. QED  BY <2>1 DEF Elements
<1>6. ASSUME NEW i \in DOMAIN Pending PROVE Pending[i] \in Elements(All)
  <2>1. i + Len(deleted) \in 1..Len(All) /\ i \in Nat \ {0} /\ Len(deleted) \in Nat
    BY <1>1, <1>2, <1>3
  <2>2. All[i + Len(deleted)] = Pending[i]
    BY <2>1, <1>3
  <2>. QED  BY <2>1, <2>2, <1>3 DEF Elements
<1>. QED  BY <1>1, <1>3, <1>4, <1>5, <1>6 DEF Elements, Whole

(* The steps that move messages, or touch none, keep everything else.      *)
LEMMA MovesKeep ==
  ASSUME Ind, TypeOK', BatchOK', All' = All, UNCHANGED <<posts, found, refused>>
  PROVE  Ind'
<1>1. Whole
  BY AllSeq DEF Ind
<1>2. Whole'
  BY AllSeq, PTL
<1>. QED  BY <1>1, <1>2 DEF Ind, Whole, FoundOK, Distinct, NothingLost

-----------------------------------------------------------------------------
(* Lookup: a message is made, and its number is above all others of p.     *)
LEMMA LookupKeeps ==
  ASSUME Ind, NEW p \in Posters, NEW k \in Kinds, Lookup(p, k)
  PROVE  Ind'
<1> DEFINE new == <<p, posts[p] + 1>>
<1>1. /\ posts[p] \in 0..MaxPosts /\ posts[p] + 1 \in 1..MaxPosts
      /\ new \in Messages
  BY BoundsAssumption DEF Ind, TypeOK, Lookup, Messages
<1>2. UNCHANGED <<queue, messages, first, last, pc, deleted>>
  BY DEF Lookup
<1>3. Batch' = Batch /\ Pending' = Pending /\ All' = All
  BY <1>2 DEF Batch, Pending, All
<1>4. posts' = [posts EXCEPT ![p] = @ + 1] /\ posts' \in [Posters -> 0..MaxPosts]
  BY <1>1 DEF Lookup, Ind, TypeOK
<1>5. kind' \in [Messages -> Kinds \cup {None}]
  BY <1>1 DEF Lookup, Ind, TypeOK
<1>6. TypeOK'
  BY <1>1, <1>2, <1>4, <1>5 DEF Lookup, Ind, TypeOK
<1>7. BatchOK'
  BY <1>2 DEF Ind, BatchOK
<1>8. Whole /\ NothingLost
  BY AllSeq DEF Ind
<1>9. \A m \in Elements(All) : m \in Messages /\ m[2] <= posts[m[1]]
  BY <1>8 DEF Whole, NothingLost
<1>10. new \notin Elements(All)
  BY <1>1, <1>9
<1>11. FoundOK'
  <2>1. \A q \in found : q # p /\ posts'[q] = posts[q]
    BY <1>4 DEF Lookup, Ind, TypeOK
  <2>2. posts'[p] = posts[p] + 1
    BY <1>4 DEF Ind, TypeOK
  <2>3. found' \subseteq found \cup {p}
    BY DEF Lookup
  <2>. QED  BY <1>1, <1>3, <1>10, <2>1, <2>2, <2>3 DEF Ind, FoundOK, Elements
<1>12. NothingLost'
  <2>1. \A m \in Messages : m[2] <= posts'[m[1]] <=> m[2] <= posts[m[1]] \/ m = new
    BY <1>1, <1>4 DEF Ind, TypeOK, Messages
  <2>2. { m \in Messages : m[2] <= posts'[m[1]] }
          = { m \in Messages : m[2] <= posts[m[1]] } \cup {new}
    BY <1>1, <2>1
  <2>3. \A q \in found : posts'[q] = posts[q]
    BY <1>4 DEF Lookup, Ind, TypeOK
  <2>4. posts'[p] = posts[p] + 1
    BY <1>4 DEF Ind, TypeOK
  <2>5. refused' \cup { <<q, posts'[q]>> : q \in found' }
          = refused \cup { <<q, posts[q]>> : q \in found } \cup {new}
    <3>1. CASE registered
      <4>1. found' = found \cup {p} /\ refused' = refused
        BY <3>1 DEF Lookup
      <4>. QED  BY <4>1, <2>3, <2>4
    <3>2. CASE ~registered
      <4>1. found' = found /\ refused' = refused \cup {new}
        BY <3>2 DEF Lookup
      <4>. QED  BY <4>1, <2>3
    <3>. QED  BY <3>1, <3>2
  <2>6. Elements(Pending)' = Elements(Pending) /\ Elements(deleted)' = Elements(deleted)
    BY <1>2, <1>3 DEF Elements
  <2>7. { m \in Messages : m[2] <= posts[m[1]] }
          = refused \cup { <<q, posts[q]>> : q \in found }
            \cup Elements(Pending) \cup Elements(deleted)
    BY <1>8 DEF NothingLost
  <2> HIDE DEF new
  <2>. QED  BY <2>2, <2>5, <2>6, <2>7 DEF NothingLost
<1>. QED  BY <1>3, <1>6, <1>7, <1>11, <1>12 DEF Ind, Distinct

(* Post: All grows by the poster's message.                                *)
LEMMA PostStep ==
  ASSUME Ind, NEW p \in Posters, Post(p)
  PROVE  LET m == <<p, posts[p]>>
         IN  /\ m \in Messages \ Elements(All)
             /\ Pending' = Append(Pending, m)
             /\ All' = Append(All, m)
             /\ TypeOK' /\ BatchOK'
<1> DEFINE m == <<p, posts[p]>>
<1>1. m \in Messages \ Elements(All)
  BY BoundsAssumption DEF Ind, TypeOK, FoundOK, Post, Messages
<1>2. queue \in Seq(Messages) /\ deleted \in Seq(Messages) /\ Pending \in Seq(Messages)
      /\ Batch \in Seq(Messages)
  BY AllSeq, BatchSeq DEF Ind, TypeOK, Whole
<1>3. queue' = Append(queue, m) /\ Batch' = Batch /\ deleted' = deleted
  BY DEF Post, Batch
<1>4. queue' = queue \o <<m>> /\ queue' \in Seq(Messages) /\ <<m>> \in Seq(Messages)
  BY <1>1, <1>2, <1>3, AppendIsConcat
<1>5. Pending = Batch \o queue /\ Pending' = Batch \o queue'
  BY <1>3 DEF Pending, Batch
<1>6. Pending' = Pending \o <<m>>
  BY <1>2, <1>4, <1>5, ConcatAssociative
<1>7. Pending' = Append(Pending, m)
  BY <1>1, <1>2, <1>6, AppendIsConcat
<1>8. All' = deleted \o (Pending \o <<m>>)
  BY <1>3, <1>6 DEF All
<1>9. All' = All \o <<m>> /\ All \in Seq(Messages)
  BY <1>2, <1>4, <1>8, ConcatAssociative, AllSeq DEF All, Ind, Whole
<1>10. All' = Append(All, m)
  BY <1>1, <1>9, AppendIsConcat
<1>11. TypeOK'
  BY <1>4 DEF Ind, TypeOK, Post
<1>12. BatchOK'
  BY DEF Ind, BatchOK, Post
<1>. QED  BY <1>1, <1>7, <1>10, <1>11, <1>12

LEMMA ElementsAppend ==
  ASSUME NEW seq \in Seq(Messages), NEW m \in Messages
  PROVE  Elements(Append(seq, m)) = Elements(seq) \cup {m}
<1>1. /\ Append(seq, m) \in Seq(Messages)
      /\ Len(Append(seq, m)) = Len(seq) + 1
      /\ \A i \in 1..Len(seq) : Append(seq, m)[i] = seq[i]
      /\ Append(seq, m)[Len(seq) + 1] = m
      /\ Len(seq) \in Nat
  BY AppendProperties
<1>2. DOMAIN Append(seq, m) = 1..(Len(seq) + 1) /\ DOMAIN seq = 1..Len(seq)
  BY <1>1
<1> DEFINE longer == Append(seq, m)
<1> HIDE DEF longer
<1>3. { longer[i] : i \in 1..(Len(seq) + 1) }
        = { longer[i] : i \in 1..Len(seq) } \cup { longer[Len(seq) + 1] }
  <2>1. 1..(Len(seq) + 1) = (1..Len(seq)) \cup {Len(seq) + 1}
    BY <1>1
  <2>. QED  BY <2>1
<1>4. { longer[i] : i \in 1..Len(seq) } = { seq[i] : i \in 1..Len(seq) }
  BY <1>1 DEF longer
<1>. QED  BY <1>1, <1>2, <1>3, <1>4 DEF Elements, longer

LEMMA PostKeeps ==
  ASSUME Ind, NEW p \in Posters, Post(p)
  PROVE  Ind'
<1> DEFINE m == <<p, posts[p]>>
<1>1. /\ m \in Messages \ Elements(All) /\ All \in Seq(Messages)
      /\ Pending \in Seq(Messages) /\ Pending' = Append(Pending, m)
      /\ All' = Append(All, m) /\ TypeOK' /\ BatchOK'
  BY PostStep, AllSeq DEF Ind, Whole
<1>2. /\ Elements(All)' = Elements(All) \cup {m}
      /\ Elements(Pending)' = Elements(Pending) \cup {m}
  <2>1. Elements(All)' = Elements(Append(All, m))
    BY <1>1 DEF Elements
  <2>2. Elements(Pending)' = Elements(Append(Pending, m))
    BY <1>1 DEF Elements
  <2>. QED  BY <1>1, <2>1, <2>2, ElementsAppend
<1>3. found' = found \ {p} /\ p \in found /\ UNCHANGED <<posts, refused, deleted>>
  BY DEF Post
<1>4. Distinct(All)'
  <2>1. /\ Len(All') = Len(All) + 1 /\ Len(All) \in Nat
        /\ \A i \in 1..Len(All) : All'[i] = All[i]
        /\ All'[Len(All) + 1] = m
        /\ DOMAIN All' = 1..(Len(All) + 1) /\ DOMAIN All = 1..Len(All)
    BY <1>1, AppendProperties
  <2>2. \A i \in 1..Len(All) : All[i] # m
    BY <1>1, <2>1 DEF Elements
  <2>. QED  BY <2>1, <2>2 DEF Ind, Distinct
<1>5. FoundOK'
  <2>1. \A q \in found' : q # p /\ q \in found
    BY <1>3
  <2>. QED  BY <2>1, <1>2, <1>3 DEF Ind, FoundOK
<1>6. NothingLost'
  <2>1. { <<q, posts[q]>> : q \in found } = { <<q, posts[q]>> : q \in found' } \cup {m}
    BY <1>3
  <2>2. Elements(deleted)' = Elements(deleted)
    BY <1>3 DEF Elements
  <2> HIDE DEF m
  <2>. QED  BY <1>2, <1>3, <2>1, <2>2 DEF Ind, NothingLost
<1>. QED  BY <1>1, <1>4, <1>5, <1>6 DEF Ind

(* HandleOne: the first pending message becomes the last deleted one.      *)
LEMMA HandleStep ==
  ASSUME Ind, HandleOne
  PROVE  /\ Pending # <<>>
         /\ Pending' = Tail(Pending)
         /\ deleted' = Append(deleted, Head(Pending))
         /\ All' = All
         /\ TypeOK' /\ BatchOK'
<1> DEFINE m == messages[first]
<1>1. /\ first \in Nat \ {0} /\ last \in Nat \ {0} /\ first < last
      /\ first <= BatchSize /\ last <= BatchSize + 1 /\ last - 1 >= first
  BY BoundsAssumption DEF Ind, TypeOK, HandleOne
<1>2. m \in Messages
  BY <1>1 DEF Ind, BatchOK
<1>3. /\ Batch \in Seq(Messages) /\ Len(Batch) = last - first
      /\ \A i \in 1..(last - first) : Batch[i] = messages[first + i - 1]
  BY BatchSeq DEF Ind
<1>4. deleted' = Append(deleted, m) /\ first' = first + 1
      /\ UNCHANGED <<queue, messages, last, pc>>
  BY DEF HandleOne
<1>5. TypeOK'
  <2>1. first' \in 1..(BatchSize + 1) /\ first' <= last'
    BY <1>1, <1>4, BoundsAssumption
  <2>2. deleted' \in Seq(Messages)
    BY <1>2, <1>4 DEF Ind, TypeOK
  <2>3. served' \subseteq Messages
    BY <1>2 DEF HandleOne, Ind, TypeOK
  <2>. QED  BY <1>4, <2>1, <2>2, <2>3 DEF HandleOne, Ind, TypeOK
<1>6. BatchOK'
  BY <1>1, <1>4 DEF Ind, BatchOK, HandleOne
<1>7. /\ Batch' \in Seq(Messages) /\ Len(Batch') = last - (first + 1)
      /\ \A i \in 1..(last - (first + 1)) : Batch'[i] = messages[first + 1 + i - 1]
  <2>1. /\ first + 1 \in Int /\ last - 1 \in Int
        /\ \A i \in (first + 1)..(last - 1) : messages[i] \in Messages
    BY <1>1 DEF Ind, BatchOK
  <2>2. Batch' = SubSeq(messages, first + 1, last - 1)
    BY <1>4 DEF Batch
  <2>3. /\ Batch' \in Seq(Messages)
        /\ Len(Batch') = IF first + 1 <= last - 1 THEN last - 1 - (first + 1) + 1 ELSE 0
        /\ \A i \in 1..(last - 1 - (first + 1) + 1) :
             Batch'[i] = messages[first + 1 + i - 1]
    BY <2>1, <2>2, SubSeqProperties
  <2>. QED  BY <2>3, <1>1
<1>8. Batch = <<m>> \o Batch'
  <2>1. <<m>> \in Seq(Messages) /\ Len(<<m>>) = 1 /\ <<m>>[1] = m
    BY <1>2
  <2>2. /\ <<m>> \o Batch' \in Seq(Messages)
        /\ Len(<<m>> \o Batch') = 1 + Len(Batch')
        /\ \A i \in 1..(1 + Len(Batch')) :
             (<<m>> \o Batch')[i] = IF i <= 1 THEN m ELSE Batch'[i - 1]
    BY <1>7, <2>1, ConcatProperties
  <2>3. \A i \in 1..(last - first) : Batch[i] = (<<m>> \o Batch')[i]
    <3> TAKE i \in 1..(last - first)
    <3>1. CASE i = 1
      BY <3>1, <1>1, <1>3, <1>7, <2>2
    <3>2. CASE i > 1
      <4>1. i - 1 \in 1..(last - (first + 1)) /\ i \in 1..(1 + Len(Batch'))
        BY <3>2, <1>1, <1>7
      <4>2. (<<m>> \o Batch')[i] = Batch'[i - 1]
        BY <3>2, <4>1, <2>2
      <4>3. Batch'[i - 1] = messages[first + 1 + (i - 1) - 1]
        BY <4>1, <1>7
      <4>4. first + 1 + (i - 1) - 1 = first + i - 1
        BY <1>1
      <4>. QED  BY <4>2, <4>3, <4>4, <1>3
    <3>3. i = 1 \/ i > 1
      BY <1>1
    <3>. QED  BY <3>1, <3>2, <3>3
  <2>4. Len(<<m>> \o Batch') = last - first
    BY <1>1, <1>7, <2>2
  <2>. QED  BY <1>3, <2>2, <2>3, <2>4, SeqEqual
<1>9. queue \in Seq(Messages) /\ deleted \in Seq(Messages) /\ <<m>> \in Seq(Messages)
  BY <1>2 DEF Ind, TypeOK
<1>10. Pending = <<m>> \o Pending' /\ Pending' \in Seq(Messages)
  <2>1. Pending' = Batch' \o queue /\ Pending = Batch \o queue
    BY <1>4 DEF Pending, Batch
  <2>. QED  BY <2>1, <1>7, <1>8, <1>9, ConcatAssociative, ConcatProperties
<1>11. Pending # <<>> /\ Head(Pending) = m /\ Tail(Pending) = Pending'
  <2> DEFINE tail == Pending'
  <2>1. Pending = <<m>> \o tail /\ tail \in Seq(Messages)
    BY <1>10
  <2> HIDE DEF tail
  <2>2. /\ Len(Pending) = 1 + Len(tail) /\ Len(tail) \in Nat
        /\ Pending \in Seq(Messages)
        /\ \A i \in 1..(1 + Len(tail)) : Pending[i] = IF i <= 1 THEN m ELSE tail[i - 1]
    BY <1>9, <2>1, ConcatProperties, LenProperties
  <2>3. Pending # <<>> /\ Head(Pending) = m
    BY <2>2
  <2>4. /\ Tail(Pending) \in Seq(Messages) /\ Len(Tail(Pending)) = Len(tail)
        /\ \A i \in 1..Len(tail) : Tail(Pending)[i] = Pending[i + 1]
    BY <2>2, <2>3, HeadTailProperties
  <2>5. \A i \in 1..Len(tail) : Tail(Pending)[i] = tail[i]
    BY <2>2, <2>4
  <2>6. Tail(Pending) = tail
    BY <2>1, <2>4, <2>5, SeqEqual
  <2>. QED  BY <2>3, <2>6 DEF tail
<1>12. All' = All
  <2>1. deleted' = deleted \o <<m>>
    BY <1>4, <1>9, <1>2, AppendIsConcat
  <2>2. All' = (deleted \o <<m>>) \o Pending'
    BY <2>1 DEF All
  <2>. QED  BY <2>2, <1>9, <1>10, ConcatAssociative DEF All
<1>. QED  BY <1>4, <1>5, <1>6, <1>11, <1>12

LEMMA HandleKeeps ==
  ASSUME Ind, HandleOne
  PROVE  Ind'
<1>1. UNCHANGED <<posts, found, refused>>
  BY DEF HandleOne
<1>. QED  BY <1>1, HandleStep, MovesKeep

(* TakeSome: the batch is handled, and the front of the deque becomes the  *)
(* next one.                                                               *)
LEMMA TakeStep ==
  ASSUME Ind, TakeSome
  PROVE  /\ Pending' = Pending
         /\ TypeOK' /\ BatchOK'
<1> DEFINE n == IF Len(queue) < BatchSize THEN Len(queue) ELSE BatchSize
<1>1. /\ queue \in Seq(Messages) /\ Len(queue) \in Nat
      /\ \A i \in 1..Len(queue) : queue[i] \in Messages
      /\ n \in 0..Len(queue) /\ n \in 0..BatchSize
  BY BoundsAssumption DEF Ind, TypeOK
<1>2. /\ messages' = [i \in 1..BatchSize |-> IF i <= n THEN queue[i] ELSE messages[i]]
      /\ queue' = SubSeq(queue, n + 1, Len(queue))
      /\ first' = 1 /\ last' = n + 1 /\ pc' = "select"
  BY DEF TakeSome
<1> HIDE DEF n
<1>3. \A i \in 1..n : messages'[i] = queue[i] /\ messages'[i] \in Messages
  BY <1>1, <1>2, BoundsAssumption
<1>4. BatchOK'
  <2>1. \A i \in first'..(last' - 1) : i \in 1..n
    BY <1>1, <1>2
  <2>. QED  BY <1>2, <1>3, <2>1 DEF BatchOK
<1>5. /\ queue' \in Seq(Messages) /\ Len(queue') = Len(queue) - n
      /\ \A i \in 1..(Len(queue) - n) : queue'[i] = queue[n + i]
  <2>1. /\ n + 1 \in Int /\ Len(queue) \in Int
        /\ \A i \in (n + 1)..Len(queue) : queue[i] \in Messages
    BY <1>1
  <2>2. /\ queue' \in Seq(Messages)
        /\ Len(queue') = IF n + 1 <= Len(queue) THEN Len(queue) - (n + 1) + 1 ELSE 0
        /\ \A i \in 1..(Len(queue) - (n + 1) + 1) : queue'[i] = queue[n + 1 + i - 1]
    BY <1>2, <2>1, SubSeqProperties
  <2>. QED  BY <1>1, <2>2
<1>6. TypeOK'
  <2>1. messages' \in [1..BatchSize -> Messages \cup {None}]
    BY <1>1, <1>2, BoundsAssumption DEF Ind, TypeOK
  <2>2. /\ first' \in 1..(BatchSize + 1) /\ last' \in 1..(BatchSize + 1)
        /\ first' <= last'
    BY <1>1, <1>2, BoundsAssumption
  <2>. QED  BY <1>2, <1>5, <2>1, <2>2 DEF Ind, TypeOK, TakeSome
<1>7. Batch = <<>>
  <2>1. first = last /\ first \in Int
    BY BoundsAssumption DEF Ind, BatchOK, TypeOK, TakeSome
  <2>2. last - 1 < first /\ last - 1 \in Int
    BY <2>1
  <2>. QED  BY <2>1, <2>2, SubSeqEmpty DEF Batch
<1>8. Pending = queue
  <2>1. Pending = Batch \o queue
    BY DEF Pending, Batch
  <2>. QED  BY <2>1, <1>1, <1>7, ConcatEmptySeq
<1>9. /\ Batch' \in Seq(Messages) /\ Len(Batch') = n
      /\ \A i \in 1..n : Batch'[i] = queue[i]
  <2>1. Batch' = SubSeq(messages', 1, n)
    BY <1>1, <1>2 DEF Batch
  <2>2. 1 \in Int /\ n \in Int /\ \A i \in 1..n : messages'[i] \in Messages
    BY <1>1, <1>3
  <2>3. /\ Batch' \in Seq(Messages)
        /\ Len(Batch') = IF 1 <= n THEN n - 1 + 1 ELSE 0
        /\ \A i \in 1..(n - 1 + 1) : Batch'[i] = messages'[1 + i - 1]
    BY <2>1, <2>2, SubSeqProperties
  <2>4. \A i \in 1..n : 1 + i - 1 = i /\ i \in 1..(n - 1 + 1)
    BY <1>1
  <2>. QED  BY <1>1, <1>3, <2>3, <2>4
<1>10. Pending' = queue
  <2>1. Pending' = Batch' \o queue'
    BY DEF Pending, Batch
  <2>2. /\ Pending' \in Seq(Messages)
        /\ Len(Pending') = n + (Len(queue) - n)
        /\ \A i \in 1..(n + (Len(queue) - n)) :
             Pending'[i] = IF i <= n THEN Batch'[i] ELSE queue'[i - n]
    <3> DEFINE b == Batch'
               q == queue'
    <3>1. b \in Seq(Messages) /\ q \in Seq(Messages)
          /\ Len(b) = n /\ Len(q) = Len(queue) - n /\ Pending' = b \o q
      BY <1>5, <1>9, <2>1
    <3> HIDE DEF b, q
    <3>2. /\ b \o q \in Seq(Messages)
          /\ Len(b \o q) = Len(b) + Len(q)
          /\ \A i \in 1..(Len(b) + Len(q)) :
               (b \o q)[i] = IF i <= Len(b) THEN b[i] ELSE q[i - Len(b)]
      BY <3>1, ConcatProperties
    <3>3. /\ b \o q \in Seq(Messages)
          /\ Len(b \o q) = n + (Len(queue) - n)
          /\ \A i \in 1..(n + (Len(queue) - n)) :
               (b \o q)[i] = IF i <= n THEN b[i] ELSE q[i - n]
      BY <3>1, <3>2
    <3>. QED  BY <3>1, <3>3 DEF b, q
  <2>3. Len(Pending') = Len(queue)
    BY <1>1, <2>2
  <2>4. \A i \in 1..Len(queue) : Pending'[i] = queue[i]
    <3> TAKE i \in 1..Len(queue)
    <3>1. i \in 1..(n + (Len(queue) - n)) /\ i \in Int /\ i >= 1 /\ n \in Int
      BY <1>1
    <3>2. CASE i <= n
      BY <3>1, <3>2, <2>2, <1>9
    <3>3. CASE i > n
      <4>1. i - n \in 1..(Len(queue) - n) /\ n + (i - n) = i
        BY <3>1, <3>3, <1>1
      <4>2. Pending'[i] = queue'[i - n]
        BY <3>1, <3>3, <2>2
      <4>. QED  BY <4>1, <4>2, <1>5
    <3>. QED  BY <3>1, <3>2, <3>3
  <2>. QED  BY <1>1, <2>2, <2>3, <2>4, SeqEqual
<1>. QED  BY <1>4, <1>6, <1>8, <1>10

LEMMA TakeKeeps ==
  ASSUME Ind, TakeSome
  PROVE  Ind'
<1>1. UNCHANGED <<posts, found, refused, deleted>>
  BY DEF TakeSome
<1>2. All' = All
  BY <1>1, TakeStep DEF All
<1>. QED  BY <1>1, <1>2, TakeStep, MovesKeep

(* The other steps touch no message.                                       *)
LEMMA OthersKeep ==
  ASSUME Ind, Unregister \/ BatchDone \/ Select \/ SelectDies \/ UNCHANGED vars
  PROVE  Ind' /\ Pending' = Pending /\ UNCHANGED deleted
<1>1. UNCHANGED <<posts, found, refused, queue, messages, first, last, deleted,
                  kind, served>>
  BY DEF Unregister, BatchDone, Select, SelectDies, vars
<1>2. Pending' = Pending /\ All' = All
  BY <1>1 DEF Pending, All
<1>3. TypeOK'
  BY DEF Unregister, BatchDone, Select, SelectDies, vars, Ind, TypeOK
<1>4. BatchOK'
  BY DEF Unregister, BatchDone, Select, SelectDies, vars, Ind, BatchOK
<1>. QED  BY <1>1, <1>2, <1>3, <1>4, MovesKeep

-----------------------------------------------------------------------------
LEMMA NothingPending == Init => Pending = <<>>
<1> SUFFICES ASSUME Init PROVE Pending = <<>>
  OBVIOUS
<1>1. Batch = <<>>
  <2>1. 1 \in Int /\ 1 - 1 \in Int /\ 1 - 1 < 1
    OBVIOUS
  <2>2. Batch = SubSeq(messages, 1, 1 - 1)
    BY DEF Init, Batch
  <2>. QED  BY <2>1, <2>2, SubSeqEmpty
<1>2. <<>> \o <<>> = <<>>
  BY ConcatEmptySeq
<1>. QED  BY <1>1, <1>2 DEF Init, Pending, Batch

LEMMA IndInit == Init => Ind
<1> SUFFICES ASSUME Init PROVE Ind
  OBVIOUS
<1>1. TypeOK
  <2>1. 1 \in 1..(BatchSize + 1)
    BY BoundsAssumption
  <2>2. posts \in [Posters -> 0..MaxPosts]
    BY BoundsAssumption DEF Init
  <2>. QED  BY <2>1, <2>2 DEF Init, TypeOK
<1>2. BatchOK
  BY DEF Init, BatchOK
<1>3. <<>> \o <<>> = <<>>
  BY ConcatEmptySeq
<1>4. Pending = <<>> /\ All = <<>>
  BY <1>3, NothingPending DEF Init, All
<1>5. Elements(<<>>) = {}
  BY DEF Elements
<1>6. \A p \in Posters : posts[p] = 0
  BY DEF Init
<1>7. NothingLost
  <2>1. \A m \in Messages : ~(m[2] <= posts[m[1]])
    BY <1>6 DEF Messages
  <2>. QED  BY <1>4, <1>5, <2>1 DEF Init, NothingLost
<1>. QED  BY <1>1, <1>2, <1>4, <1>7 DEF Ind, FoundOK, Distinct, Init

LEMMA IndNext == Ind /\ [Next]_vars => Ind'
BY LookupKeeps, PostKeeps, HandleKeeps, TakeKeeps, OthersKeep DEF Next, Loop

THEOREM IndInvariant == Spec => []Ind
BY IndInit, IndNext, PTL DEF Spec

(* Each queue, array and iterator keeps its type: the loop reads the array *)
(* within its bounds (ClientRunnable.cpp:75).                              *)
THEOREM TypeCorrect == Spec => []TypeOK
<1>1. Ind => TypeOK
  BY DEF Ind
<1>. QED  BY <1>1, IndInvariant, PTL

(* No message is deleted twice, nor handled after it was deleted, although *)
(* the array of OnRun keeps the pointers of earlier batches.               *)
THEOREM DeletedOnce == Spec => []NoDoubleDelete
<1>1. Ind => NoDoubleDelete
  BY DEF Ind, Distinct, All, NoDoubleDelete
<1>. QED  BY <1>1, IndInvariant, PTL

(* Every message that was made is refused, about to be posted, pending or  *)
(* deleted.                                                                *)
THEOREM NoMessageLost == Spec => []NothingLost
<1>1. Ind => NothingLost
  BY DEF Ind
<1>. QED  BY <1>1, IndInvariant, PTL

-----------------------------------------------------------------------------
(* A Post is an acceptance, a HandleOne a consumption, the rest a stutter  *)
(* or the end.                                                             *)
LEMMA MailboxStep == Ind /\ [Next]_vars => [Mail!Next]_(Mail!vars)
<1> SUFFICES ASSUME Ind, [Next]_vars PROVE [Mail!Next]_(Mail!vars)
  OBVIOUS
<1>1. ASSUME NEW p \in Posters, NEW k \in Kinds, Lookup(p, k)
      PROVE  UNCHANGED Mail!vars
  BY <1>1 DEF Lookup, Mail!vars, Pending
<1>2. ASSUME NEW p \in Posters, Post(p)
      PROVE  \E m \in Messages : Mail!Accept(m)
  <2> DEFINE m == <<p, posts[p]>>
  <2>1. m \in Messages \ Elements(All) /\ Pending' = Append(Pending, m)
    BY <1>2, PostStep
  <2>2. Elements(All) = Mail!Elements(Pending) \cup Mail!Elements(deleted)
    BY AllSeq DEF Ind, Whole, Elements, Mail!Elements
  <2>3. Mail!Accept(m)
    BY <1>2, <2>1, <2>2 DEF Post, Mail!Accept
  <2>. QED  BY <2>1, <2>3
<1>3. ASSUME HandleOne
      PROVE  Mail!Consume
  BY <1>3, HandleStep DEF HandleOne, Mail!Consume
<1>4. ASSUME TakeSome
      PROVE  UNCHANGED Mail!vars
  BY <1>4, TakeStep DEF TakeSome, Mail!vars
<1>5. ASSUME Unregister \/ BatchDone \/ Select \/ UNCHANGED vars
      PROVE  UNCHANGED Mail!vars
  BY <1>5, OthersKeep DEF Unregister, BatchDone, Select, vars, Mail!vars
<1>6. ASSUME SelectDies
      PROVE  Mail!End
  BY <1>6, OthersKeep DEF SelectDies, Mail!End
<1>. QED  BY <1>1, <1>2, <1>3, <1>4, <1>5, <1>6 DEF Next, Loop, Mail!Next

(* The deque, the array and the loop are one mailbox, in which messages    *)
(* are consumed in the order in which they were posted: the safety part of *)
(* ImplementsMailbox.  (That each is consumed in the end is left to TLC.)  *)
THEOREM RefinesMailbox == Spec => Mail!Safety
<1>1. Init => Mail!Init
  BY NothingPending DEF Init, Mail!Init
<1>. QED  BY <1>1, MailboxStep, IndInvariant, PTL DEF Spec, Mail!Safety
=============================================================================
