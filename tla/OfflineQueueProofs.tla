--------------------------- MODULE OfflineQueueProofs ---------------------------
(***************************************************************************)
(* The theorems of OfflineQueue, for any number of replays, items, attempts *)
(* and tabs closed: its types, the order of the items, that none is lost or *)
(* revived, and the number of times one is posted.                          *)
(*                                                                         *)
(* A replay works on a copy, so the strengthening compares the copies with  *)
(* the stored queue.  As long as nobody else touched an item (it is not     *)
(* raced), a running replay holds it exactly when it is stored, and no      *)
(* other replay does (CopiesAgree).  The posts of the watched item are then *)
(* paid for by the attempts its copy has counted, by one post whose answer  *)
(* is not written yet (Spent), and by the tabs closed (PostsPaid).          *)
(***************************************************************************)
EXTENDS OfflineQueue, SequenceTheorems, WellFoundedInduction, TLAPS

\* The items r has still to look at or has kept, in the order it would store them.
Copy(r) == replay[r].kept \o replay[r].rest

\* No item is known that was not created, none is twice in a copy, and a copy fits.
CopiesSane ==
    /\ IdsOf(queue) \subseteq 1..created
    /\ \A r \in Active :
          /\ IdsOf(Copy(r)) \subseteq 1..created
          /\ replay[r].gone \subseteq 1..created
          /\ replay[r].gone \cap IdsOf(Copy(r)) = {}
          /\ Len(replay[r].kept) + Len(replay[r].rest) <= MaxQueue
          /\ replay[r].at = "posted" => replay[r].rest # <<>>

CopiesAgree ==
    /\ \A r \in Active : Held(r) \ raced = IdsOf(queue) \ raced
    /\ \A r, s \in Active : r # s => Held(r) \cap Held(s) \subseteq raced

\* Replay r has posted id, and has not written it down.
SpentBy(r, id) ==
    \/ replay[r].at = "posted" /\ replay[r].rest[1].id = id
    \/ id \in IdsOf(replay[r].kept) \cup replay[r].gone

Spent(id) == \E r \in Active : SpentBy(r, id)

\* While nobody else has touched it.
PostsPaid == Watched \notin raced =>
    /\ posts <= MaxAttempts + closes
    /\ Watched > created => posts = 0
    /\ \A x \in Range(queue) : x.id = Watched =>
          posts <= x.attempts + closes + (IF Spent(Watched) THEN 1 ELSE 0)
    /\ \A r \in Active :
          /\ \A x \in Range(replay[r].rest), y \in Range(queue) :
                x.id = Watched /\ y.id = Watched => x.attempts = y.attempts
          /\ \A x \in Range(replay[r].kept) : x.id = Watched => posts <= x.attempts + closes

OfflineInv == TypeOK /\ OrderKept /\ CopiesSane /\ CopiesAgree /\ Accounted /\ PostsPaid

-----------------------------------------------------------------------------
(* Sequences of items. *)

\* A set of naturals that is not empty has a smallest element.
LEMMA SmallestOfNat ==
    ASSUME NEW S, S \subseteq Nat, S # {}
    PROVE  \E i \in S : \A j \in S : i <= j
<1> DEFINE R == OpToRel(<, Nat)
<1>1. \E i \in S : \A j \in S : ~ (<<j, i>> \in R)
  BY NatLessThanWellFounded, WFMin, Zenon
<1>2. \A i, j \in Nat : <<j, i>> \in R <=> j < i
  BY DEF OpToRel
<1>3. PICK i \in S : \A j \in S : ~ (<<j, i>> \in R)
  BY <1>1
<1>4. \A j \in S : ~ (j < i)
  BY <1>2, <1>3, Zenon
<1> QED
  BY <1>4

\* The ids of a sequence are those of its range.
LEMMA IdsOfRange ==
    ASSUME NEW s \in Seq(Item)
    PROVE  /\ IdsOf(s) = {x.id : x \in Range(s)}
           /\ Range(s) \subseteq Item
           /\ IdsOf(s) \subseteq Ids
           /\ \A i \in 1..Len(s) : s[i] \in Range(s) /\ s[i].id \in IdsOf(s)
<1>1. /\ Len(s) \in Nat /\ DOMAIN s = 1..Len(s)
      /\ Range(s) = {s[i] : i \in 1..Len(s)}
      /\ \A i \in 1..Len(s) : s[i] \in Item
  BY LenProperties, RangeEquality, ElementOfSeq
<1> QED BY <1>1 DEF IdsOf, Item

\* In an increasing sequence an id has one place.
LEMMA IncreasingOnce ==
    ASSUME NEW s \in Seq(Item), Increasing(s), NEW x \in Range(s), NEW y \in Range(s), x.id = y.id
    PROVE  x = y
<1>1. Len(s) \in Nat /\ DOMAIN s = 1..Len(s)
  BY LenProperties
<1>2. PICK i \in 1..Len(s), j \in 1..Len(s) : x = s[i] /\ y = s[j]
  BY <1>1, RangeEquality
<1>3. s[i].id \in Int /\ s[j].id \in Int
  <2>1. s[i] \in Item /\ s[j] \in Item
    BY ElementOfSeq
  <2> QED BY <2>1, BoundsAssumption DEF Item, Ids
<1> QED BY <1>1, <1>2, <1>3 DEF Increasing

LEMMA EmptyItems ==
    /\ <<>> \in Seq(Item) /\ IdsOf(<<>>) = {} /\ Range(<<>>) = {} /\ Increasing(<<>>)
BY DEF IdsOf, Range, Increasing

\* A concatenation has the items of both, and increases when both do and the first is below.
LEMMA ConcatItems ==
    ASSUME NEW s \in Seq(Item), NEW t \in Seq(Item)
    PROVE  /\ s \o t \in Seq(Item)
           /\ IdsOf(s \o t) = IdsOf(s) \cup IdsOf(t)
           /\ Increasing(s \o t) <=>
                 Increasing(s) /\ Increasing(t) /\ \A a \in IdsOf(s), b \in IdsOf(t) : a < b
<1> DEFINE u == s \o t
           m == Len(s)
           n == Len(t)
<1>1. /\ m \in Nat /\ n \in Nat /\ u \in Seq(Item) /\ Len(u) = m + n
      /\ DOMAIN s = 1..m /\ DOMAIN t = 1..n /\ DOMAIN u = 1..m + n
      /\ \A i \in 1..m + n : u[i] = IF i <= m THEN s[i] ELSE t[i - m]
  BY ConcatProperties, LenProperties
<1>2. Range(u) = Range(s) \cup Range(t)
  BY RangeConcatenation
<1>3. IdsOf(u) = IdsOf(s) \cup IdsOf(t)
  <2> HIDE DEF u
  <2>1. /\ IdsOf(u) = {x.id : x \in Range(u)}
        /\ IdsOf(s) = {x.id : x \in Range(s)}
        /\ IdsOf(t) = {x.id : x \in Range(t)}
    BY <1>1, IdsOfRange
  <2> QED BY <1>2, <2>1
<1>4. /\ \A i \in 1..m : u[i] = s[i]
      /\ \A j \in 1..n : m + j \in 1..m + n /\ u[m + j] = t[j]
  BY <1>1
<1>5. ASSUME Increasing(u)
      PROVE  Increasing(s) /\ Increasing(t) /\ \A a \in IdsOf(s), b \in IdsOf(t) : a < b
  <2> HIDE DEF u, m, n
  <2>1. Increasing(s)
    BY <1>1, <1>4, <1>5 DEF Increasing
  <2>2. ASSUME NEW i \in 1..n, NEW j \in 1..n, i < j
        PROVE  t[i].id < t[j].id
    <3>1. m + i < m + j
      BY <1>1, <2>2
    <3>2. u[m + i].id < u[m + j].id
      BY <1>1, <1>4, <1>5, <3>1 DEF Increasing
    <3> QED BY <1>4, <3>2
  <2>3. ASSUME NEW i \in 1..m, NEW j \in 1..n
        PROVE  s[i].id < t[j].id
    <3>1. i \in 1..m + n /\ m + j \in 1..m + n /\ i < m + j
      BY <1>1
    <3>2. u[i].id < u[m + j].id
      BY <1>1, <1>5, <3>1 DEF Increasing
    <3> QED BY <1>4, <3>2
  <2>4. Increasing(t)
    BY <1>1, <2>2 DEF Increasing
  <2>5. \A a \in IdsOf(s), b \in IdsOf(t) : a < b
    BY <1>1, <2>3 DEF IdsOf
  <2> QED BY <2>1, <2>4, <2>5
<1>6. ASSUME Increasing(s), Increasing(t), \A a \in IdsOf(s), b \in IdsOf(t) : a < b
      PROVE  Increasing(u)
  <2> HIDE DEF u, m, n
  <2> SUFFICES ASSUME NEW i \in 1..m + n, NEW j \in 1..m + n, i < j
               PROVE  u[i].id < u[j].id
    BY <1>1 DEF Increasing
  <2>1. CASE j <= m
    <3>1. i \in 1..m /\ j \in 1..m
      BY <1>1, <2>1
    <3> QED BY <1>1, <1>4, <1>6, <3>1 DEF Increasing
  <2>2. CASE i > m
    <3>1. i - m \in 1..n /\ j - m \in 1..n /\ i - m < j - m /\ j > m
      BY <1>1, <2>2
    <3>2. t[i - m].id < t[j - m].id
      BY <1>1, <1>6, <3>1 DEF Increasing
    <3> QED BY <1>1, <2>2, <3>1, <3>2
  <2>3. CASE i <= m /\ j > m
    <3>1. i \in 1..m /\ j - m \in 1..n
      BY <1>1, <2>3
    <3>2. s[i].id \in IdsOf(s) /\ t[j - m].id \in IdsOf(t)
      BY <1>1, <3>1 DEF IdsOf
    <3>3. s[i].id < t[j - m].id
      BY <1>6, <3>2
    <3> QED BY <1>1, <2>3, <3>3
  <2> QED BY <1>1, <2>1, <2>2, <2>3
<1> QED BY <1>1, <1>3, <1>5, <1>6

LEMMA OneItem ==
    ASSUME NEW x \in Item
    PROVE  <<x>> \in Seq(Item) /\ IdsOf(<<x>>) = {x.id} /\ Range(<<x>>) = {x} /\ Increasing(<<x>>)
<1>1. /\ <<x>> \in Seq(Item) /\ DOMAIN <<x>> = 1..1 /\ <<x>>[1] = x
  OBVIOUS
<1> QED BY <1>1 DEF IdsOf, Range, Increasing

LEMMA AppendItems ==
    ASSUME NEW s \in Seq(Item), NEW x \in Item
    PROVE  /\ Append(s, x) \in Seq(Item)
           /\ IdsOf(Append(s, x)) = IdsOf(s) \cup {x.id}
           /\ Range(Append(s, x)) = Range(s) \cup {x}
           /\ Increasing(Append(s, x)) <=> Increasing(s) /\ \A a \in IdsOf(s) : a < x.id
<1>1. Append(s, x) = s \o <<x>>
  BY AppendIsConcat
<1> DEFINE t == <<x>>
<1>2. t \in Seq(Item) /\ IdsOf(t) = {x.id} /\ Range(t) = {x} /\ Increasing(t)
  BY OneItem
<1> HIDE DEF t
<1>3. Range(s \o t) = Range(s) \cup {x}
  BY <1>2, RangeConcatenation
<1>4. /\ s \o t \in Seq(Item) /\ IdsOf(s \o t) = IdsOf(s) \cup {x.id}
      /\ Increasing(s \o t) <=> Increasing(s) /\ \A a \in IdsOf(s) : a < x.id
  BY <1>2, ConcatItems
<1> QED BY <1>1, <1>3, <1>4 DEF t

\* What is left of a sequence when its first item is taken.
LEMMA TailItems ==
    ASSUME NEW s \in Seq(Item), s # <<>>
    PROVE  /\ Head(s) \in Item /\ Tail(s) \in Seq(Item) /\ s = <<Head(s)>> \o Tail(s)
           /\ IdsOf(s) = {Head(s).id} \cup IdsOf(Tail(s))
           /\ Range(s) = {Head(s)} \cup Range(Tail(s))
           /\ Head(s) = s[1]
<1>1. /\ Head(s) \in Item /\ Tail(s) \in Seq(Item) /\ Head(s) = s[1]
      /\ Len(Tail(s)) = Len(s) - 1 /\ Len(s) \in Nat \ {0}
      /\ \A i \in 1..Len(Tail(s)) : Tail(s)[i] = s[i + 1]
  BY HeadTailProperties, EmptySeq
<1>2. s = <<Head(s)>> \o Tail(s)
  <2> DEFINE u == <<Head(s)>> \o Tail(s)
  <2>1. <<Head(s)>> \in Seq(Item) /\ Len(<<Head(s)>>) = 1 /\ <<Head(s)>>[1] = Head(s)
    BY <1>1
  <2>2. /\ u \in Seq(Item) /\ Len(u) = 1 + Len(Tail(s))
        /\ \A i \in 1..1 + Len(Tail(s)) : u[i] = IF i <= 1 THEN <<Head(s)>>[i] ELSE Tail(s)[i - 1]
    BY <1>1, <2>1, ConcatProperties
  <2>3. Len(u) = Len(s) /\ \A i \in 1..Len(s) : s[i] = u[i]
    BY <1>1, <2>1, <2>2
  <2> HIDE DEF u
  <2>4. s = u
    BY <2>2, <2>3, SeqEqual
  <2> QED BY <2>4 DEF u
<1> DEFINE h == <<Head(s)>>
<1>3. h \in Seq(Item) /\ IdsOf(h) = {Head(s).id} /\ Range(h) = {Head(s)}
  BY <1>1, OneItem
<1> HIDE DEF h
<1>4. Range(h \o Tail(s)) = Range(h) \cup Range(Tail(s))
  <2>1. h \in Seq(Item) /\ Tail(s) \in Seq(Item)
    BY <1>1, <1>3
  <2> QED BY <2>1, RangeConcatenation
<1>5. IdsOf(h \o Tail(s)) = IdsOf(h) \cup IdsOf(Tail(s))
  BY <1>1, <1>3, ConcatItems
<1> QED BY <1>1, <1>2, <1>3, <1>4, <1>5 DEF h

\* The newest MAX_QUEUE items of a sequence.
LEMMA NewestItems ==
    ASSUME NEW s \in Seq(Item)
    PROVE  /\ Newest(s) \in Seq(Item) /\ Len(Newest(s)) <= MaxQueue
           /\ Range(Newest(s)) \subseteq Range(s)
           /\ IdsOf(Newest(s)) \subseteq IdsOf(s)
           /\ Increasing(s) => Increasing(Newest(s))
<1>0. MaxQueue \in Nat \ {0}
  BY BoundsAssumption
<1>1. /\ Len(s) \in Nat /\ DOMAIN s = 1..Len(s) /\ Range(s) = {s[i] : i \in 1..Len(s)}
      /\ \A i \in 1..Len(s) : s[i] \in Item
  BY LenProperties, RangeEquality, ElementOfSeq
<1>2. CASE Len(s) <= MaxQueue
  <2>1. Newest(s) = s
    BY <1>0, <1>1, <1>2 DEF Newest
  <2> QED BY <1>2, <2>1
<1>3. CASE Len(s) > MaxQueue
  <2> DEFINE m == Len(s) - MaxQueue + 1
             t == SubSeq(s, m, Len(s))
  <2>1. m \in Int /\ m \in 1..Len(s) /\ Len(s) - m + 1 = MaxQueue
    BY <1>0, <1>1, <1>3
  <2>2. Newest(s) = t
    BY <1>3 DEF Newest
  <2>3. \A i \in m..Len(s) : s[i] \in Item
    BY <1>1, <2>1
  <2> HIDE DEF m
  <2>4. /\ t \in Seq(Item) /\ Len(t) = MaxQueue
        /\ \A i \in 1..MaxQueue : t[i] = s[m + i - 1]
    BY <1>0, <1>1, <2>1, <2>3, SubSeqProperties
  <2> HIDE DEF t
  <2>5. DOMAIN t = 1..MaxQueue /\ Range(t) = {t[i] : i \in 1..MaxQueue}
    BY <2>4, LenProperties, RangeEquality
  <2>6. \A i \in 1..MaxQueue : m + i - 1 \in 1..Len(s)
    BY <1>0, <1>1, <2>1
  <2>7. Range(t) \subseteq Range(s)
    BY <1>1, <2>4, <2>5, <2>6
  <2>8. IdsOf(t) \subseteq IdsOf(s)
    BY <2>4, <2>7, IdsOfRange
  <2>9. ASSUME Increasing(s), NEW i \in 1..MaxQueue, NEW j \in 1..MaxQueue, i < j
        PROVE  t[i].id < t[j].id
    <3>1. m + i - 1 < m + j - 1
      BY <1>0, <2>1, <2>9
    <3>2. s[m + i - 1].id < s[m + j - 1].id
      BY <1>1, <2>6, <2>9, <3>1 DEF Increasing
    <3> QED BY <2>4, <3>2
  <2>10. Increasing(s) => Increasing(t)
    BY <2>5, <2>9 DEF Increasing
  <2> QED BY <2>2, <2>4, <2>7, <2>8, <2>10
<1> QED BY <1>0, <1>1, <1>2, <1>3

\* Induction up to n, for a set.
LEMMA UpTo ==
    ASSUME NEW n \in Nat, NEW G, 0 \in G, \A i \in Nat : i < n /\ i \in G => i + 1 \in G
    PROVE  \A i \in 0..n : i \in G
<1> DEFINE S == {i \in 0..n : i \notin G}
<1> SUFFICES ASSUME S # {} PROVE FALSE
  OBVIOUS
<1>0. S \subseteq Nat
  OBVIOUS
<1> HIDE DEF S
<1>1. PICK i \in S : \A j \in S : i <= j
  BY <1>0, SmallestOfNat
<1> USE DEF S
<1>2. i \in Nat /\ i # 0 /\ i <= n
  BY <1>1
<1>3. i - 1 \in Nat /\ i - 1 < n /\ i - 1 \notin S
  BY <1>1, <1>2
<1>4. i - 1 \in G
  BY <1>2, <1>3
<1>5. (i - 1) + 1 \in G
  BY <1>3, <1>4
<1> QED BY <1>1, <1>2, <1>5

\* The items that are not id's, in their order.
LEMMA WithoutItems ==
    ASSUME NEW s \in Seq(Item), NEW id
    PROVE  /\ Without(s, id) \in Seq(Item) /\ Len(Without(s, id)) <= Len(s)
           /\ Range(Without(s, id)) = {x \in Range(s) : x.id # id}
           /\ IdsOf(Without(s, id)) = IdsOf(s) \ {id}
           /\ Increasing(s) => Increasing(Without(s, id))
<1> DEFINE m == Len(s)
           Next1(t, i) == IF s[i].id = id THEN t ELSE Append(t, s[i])
           Filter(f) == f = [n \in 0..m |-> IF n = 0 THEN <<>> ELSE Next1(f[n - 1], n)]
           kept == CHOOSE f : Filter(f)
<1>1. /\ m \in Nat /\ DOMAIN s = 1..m /\ Range(s) = {s[i] : i \in 1..m}
      /\ \A i \in 1..m : s[i] \in Item
  BY LenProperties, RangeEquality, ElementOfSeq
<1>2. Without(s, id) = kept[m]
  BY DEF Without
<1>3. \E f : Filter(f)
  <2> DEFINE Upto(n, f) == \A i \in 0..n : f[i] = IF i = 0 THEN <<>> ELSE Next1(f[i - 1], i)
             G == {n \in 0..m : \E f \in [0..n -> Seq(Item)] : Upto(n, f)}
  <2> HIDE DEF m
  <2>1. 0 \in G
    <3> DEFINE f == [i \in 0..0 |-> <<>>]
    <3>1. f \in [0..0 -> Seq(Item)] /\ \A i \in 0..0 : i = 0 /\ f[i] = <<>>
      BY EmptyItems
    <3>2. Upto(0, f)
      BY <3>1
    <3> HIDE DEF f, Upto
    <3>3. \E e \in [0..0 -> Seq(Item)] : Upto(0, e)
      BY <3>1, <3>2
    <3> QED BY <1>1, <3>3
  <2>2. ASSUME NEW n \in Nat, n < m, n \in G
        PROVE  n + 1 \in G
    <3>1. PICK f \in [0..n -> Seq(Item)] : Upto(n, f)
      BY <2>2
    <3> DEFINE g == [i \in 0..n + 1 |-> IF i = n + 1 THEN Next1(f[n], n + 1) ELSE f[i]]
    <3>2. s[n + 1] \in Item /\ f[n] \in Seq(Item)
      BY <1>1, <2>2
    <3>3. Next1(f[n], n + 1) \in Seq(Item)
      BY <3>2, AppendProperties
    <3> HIDE DEF Next1
    <3>4. g \in [0..n + 1 -> Seq(Item)]
      BY <2>2, <3>3
    <3>5. Upto(n + 1, g)
      <4> SUFFICES ASSUME NEW i \in 0..n + 1
                   PROVE  g[i] = IF i = 0 THEN <<>> ELSE Next1(g[i - 1], i)
        OBVIOUS
      <4>1. CASE i = n + 1
        <5>1. g[i] = Next1(f[n], n + 1) /\ g[n] = f[n] /\ i # 0 /\ i - 1 = n
          BY <4>1, <2>2
        <5> QED BY <5>1, <4>1
      <4>2. CASE i # n + 1
        <5>1. i \in 0..n /\ g[i] = f[i] /\ (i # 0 => g[i - 1] = f[i - 1])
          BY <4>2, <2>2
        <5> QED BY <5>1, <3>1
      <4> QED BY <4>1, <4>2
    <3>6. n + 1 \in 0..m
      BY <1>1, <2>2
    <3> QED BY <3>4, <3>5, <3>6
  <2> HIDE DEF G
  <2>3. m \in G
    BY <1>1, <2>1, <2>2, UpTo
  <2>4. PICK f \in [0..m -> Seq(Item)] : Upto(m, f)
    BY <2>3 DEF G
  <2> HIDE DEF Next1
  <2>5. f = [i \in 0..m |-> IF i = 0 THEN <<>> ELSE Next1(f[i - 1], i)]
    BY <2>4
  <2> QED BY <2>5 DEF m
<1>4. Filter(kept)
  <2> HIDE DEF Filter
  <2> QED BY <1>3
<1> HIDE DEF kept, m
<1>5. \A n \in 0..m : kept[n] = IF n = 0 THEN <<>> ELSE Next1(kept[n - 1], n)
  BY <1>4, Zenon
<1> DEFINE Right(n) ==
      /\ kept[n] \in Seq(Item) /\ Len(kept[n]) <= n
      /\ Range(kept[n]) = {x \in {s[i] : i \in 1..n} : x.id # id}
      /\ Increasing(s) => Increasing(kept[n])
    G == {n \in 0..m : Right(n)}
<1>6. 0 \in G
  <2>1. kept[0] = <<>>
    BY <1>1, <1>5
  <2>2. Right(0)
    BY <2>1, EmptyItems
  <2> QED BY <1>1, <2>2
<1>7. ASSUME NEW n \in Nat, n < m, n \in G
      PROVE  n + 1 \in G
  <2> DEFINE t == kept[n]
  <2>1. n + 1 \in 1..m /\ n + 1 \in 0..m
    BY <1>1, <1>7
  <2>2. kept[n + 1] = Next1(t, n + 1)
    BY <1>5, <1>7, <2>1
  <2>3. Right(n)
    BY <1>7
  <2>4. s[n + 1] \in Item /\ {s[i] : i \in 1..n + 1} = {s[i] : i \in 1..n} \cup {s[n + 1]}
    <3>1. 1..n + 1 = 1..n \cup {n + 1}
      BY <1>7
    <3> QED BY <1>1, <2>1, <3>1
  <2>5. CASE s[n + 1].id = id
    <3>1. kept[n + 1] = t
      BY <2>2, <2>5
    <3>2. Right(n + 1)
      BY <1>7, <2>3, <2>4, <2>5, <3>1
    <3> QED BY <2>1, <3>2
  <2>6. CASE s[n + 1].id # id
    <3>1. kept[n + 1] = Append(t, s[n + 1])
      BY <2>2, <2>6
    <3>2. t \in Seq(Item) /\ Len(t) \in Nat /\ Len(t) <= n
      BY <2>3, LenProperties
    <3>3. /\ kept[n + 1] \in Seq(Item) /\ Len(kept[n + 1]) = Len(t) + 1
          /\ Range(kept[n + 1]) = Range(t) \cup {s[n + 1]}
          /\ Increasing(kept[n + 1]) <=> Increasing(t) /\ \A a \in IdsOf(t) : a < s[n + 1].id
      BY <2>4, <3>1, <3>2, AppendItems, AppendProperties
    <3>4. Range(kept[n + 1]) = {x \in {s[i] : i \in 1..n + 1} : x.id # id}
      BY <2>3, <2>4, <2>6, <3>3
    <3>5. ASSUME Increasing(s), NEW a \in IdsOf(t)
          PROVE  a < s[n + 1].id
      <4>1. PICK x \in Range(t) : a = x.id
        BY <3>2, IdsOfRange
      <4>2. PICK i \in 1..n : x = s[i]
        BY <2>3
      <4> QED BY <1>1, <1>7, <2>1, <3>5, <4>1, <4>2 DEF Increasing
    <3>6. Increasing(s) => Increasing(kept[n + 1])
      BY <2>3, <3>3, <3>5
    <3>7. Right(n + 1)
      BY <1>7, <3>2, <3>3, <3>4, <3>6
    <3> QED BY <2>1, <3>7
  <2> QED BY <2>5, <2>6
<1> HIDE DEF G
<1>8. m \in G
  BY <1>1, <1>6, <1>7, UpTo
<1>9. Right(m)
  BY <1>8 DEF G
<1>10. Range(kept[m]) = {x \in Range(s) : x.id # id}
  BY <1>1, <1>9
<1>11. IdsOf(kept[m]) = IdsOf(s) \ {id}
  <2>1. /\ IdsOf(kept[m]) = {x.id : x \in Range(kept[m])}
        /\ IdsOf(s) = {x.id : x \in Range(s)}
    BY <1>9, IdsOfRange
  <2> QED BY <1>10, <2>1
<1> QED BY <1>2, <1>9, <1>10, <1>11 DEF m

-----------------------------------------------------------------------------
(* States. *)

\* What a running replay holds.
LEMMA ActiveFacts ==
    ASSUME TypeOK, NEW r \in Active
    PROVE  /\ r \in Replays /\ replay[r] # Idle
           /\ replay[r] = [at |-> replay[r].at, rest |-> replay[r].rest,
                           kept |-> replay[r].kept, gone |-> replay[r].gone]
           /\ replay[r].at \in {"between", "posted"}
           /\ replay[r].rest \in Seq(Item) /\ replay[r].kept \in Seq(Item)
           /\ replay[r].gone \subseteq Ids
           /\ Copy(r) \in Seq(Item)
           /\ IdsOf(Copy(r)) = IdsOf(replay[r].kept) \cup IdsOf(replay[r].rest)
           /\ Held(r) = IdsOf(Copy(r)) \cup replay[r].gone
<1>1. r \in Replays /\ replay[r] # Idle /\ replay[r] \in Running
  BY DEF Active, TypeOK
<1>2. /\ replay[r].rest \in Seq(Item) /\ replay[r].kept \in Seq(Item)
      /\ replay[r].gone \subseteq Ids /\ replay[r].at \in {"between", "posted"}
      /\ replay[r] = [at |-> replay[r].at, rest |-> replay[r].rest,
                      kept |-> replay[r].kept, gone |-> replay[r].gone]
  BY <1>1 DEF Running
<1>3. /\ Copy(r) \in Seq(Item)
      /\ IdsOf(Copy(r)) = IdsOf(replay[r].kept) \cup IdsOf(replay[r].rest)
  BY <1>2, ConcatItems DEF Copy
<1>4. Held(r) = IdsOf(Copy(r)) \cup replay[r].gone
  BY <1>1, <1>3 DEF Held
<1> QED BY <1>1, <1>2, <1>3, <1>4

\* A replay that is between two items, or has posted one, is running.
LEMMA Runs ==
    ASSUME TypeOK, NEW r \in Replays, replay[r].at \in {"between", "posted"}
    PROVE  r \in Active
BY DEF Active, Idle

\* A replay that a step leaves alone.
LEMMA LeftAlone ==
    ASSUME NEW r \in Replays, replay'[r] = replay[r]
    PROVE  /\ Copy(r)' = Copy(r) /\ Held(r)' = Held(r)
           /\ (r \in Active)' <=> r \in Active
           /\ \A id : SpentBy(r, id)' <=> SpentBy(r, id)
BY DEF Copy, Held, Active, SpentBy

\* What a replay has posted it holds.
LEMMA SpentHeld ==
    ASSUME TypeOK, CopiesSane, NEW r \in Active, NEW id, SpentBy(r, id)
    PROVE  id \in Held(r)
<1>1. CASE replay[r].at = "posted" /\ replay[r].rest[1].id = id
  <2>1. replay[r].rest # <<>> /\ replay[r].rest \in Seq(Item)
    BY <1>1, ActiveFacts DEF CopiesSane
  <2>2. id \in IdsOf(replay[r].rest)
    BY <1>1, <2>1, TailItems
  <2> QED BY <2>2, ActiveFacts
<1>2. CASE id \in IdsOf(replay[r].kept) \cup replay[r].gone
  BY <1>2, ActiveFacts
<1> QED BY <1>1, <1>2 DEF SpentBy

\* How the items of a copy compare.
LEMMA CopyOrder ==
    ASSUME TypeOK, NEW r \in Active, Increasing(Copy(r))
    PROVE  /\ Increasing(replay[r].kept) /\ Increasing(replay[r].rest)
           /\ \A a \in IdsOf(replay[r].kept), b \in IdsOf(replay[r].rest) : a < b
BY ActiveFacts, ConcatItems DEF Copy

-----------------------------------------------------------------------------
(* The page. *)

LEMMA EnqueueKeeps == ASSUME OfflineInv, Enqueue PROVE OfflineInv'
<1> DEFINE item == [id |-> created + 1, attempts |-> 0]
           pushed == Append(queue, item)
           cut == IdsOf(pushed) \ IdsOf(Newest(pushed))
<1>0. TypeOK /\ OrderKept /\ CopiesSane /\ CopiesAgree /\ Accounted /\ PostsPaid
  BY DEF OfflineInv
<1>1. /\ created' = created + 1 /\ created \in Nat /\ created < MaxItems /\ MaxItems \in Nat
      /\ queue' = Newest(pushed) /\ settled' = settled \cup cut
      /\ raced' = raced \cup (cut \cap HeldByAny) \cup (IF Active = {} THEN {} ELSE {created + 1})
      /\ UNCHANGED <<replay, marked, posts, closes>>
  BY <1>0, BoundsAssumption DEF Enqueue, TypeOK
<1>2. item \in Item /\ item.id = created + 1 /\ item.attempts = 0
  BY <1>1, BoundsAssumption DEF Item, Ids
<1>3. queue \in Seq(Item) /\ Increasing(queue) /\ IdsOf(queue) \subseteq 1..created
  BY <1>0 DEF TypeOK, OrderKept, CopiesSane
<1> HIDE DEF item
<1>4. /\ pushed \in Seq(Item) /\ IdsOf(pushed) = IdsOf(queue) \cup {created + 1}
      /\ Range(pushed) = Range(queue) \cup {item}
  BY <1>2, <1>3, AppendItems
<1>5. Increasing(pushed)
  <2>1. \A a \in IdsOf(queue) : a < item.id
    BY <1>1, <1>2, <1>3
  <2> QED BY <1>2, <1>3, <2>1, AppendItems
<1> HIDE DEF pushed
<1>6. /\ queue' \in Seq(Item) /\ Len(queue') <= MaxQueue /\ Increasing(queue')
      /\ Range(queue') \subseteq Range(queue) \cup {item}
      /\ IdsOf(queue') \subseteq IdsOf(queue) \cup {created + 1}
      /\ cut = (IdsOf(queue) \cup {created + 1}) \ IdsOf(queue')
  BY <1>1, <1>4, <1>5, NewestItems
<1> HIDE DEF cut
<1>7. /\ Active' = Active
      /\ \A r \in Active : Copy(r)' = Copy(r) /\ Held(r)' = Held(r) /\ Held(r) \subseteq HeldByAny
      /\ Spent(Watched)' <=> Spent(Watched)
  BY <1>1 DEF Active, Copy, Held, HeldByAny, Spent, SpentBy
<1>8. /\ cut \subseteq 1..created' /\ 1..created \subseteq 1..created' /\ created + 1 \in 1..created'
      /\ \A id \in 1..created' : id \in 1..created \/ id = created + 1
      /\ created + 1 \notin 1..created
  BY <1>1, <1>3, <1>6
<1>9. TypeOK'
  <2>1. queue' \in Seq(Item) /\ Len(queue') <= MaxQueue
    BY <1>6
  <2>2. settled' \subseteq 1..created' /\ raced' \subseteq 1..created'
    BY <1>0, <1>1, <1>8 DEF TypeOK
  <2>3. created' \in 0..MaxItems
    BY <1>1
  <2> QED BY <1>0, <1>1, <2>1, <2>2, <2>3 DEF TypeOK
<1>10. OrderKept'
  BY <1>0, <1>6, <1>7 DEF OrderKept, Copy
<1>11. CopiesSane'
  <2>1. IdsOf(queue)' \subseteq 1..created'
    BY <1>3, <1>6, <1>8
  <2> QED BY <1>0, <1>1, <1>7, <1>8, <2>1 DEF CopiesSane
<1>12. CopiesAgree'
  <2>1. ASSUME NEW r \in Active PROVE Held(r) \ raced' = IdsOf(queue') \ raced'
    <3>1. Held(r) \ raced = IdsOf(queue) \ raced /\ raced \subseteq raced' /\ created + 1 \in raced'
      BY <1>0, <1>1 DEF CopiesAgree
    <3>2. cut \cap Held(r) \subseteq raced'
      BY <1>1, <1>7
    <3> QED BY <1>6, <3>1, <3>2
  <2>2. raced \subseteq raced'
    BY <1>1
  <2>3. \A r \in Active : Held(r)' \ raced' = IdsOf(queue)' \ raced'
    BY <1>7, <2>1
  <2>4. \A r, s \in Active : r # s => Held(r)' \cap Held(s)' \subseteq raced'
    BY <1>0, <1>7, <2>2 DEF CopiesAgree
  <2> QED BY <1>7, <2>3, <2>4 DEF CopiesAgree
<1>13. Accounted'
  <2> SUFFICES ASSUME NEW id \in 1..created', id \notin raced'
               PROVE  (id \in IdsOf(queue')) # (id \in settled')
    BY DEF Accounted
  <2>1. CASE id = created + 1
    <3>1. id \notin settled
      BY <1>0, <1>8, <2>1 DEF TypeOK
    <3> QED BY <1>1, <1>6, <2>1, <3>1
  <2>2. CASE id \in 1..created
    <3>1. (id \in IdsOf(queue)) # (id \in settled) /\ id # created + 1
      BY <1>0, <1>1, <1>8, <2>2 DEF Accounted
    <3> QED BY <1>1, <1>6, <3>1
  <2> QED BY <1>8, <2>1, <2>2
<1>14. PostsPaid'
  <2> SUFFICES ASSUME Watched \notin raced' PROVE PostsPaid'
    BY DEF PostsPaid
  <2>0. Watched \notin raced /\ posts \in Nat /\ closes \in Nat /\ Watched \in Int
    BY <1>0, <1>1, BoundsAssumption DEF TypeOK
  <2>1. posts' <= MaxAttempts + closes' /\ (Watched > created' => posts' = 0)
    BY <1>0, <1>1, <2>0 DEF PostsPaid
  <2>2. ASSUME NEW x \in Range(queue'), x.id = Watched
        PROVE  posts' <= x.attempts + closes' + (IF Spent(Watched)' THEN 1 ELSE 0)
    <3>1. CASE x \in Range(queue)
      BY <1>0, <1>1, <1>7, <2>0, <2>2, <3>1 DEF PostsPaid
    <3>2. CASE x = item
      <4>1. posts = 0 /\ x.attempts = 0
        BY <1>0, <1>1, <1>2, <2>0, <2>2, <3>2 DEF PostsPaid
      <4> QED BY <1>1, <2>0, <4>1
    <3> QED BY <1>6, <3>1, <3>2
  <2>3. ASSUME NEW r \in Active, NEW x \in Range(replay[r].rest), NEW y \in Range(queue'),
               x.id = Watched, y.id = Watched
        PROVE  x.attempts = y.attempts
    <3>1. y # item
      BY <1>1, <1>2, <2>3
    <3> QED BY <1>0, <1>6, <2>0, <2>3, <3>1 DEF PostsPaid
  <2>4. \A r \in Active : \A x \in Range(replay[r].kept) :
            x.id = Watched => posts' <= x.attempts + closes'
    BY <1>0, <1>1, <2>0 DEF PostsPaid
  <2> QED BY <1>1, <1>7, <2>1, <2>2, <2>3, <2>4 DEF PostsPaid
<1> QED BY <1>9, <1>10, <1>11, <1>12, <1>13, <1>14 DEF OfflineInv

LEMMA DiscardKeeps == ASSUME OfflineInv, NEW id \in Ids, Discard(id) PROVE OfflineInv'
<1>0. TypeOK /\ OrderKept /\ CopiesSane /\ CopiesAgree /\ Accounted /\ PostsPaid
  BY DEF OfflineInv
<1>1. /\ id \in IdsOf(queue) /\ queue' = Without(queue, id) /\ settled' = settled \cup {id}
      /\ raced' = raced \cup ({id} \cap HeldByAny)
      /\ UNCHANGED <<replay, marked, created, posts, closes>>
  BY DEF Discard
<1>2. queue \in Seq(Item) /\ Increasing(queue) /\ Len(queue) <= MaxQueue /\ id \in 1..created
  BY <1>0, <1>1 DEF TypeOK, OrderKept, CopiesSane
<1>3. /\ queue' \in Seq(Item) /\ Len(queue') <= Len(queue) /\ Increasing(queue')
      /\ Range(queue') \subseteq Range(queue) /\ IdsOf(queue') = IdsOf(queue) \ {id}
  BY <1>1, <1>2, WithoutItems
<1>4. /\ Active' = Active
      /\ \A r \in Active : Copy(r)' = Copy(r) /\ Held(r)' = Held(r) /\ Held(r) \subseteq HeldByAny
      /\ Spent(Watched)' <=> Spent(Watched)
  BY <1>1 DEF Active, Copy, Held, HeldByAny, Spent, SpentBy
<1>5. TypeOK'
  <2>1. Len(queue') <= MaxQueue
    BY <1>2, <1>3, BoundsAssumption, LenProperties
  <2> QED BY <1>0, <1>1, <1>2, <1>3, <2>1 DEF TypeOK
<1>6. OrderKept'
  BY <1>0, <1>3, <1>4 DEF OrderKept, Copy
<1>7. CopiesSane'
  <2>1. IdsOf(queue)' \subseteq 1..created
    BY <1>0, <1>3 DEF CopiesSane
  <2> QED BY <1>0, <1>1, <1>4, <2>1 DEF CopiesSane
<1>8. CopiesAgree'
  <2>1. ASSUME NEW r \in Active PROVE Held(r) \ raced' = IdsOf(queue') \ raced'
    <3>1. Held(r) \ raced = IdsOf(queue) \ raced
      BY <1>0 DEF CopiesAgree
    <3>2. id \in Held(r) => id \in raced'
      BY <1>1, <1>4
    <3> QED BY <1>1, <1>3, <3>1, <3>2
  <2>2. raced \subseteq raced'
    BY <1>1
  <2>3. \A r \in Active : Held(r)' \ raced' = IdsOf(queue)' \ raced'
    BY <1>4, <2>1
  <2>4. \A r, s \in Active : r # s => Held(r)' \cap Held(s)' \subseteq raced'
    BY <1>0, <1>4, <2>2 DEF CopiesAgree
  <2> QED BY <1>4, <2>3, <2>4 DEF CopiesAgree
<1>9. Accounted'
  BY <1>0, <1>1, <1>3 DEF Accounted
<1>10. PostsPaid'
  <2>1. raced \subseteq raced'
    BY <1>1
  <2> QED BY <1>0, <1>1, <1>3, <1>4, <2>1 DEF PostsPaid
<1> QED BY <1>5, <1>6, <1>7, <1>8, <1>9, <1>10 DEF OfflineInv

-----------------------------------------------------------------------------
(* A replay. *)

LEMMA BeginKeeps == ASSUME OfflineInv, NEW r \in Replays, Begin(r) PROVE OfflineInv'
<1> DEFINE new == [at |-> "between", rest |-> queue, kept |-> <<>>, gone |-> {}]
<1>0. TypeOK /\ OrderKept /\ CopiesSane /\ CopiesAgree /\ Accounted /\ PostsPaid
  BY DEF OfflineInv
<1>1. /\ replay[r] = Idle /\ replay' = [replay EXCEPT ![r] = new]
      /\ raced' = raced \cup (IdsOf(queue) \cap HeldByOthers(r))
      /\ UNCHANGED <<queue, marked, created, settled, posts, closes>>
  BY DEF Begin
<1>2. /\ queue \in Seq(Item) /\ Increasing(queue) /\ IdsOf(queue) \subseteq 1..created
      /\ Len(queue) <= MaxQueue
  BY <1>0 DEF TypeOK, OrderKept, CopiesSane
<1>3. new \in Running /\ new # Idle
  BY <1>2, EmptyItems DEF Running, Idle
<1>4. replay'[r] = new /\ \A s \in Replays \ {r} : replay'[s] = replay[s]
  BY <1>0, <1>1 DEF TypeOK
<1>5. r \notin Active /\ Active' = Active \cup {r}
  BY <1>1, <1>3, <1>4 DEF Active
<1>6. /\ Copy(r)' = queue /\ Held(r)' = IdsOf(queue) /\ Len(replay'[r].kept) = 0
      /\ replay'[r].gone = {} /\ replay'[r].at = "between" /\ replay'[r].rest = queue
      /\ replay'[r].kept = <<>>
  <2>1. Copy(r)' = <<>> \o queue
    BY <1>4 DEF Copy
  <2>2. Held(r)' = IdsOf(queue) \cup IdsOf(<<>>) \cup {}
    BY <1>3, <1>4 DEF Held
  <2> QED BY <1>2, <1>4, <2>1, <2>2, ConcatEmptySeq, EmptyItems, EmptySeq
<1>7. \A s \in Active : /\ s # r /\ s \in Replays /\ replay'[s] = replay[s]
                        /\ Copy(s)' = Copy(s) /\ Held(s)' = Held(s)
                        /\ Held(s) \subseteq HeldByOthers(r)
                        /\ \A id : SpentBy(s, id)' <=> SpentBy(s, id)
  BY <1>4, <1>5, LeftAlone DEF Active, HeldByOthers
<1>8. raced \subseteq raced' /\ IdsOf(queue) \cap HeldByOthers(r) \subseteq raced'
  BY <1>1
<1> HIDE DEF new
<1>9. TypeOK'
  <2>1. replay' \in [Replays -> Running \cup {Idle}]
    BY <1>0, <1>1, <1>3 DEF TypeOK
  <2>2. raced' \subseteq 1..created
    BY <1>0, <1>1, <1>2 DEF TypeOK
  <2> QED BY <1>0, <1>1, <2>1, <2>2 DEF TypeOK
<1>10. OrderKept'
  <2>1. \A s \in Active' : Increasing(Copy(s)')
    BY <1>0, <1>2, <1>5, <1>6, <1>7 DEF OrderKept, Copy
  <2> QED BY <1>1, <1>2, <2>1 DEF OrderKept, Copy
<1>11. CopiesSane'
  <2>1. Len(queue) \in Nat
    BY <1>2, LenProperties
  <2> DEFINE Sane(s) == /\ IdsOf(Copy(s)') \subseteq 1..created
                        /\ replay'[s].gone \subseteq 1..created
                        /\ replay'[s].gone \cap IdsOf(Copy(s)') = {}
                        /\ Len(replay'[s].kept) + Len(replay'[s].rest) <= MaxQueue
                        /\ replay'[s].at = "posted" => replay'[s].rest # <<>>
  <2>2. Sane(r)
    <3>1. Len(replay'[r].kept) + Len(replay'[r].rest) <= MaxQueue
      BY <1>2, <1>6, <2>1, BoundsAssumption
    <3> QED BY <1>2, <1>6, <3>1
  <2>3. \A s \in Active : Sane(s)
    BY <1>0, <1>7 DEF CopiesSane
  <2> HIDE DEF Sane
  <2>4. \A s \in Active' : Sane(s)
    BY <1>5, <2>2, <2>3
  <2> QED BY <1>1, <1>2, <2>4 DEF CopiesSane, Sane
<1>12. CopiesAgree'
  <2>1. \A s \in Active' : Held(s)' \ raced' = IdsOf(queue) \ raced'
    BY <1>0, <1>5, <1>6, <1>7, <1>8 DEF CopiesAgree
  <2>2. ASSUME NEW s \in Active', NEW t \in Active', s # t
        PROVE  Held(s)' \cap Held(t)' \subseteq raced'
    BY <1>0, <1>5, <1>6, <1>7, <1>8, <2>2 DEF CopiesAgree
  <2> QED BY <1>1, <2>1, <2>2 DEF CopiesAgree
<1>13. Accounted'
  BY <1>0, <1>1, <1>8 DEF Accounted
<1>14. PostsPaid'
  <2> SUFFICES ASSUME Watched \notin raced' PROVE PostsPaid'
    BY DEF PostsPaid
  <2>0. Watched \notin raced /\ posts \in Nat /\ closes \in Nat
    BY <1>0, <1>8, BoundsAssumption DEF TypeOK
  <2>1. Spent(Watched) => Spent(Watched)'
    BY <1>5, <1>7 DEF Spent
  <2>2. \A x \in Range(queue) : x.id = Watched =>
            posts <= x.attempts + closes + (IF Spent(Watched)' THEN 1 ELSE 0)
    <3> SUFFICES ASSUME NEW x \in Range(queue), x.id = Watched
                 PROVE  posts <= x.attempts + closes + (IF Spent(Watched)' THEN 1 ELSE 0)
      OBVIOUS
    <3>1. posts <= x.attempts + closes + (IF Spent(Watched) THEN 1 ELSE 0)
      BY <1>0, <2>0 DEF PostsPaid
    <3>2. x.attempts \in Int
      <4>1. x \in Item
        BY <1>2, IdsOfRange
      <4> QED BY <4>1, BoundsAssumption DEF Item
    <3> QED BY <2>0, <2>1, <3>1, <3>2
  <2>3. \A x \in Range(queue), y \in Range(queue) :
            x.id = Watched /\ y.id = Watched => x.attempts = y.attempts
    BY <1>2, IncreasingOnce
  <2>4. Range(replay'[r].kept) = {}
    BY <1>6, EmptyItems
  <2> QED BY <1>0, <1>1, <1>5, <1>6, <1>7, <2>0, <2>2, <2>3, <2>4 DEF PostsPaid
<1> QED BY <1>9, <1>10, <1>11, <1>12, <1>13, <1>14 DEF OfflineInv

\* The next item of a replay between two items, if it is nobody else's, is not posted yet.
LEMMA NextUnspent ==
    ASSUME OfflineInv, NEW r \in Active, replay[r].at = "between", replay[r].rest # <<>>,
           Head(replay[r].rest).id = Watched, Watched \notin raced
    PROVE  /\ ~ Spent(Watched)
           /\ \A s \in Active : Watched \notin IdsOf(replay[s].kept)
           /\ Watched \in 1..created
           /\ \E y \in Range(queue) : y.id = Watched
<1>0. TypeOK /\ OrderKept /\ CopiesSane /\ CopiesAgree
  BY DEF OfflineInv
<1>1. Watched \in IdsOf(replay[r].rest) /\ Watched \in Held(r)
  <2>1. replay[r].rest \in Seq(Item)
    BY <1>0, ActiveFacts
  <2>2. Watched \in IdsOf(replay[r].rest)
    BY <2>1, TailItems
  <2> QED BY <1>0, <2>2, ActiveFacts
<1>2. Watched \notin IdsOf(replay[r].kept)
  <2>1. Increasing(Copy(r))
    BY <1>0 DEF OrderKept, Copy
  <2>2. \A a \in IdsOf(replay[r].kept), b \in IdsOf(replay[r].rest) : a < b
    BY <1>0, <2>1, CopyOrder
  <2> QED BY <1>1, <2>2, BoundsAssumption
<1>3. Watched \notin replay[r].gone
  BY <1>0, <1>1, ActiveFacts DEF CopiesSane
<1>4. \A s \in Active : s # r => Watched \notin Held(s)
  BY <1>0, <1>1 DEF CopiesAgree
<1>5. ~ SpentBy(r, Watched)
  BY <1>2, <1>3 DEF SpentBy
<1>6. ~ Spent(Watched)
  BY <1>0, <1>4, <1>5, SpentHeld DEF Spent
<1>7. \A s \in Active : Watched \notin IdsOf(replay[s].kept)
  BY <1>0, <1>2, <1>4, ActiveFacts
<1>8. Watched \in IdsOf(queue)
  BY <1>0, <1>1 DEF CopiesAgree
<1>9. queue \in Seq(Item) /\ Watched \in 1..created
  BY <1>0, <1>8 DEF TypeOK, CopiesSane
<1>10. \E y \in Range(queue) : y.id = Watched
  BY <1>8, <1>9, IdsOfRange
<1> QED BY <1>6, <1>7, <1>9, <1>10

LEMMA PostKeeps == ASSUME OfflineInv, NEW r \in Replays, Post(r) PROVE OfflineInv'
<1>0. TypeOK /\ OrderKept /\ CopiesSane /\ CopiesAgree /\ Accounted /\ PostsPaid
  BY DEF OfflineInv
<1>1. /\ replay[r].at = "between" /\ replay[r].rest # <<>>
      /\ replay' = [replay EXCEPT ![r].at = "posted"]
      /\ posts' = IF Head(replay[r].rest).id = Watched /\ Watched \notin raced
                  THEN posts + 1 ELSE posts
      /\ UNCHANGED <<queue, marked, created, settled, raced, closes>>
  BY DEF Post
<1>2. r \in Active
  BY <1>0, <1>1, Runs
<1>3. /\ replay'[r] = [replay[r] EXCEPT !.at = "posted"]
      /\ \A s \in Replays \ {r} : replay'[s] = replay[s]
  BY <1>0, <1>1 DEF TypeOK
<1>4. /\ replay'[r].at = "posted" /\ replay'[r].rest = replay[r].rest
      /\ replay'[r].kept = replay[r].kept /\ replay'[r].gone = replay[r].gone
      /\ replay'[r] \in Running /\ replay'[r] # Idle
  BY <1>0, <1>2, <1>3, ActiveFacts DEF Running, Idle
<1>5. Active' = Active
  BY <1>2, <1>3, <1>4 DEF Active
<1>6. \A s \in Active : /\ Copy(s)' = Copy(s) /\ Held(s)' = Held(s)
                        /\ replay'[s].kept = replay[s].kept /\ replay'[s].rest = replay[s].rest
                        /\ replay'[s].gone = replay[s].gone
  <2>1. Copy(r)' = Copy(r) /\ Held(r)' = Held(r)
    BY <1>2, <1>4 DEF Copy, Held, Active
  <2> QED BY <1>3, <1>4, <2>1, LeftAlone DEF Active
<1>7. TypeOK'
  <2>1. replay' \in [Replays -> Running \cup {Idle}]
    BY <1>0, <1>1, <1>4 DEF TypeOK
  <2>2. posts' \in Nat
    BY <1>0, <1>1 DEF TypeOK
  <2> QED BY <1>0, <1>1, <2>1, <2>2 DEF TypeOK
<1>8. OrderKept'
  BY <1>0, <1>1, <1>5, <1>6 DEF OrderKept
<1>9. CopiesSane'
  <2>1. \A s \in Active : replay'[s].at = "posted" => replay'[s].rest # <<>>
    BY <1>0, <1>1, <1>3, <1>4 DEF CopiesSane, Active
  <2> QED BY <1>0, <1>1, <1>5, <1>6, <2>1 DEF CopiesSane
<1>10. CopiesAgree'
  BY <1>0, <1>1, <1>5, <1>6 DEF CopiesAgree
<1>11. Accounted'
  BY <1>0, <1>1 DEF Accounted
<1>12. PostsPaid'
  <2> SUFFICES ASSUME Watched \notin raced PROVE PostsPaid'
    BY <1>1 DEF PostsPaid
  <2>0. posts \in Nat /\ closes \in Nat /\ MaxAttempts \in Nat
    BY <1>0, BoundsAssumption DEF TypeOK
  <2>1. ASSUME NEW x \in Range(queue)
        PROVE  x.attempts \in 0..MaxAttempts - 1
    <3>1. x \in Item
      BY <1>0, IdsOfRange DEF TypeOK
    <3> QED BY <3>1 DEF Item
  <2>2. CASE Head(replay[r].rest).id = Watched
    <3>1. /\ ~ Spent(Watched) /\ \A s \in Active : Watched \notin IdsOf(replay[s].kept)
          /\ Watched \in 1..created
      BY <1>1, <1>2, <2>2, NextUnspent
    <3>2. PICK y \in Range(queue) : y.id = Watched
      BY <1>1, <1>2, <2>2, NextUnspent
    <3>3. posts' = posts + 1
      BY <1>1, <2>2
    <3>4. Spent(Watched)'
      <4>1. replay'[r].rest[1].id = Watched
        BY <1>0, <1>1, <1>2, <1>4, <2>2, ActiveFacts, TailItems
      <4>2. SpentBy(r, Watched)'
        BY <1>4, <4>1 DEF SpentBy
      <4> QED BY <1>2, <1>5, <4>2 DEF Spent
    <3>5. \A x \in Range(queue) : x.id = Watched => posts <= x.attempts + closes
      BY <1>0, <2>0, <2>1, <3>1 DEF PostsPaid
    <3>6. \A x \in Range(queue) : x.id = Watched => posts' <= x.attempts + closes + 1
      BY <2>0, <2>1, <3>3, <3>5
    <3>7. posts' <= MaxAttempts + closes
      BY <2>0, <2>1, <3>2, <3>3, <3>5
    <3>8. ~ (Watched > created)
      BY <1>0, <3>1 DEF TypeOK
    <3>9. \A s \in Active : \A x \in Range(replay[s].kept) : x.id # Watched
      <4> SUFFICES ASSUME NEW s \in Active, NEW x \in Range(replay[s].kept)
                   PROVE  x.id # Watched
        OBVIOUS
      <4>1. replay[s].kept \in Seq(Item)
        BY <1>0, ActiveFacts
      <4> QED BY <3>1, <4>1, IdsOfRange
    <3> QED BY <1>0, <1>1, <1>5, <1>6, <3>4, <3>6, <3>7, <3>8, <3>9 DEF PostsPaid
  <2>3. CASE Head(replay[r].rest).id # Watched
    <3>1. posts' = posts
      BY <1>1, <2>3
    <3>2. Spent(Watched) => Spent(Watched)'
      <4> SUFFICES ASSUME NEW s \in Active, SpentBy(s, Watched)
                   PROVE  SpentBy(s, Watched)'
        BY <1>5 DEF Spent
      <4>1. CASE s = r
        BY <1>1, <1>4, <4>1 DEF SpentBy
      <4>2. CASE s # r
        BY <1>3, <4>2 DEF SpentBy, Active
      <4> QED BY <4>1, <4>2
    <3>3. \A x \in Range(queue) : x.id = Watched =>
              posts <= x.attempts + closes + (IF Spent(Watched)' THEN 1 ELSE 0)
      BY <1>0, <2>0, <2>1, <3>2 DEF PostsPaid
    <3> QED BY <1>0, <1>1, <1>5, <1>6, <3>1, <3>3 DEF PostsPaid
  <2> QED BY <2>2, <2>3
<1> QED BY <1>7, <1>8, <1>9, <1>10, <1>11, <1>12 DEF OfflineInv

\* A replay moves past the item it has posted: whatever it does with the item, it holds the
\* same ids as before and what it keeps has counted the post.
LEMMA MoveOnKeeps ==
    ASSUME OfflineInv, NEW r \in Active, NEW new \in Running,
           replay' = [replay EXCEPT ![r] = new],
           UNCHANGED <<queue, marked, created, settled, raced, posts, closes>>,
           new.at = "between", new.rest = Tail(replay[r].rest), replay[r].rest # <<>>,
           Increasing(new.kept \o new.rest),
           IdsOf(new.kept \o new.rest) \cup new.gone = Held(r),
           new.gone \cap IdsOf(new.kept \o new.rest) = {},
           Len(new.kept) + Len(new.rest) <= MaxQueue,
           SpentBy(r, Watched) => Watched \in IdsOf(new.kept) \cup new.gone,
           \A x \in Range(new.kept) :
              x.id = Watched /\ Watched \notin raced => posts <= x.attempts + closes
    PROVE  OfflineInv'
<1>0. TypeOK /\ OrderKept /\ CopiesSane /\ CopiesAgree /\ Accounted /\ PostsPaid
  BY DEF OfflineInv
<1>1. replay'[r] = new /\ \A s \in Replays \ {r} : replay'[s] = replay[s]
  BY <1>0 DEF TypeOK, Active
<1>2. r \in Replays /\ new # Idle /\ new.kept \in Seq(Item) /\ new.rest \in Seq(Item)
  <2>1. r \in Replays
    BY DEF Active
  <2>2. new.kept \in Seq(Item) /\ new.rest \in Seq(Item) /\ DOMAIN new = {"at", "rest", "kept", "gone"}
    BY DEF Running
  <2>3. DOMAIN Idle = {"at"}
    BY DEF Idle
  <2> QED BY <2>1, <2>2, <2>3
<1>3. Active' = Active
  BY <1>1, <1>2 DEF Active
<1>4. Copy(r)' = new.kept \o new.rest /\ Held(r)' = Held(r)
  <2>1. IdsOf(new.kept \o new.rest) = IdsOf(new.kept) \cup IdsOf(new.rest)
    BY <1>2, ConcatItems
  <2> QED BY <1>1, <1>2, <2>1 DEF Copy, Held
<1>5. \A s \in Active : s # r => /\ replay'[s] = replay[s] /\ Copy(s)' = Copy(s)
                                 /\ \A id : SpentBy(s, id)' <=> SpentBy(s, id)
  BY <1>1, LeftAlone DEF Active
<1>6. \A s \in Active : Held(s)' = Held(s)
  BY <1>1, <1>4, LeftAlone DEF Active
<1>7. TypeOK'
  BY <1>0 DEF TypeOK
<1>8. OrderKept'
  BY <1>0, <1>3, <1>4, <1>5 DEF OrderKept, Copy
<1>9. CopiesSane'
  <2>1. Held(r) \subseteq 1..created
    BY <1>0, ActiveFacts DEF CopiesSane
  <2>2. IdsOf(new.kept \o new.rest) \subseteq 1..created /\ new.gone \subseteq 1..created
    BY <2>1
  <2> QED BY <1>0, <1>1, <1>3, <1>4, <1>5, <2>2 DEF CopiesSane
<1>10. CopiesAgree'
  BY <1>0, <1>3, <1>6 DEF CopiesAgree
<1>11. Accounted'
  BY <1>0 DEF Accounted
<1>12. PostsPaid'
  <2> SUFFICES ASSUME Watched \notin raced PROVE PostsPaid'
    BY DEF PostsPaid
  <2>0. posts \in Nat /\ closes \in Nat
    BY <1>0, BoundsAssumption DEF TypeOK
  <2>1. Spent(Watched) => Spent(Watched)'
    <3> SUFFICES ASSUME NEW s \in Active, SpentBy(s, Watched) PROVE SpentBy(s, Watched)'
      BY <1>3 DEF Spent
    <3>1. CASE s = r
      BY <1>1, <3>1 DEF SpentBy
    <3>2. CASE s # r
      BY <1>5, <3>2
    <3> QED BY <3>1, <3>2
  <2>2. ASSUME NEW x \in Range(queue), x.id = Watched
        PROVE  posts <= x.attempts + closes + (IF Spent(Watched)' THEN 1 ELSE 0)
    <3>1. posts <= x.attempts + closes + (IF Spent(Watched) THEN 1 ELSE 0)
      BY <1>0, <2>2 DEF PostsPaid
    <3>2. x \in Item
      BY <1>0, IdsOfRange DEF TypeOK
    <3>3. x.attempts \in Int
      BY <3>2, BoundsAssumption DEF Item
    <3> QED BY <2>0, <2>1, <3>1, <3>3
  <2>3. Range(new.rest) \subseteq Range(replay[r].rest)
    <3>1. replay[r].rest \in Seq(Item)
      BY <1>0, ActiveFacts
    <3> QED BY <3>1, TailItems
  <2>4. ASSUME NEW s \in Active, NEW x \in Range(replay'[s].rest), NEW y \in Range(queue),
               x.id = Watched, y.id = Watched
        PROVE  x.attempts = y.attempts
    <3>1. x \in Range(replay[s].rest)
      BY <1>1, <1>5, <2>3
    <3> QED BY <1>0, <2>4, <3>1 DEF PostsPaid
  <2>5. ASSUME NEW s \in Active, NEW x \in Range(replay'[s].kept), x.id = Watched
        PROVE  posts <= x.attempts + closes
    <3>1. CASE s = r
      BY <1>1, <2>5, <3>1
    <3>2. CASE s # r
      BY <1>0, <1>5, <2>5, <3>2 DEF PostsPaid
    <3> QED BY <3>1, <3>2
  <2>6. posts <= MaxAttempts + closes /\ (Watched > created => posts = 0)
    BY <1>0 DEF PostsPaid
  <2> QED BY <1>3, <2>2, <2>4, <2>5, <2>6 DEF PostsPaid
<1> QED BY <1>7, <1>8, <1>9, <1>10, <1>11, <1>12 DEF OfflineInv

\* The item a running replay has posted.
LEMMA PostedItem ==
    ASSUME OfflineInv, NEW r \in Replays, replay[r].at = "posted"
    PROVE  LET h == Head(replay[r].rest)
               rest == Tail(replay[r].rest)
               kept == replay[r].kept
               gone == replay[r].gone
           IN  /\ r \in Active /\ replay[r].rest # <<>>
               /\ h \in Item /\ rest \in Seq(Item) /\ kept \in Seq(Item) /\ gone \subseteq Ids
               /\ Len(rest) \in Nat /\ Len(kept) \in Nat /\ Len(kept) + 1 + Len(rest) <= MaxQueue
               /\ Held(r) = IdsOf(kept) \cup {h.id} \cup IdsOf(rest) \cup gone
               /\ Increasing(kept) /\ Increasing(rest)
               /\ \A a \in IdsOf(kept) : a < h.id /\ \A b \in IdsOf(rest) : a < b
               /\ \A b \in IdsOf(rest) : h.id < b
               /\ gone \cap (IdsOf(kept) \cup {h.id} \cup IdsOf(rest)) = {}
               /\ SpentBy(r, Watched) => Watched = h.id \/ Watched \in IdsOf(kept) \cup gone
               /\ replay[r] = [at |-> "posted", rest |-> replay[r].rest,
                               kept |-> kept, gone |-> gone]
<1> DEFINE h == Head(replay[r].rest)
           rest == Tail(replay[r].rest)
           kept == replay[r].kept
           gone == replay[r].gone
<1>0. TypeOK /\ OrderKept /\ CopiesSane /\ CopiesAgree /\ Accounted /\ PostsPaid
  BY DEF OfflineInv
<1>1. r \in Active
  BY <1>0, Runs
<1>2. /\ replay[r].rest # <<>> /\ replay[r].rest \in Seq(Item) /\ kept \in Seq(Item)
      /\ gone \subseteq Ids /\ replay[r] = [at |-> "posted", rest |-> replay[r].rest,
                                            kept |-> kept, gone |-> gone]
      /\ IdsOf(Copy(r)) = IdsOf(kept) \cup IdsOf(replay[r].rest)
      /\ Held(r) = IdsOf(Copy(r)) \cup gone /\ gone \cap IdsOf(Copy(r)) = {}
      /\ Len(kept) + Len(replay[r].rest) <= MaxQueue
  BY <1>0, <1>1, ActiveFacts DEF CopiesSane
<1>3. /\ h \in Item /\ rest \in Seq(Item) /\ replay[r].rest = <<h>> \o rest
      /\ IdsOf(replay[r].rest) = {h.id} \cup IdsOf(rest) /\ h = replay[r].rest[1]
  BY <1>2, TailItems
<1>4. /\ Len(rest) \in Nat /\ Len(kept) \in Nat /\ Len(kept) + 1 + Len(rest) <= MaxQueue
  <2>1. Len(rest) = Len(replay[r].rest) - 1 /\ Len(replay[r].rest) \in Nat
    BY <1>2, HeadTailProperties, LenProperties
  <2>2. Len(rest) \in Nat /\ Len(kept) \in Nat
    BY <1>2, <1>3, LenProperties
  <2>3. Len(kept) + Len(replay[r].rest) <= MaxQueue
    BY <1>2
  <2> HIDE DEF rest, kept
  <2> DEFINE a == Len(kept)
             b == Len(rest)
             c == Len(replay[r].rest)
  <2>4. a \in Nat /\ b \in Nat /\ c \in Nat /\ b = c - 1 /\ a + c <= MaxQueue /\ MaxQueue \in Nat
    BY <2>1, <2>2, <2>3, BoundsAssumption
  <2> HIDE DEF a, b, c
  <2>5. a + 1 + b <= MaxQueue
    BY <2>4
  <2> QED BY <2>2, <2>5 DEF a, b
<1>5. Increasing(Copy(r))
  BY <1>0, <1>1 DEF OrderKept, Copy
<1>6. /\ Increasing(kept) /\ Increasing(replay[r].rest)
      /\ \A a \in IdsOf(kept), b \in IdsOf(replay[r].rest) : a < b
  BY <1>0, <1>1, <1>5, CopyOrder
<1> HIDE DEF h, rest, kept, gone
<1>7. Increasing(rest) /\ \A b \in IdsOf(rest) : h.id < b
  <2>1. <<h>> \in Seq(Item) /\ IdsOf(<<h>>) = {h.id}
    BY <1>3, OneItem
  <2> DEFINE g == <<h>>
  <2> HIDE DEF g
  <2>2. g \in Seq(Item) /\ IdsOf(g) = {h.id} /\ Increasing(g \o rest)
    BY <1>3, <1>6, <2>1 DEF g
  <2>3. Increasing(rest) /\ \A a \in IdsOf(g), b \in IdsOf(rest) : a < b
    BY <1>3, <2>2, ConcatItems
  <2> QED BY <2>2, <2>3
<1>8. SpentBy(r, Watched) => Watched = h.id \/ Watched \in IdsOf(kept) \cup gone
  BY <1>3 DEF SpentBy, kept, gone
<1> QED BY <1>1, <1>2, <1>3, <1>4, <1>6, <1>7, <1>8 DEF h, rest, kept, gone

LEMMA DropKeeps ==
    ASSUME OfflineInv, NEW r \in Replays, replay[r].at = "posted", Drop(r),
           UNCHANGED <<queue, marked, created, settled, raced, posts, closes>>
    PROVE  OfflineInv'
<1> DEFINE h == Head(replay[r].rest)
           rest == Tail(replay[r].rest)
           kept == replay[r].kept
           gone == replay[r].gone
           new == [replay[r] EXCEPT !.at = "between", !.rest = rest, !.gone = gone \cup {h.id}]
<1>1. PostsPaid /\ TypeOK
  BY DEF OfflineInv
<1>2. /\ r \in Active /\ replay[r].rest # <<>>
      /\ h \in Item /\ rest \in Seq(Item) /\ kept \in Seq(Item) /\ gone \subseteq Ids
      /\ Len(rest) \in Nat /\ Len(kept) \in Nat /\ Len(kept) + 1 + Len(rest) <= MaxQueue
      /\ Held(r) = IdsOf(kept) \cup {h.id} \cup IdsOf(rest) \cup gone
      /\ Increasing(kept) /\ Increasing(rest)
      /\ \A a \in IdsOf(kept) : a < h.id /\ \A b \in IdsOf(rest) : a < b
      /\ \A b \in IdsOf(rest) : h.id < b
      /\ gone \cap (IdsOf(kept) \cup {h.id} \cup IdsOf(rest)) = {}
      /\ SpentBy(r, Watched) => Watched = h.id \/ Watched \in IdsOf(kept) \cup gone
  BY PostedItem
<1>3. replay' = [replay EXCEPT ![r] = new]
  BY <1>1, <1>2 DEF Drop, TypeOK, Active
<1>4. /\ new \in Running /\ new.at = "between" /\ new.rest = rest /\ new.kept = kept
      /\ new.gone = gone \cup {h.id}
  <2>1. replay[r] \in Running /\ gone \cup {h.id} \subseteq Ids
    BY <1>1, <1>2 DEF TypeOK, Active, Item
  <2> HIDE DEF h, rest, gone
  <2> QED BY <1>2, <2>1 DEF Running
<1> HIDE DEF new
<1>6. IdsOf(kept \o rest) = IdsOf(kept) \cup IdsOf(rest) /\ Increasing(kept \o rest)
  BY <1>2, ConcatItems
<1>7. h.id \in Int /\ MaxQueue \in Nat
  <2>1. h.id \in Ids
    BY <1>2 DEF Item
  <2> QED BY <2>1, BoundsAssumption DEF Ids
<1>8. h.id \notin IdsOf(kept) \cup IdsOf(rest)
  BY <1>2, <1>7
<1>9. Len(kept) + Len(rest) <= MaxQueue
  <2> DEFINE a == Len(kept)
             b == Len(rest)
  <2>1. a \in Nat /\ b \in Nat /\ a + 1 + b <= MaxQueue
    BY <1>2
  <2> HIDE DEF a, b
  <2>2. a + b <= MaxQueue
    BY <1>7, <2>1
  <2> QED BY <2>2 DEF a, b
<1>10. \A x \in Range(kept) :
           x.id = Watched /\ Watched \notin raced => posts <= x.attempts + closes
  BY <1>1, <1>2 DEF PostsPaid
<1>11. IdsOf(new.kept \o new.rest) \cup new.gone = Held(r)
  BY <1>2, <1>4, <1>6
<1>12. new.gone \cap IdsOf(new.kept \o new.rest) = {}
  BY <1>2, <1>4, <1>6, <1>8
<1>13. SpentBy(r, Watched) => Watched \in IdsOf(new.kept) \cup new.gone
  BY <1>2, <1>4
<1> HIDE DEF kept, gone, h
<1> QED BY <1>2, <1>3, <1>4, <1>6, <1>9, <1>10, <1>11, <1>12, <1>13, MoveOnKeeps

\* An item that is not at its last attempt is an item still when that attempt is counted.
LEMMA TriedItem ==
    ASSUME NEW h \in Item, h.attempts + 1 < MaxAttempts
    PROVE  LET tried == [h EXCEPT !.attempts = @ + 1]
           IN  tried \in Item /\ tried.id = h.id /\ tried.attempts = h.attempts + 1
<1>1. h.attempts \in 0..MaxAttempts - 1 /\ h.attempts + 1 \in 0..MaxAttempts - 1
  BY BoundsAssumption DEF Item
<1> QED
  BY <1>1 DEF Item

LEMMA RetainKeeps ==
    ASSUME OfflineInv, NEW r \in Replays, replay[r].at = "posted", Retain(r),
           ~ LastAttempt(Head(replay[r].rest)),
           UNCHANGED <<queue, marked, created, settled, raced, posts, closes>>
    PROVE  OfflineInv'
<1> DEFINE h == Head(replay[r].rest)
           tried == [h EXCEPT !.attempts = @ + 1]
           rest == Tail(replay[r].rest)
           kept == replay[r].kept
           gone == replay[r].gone
           more == Append(kept, tried)
           new == [replay[r] EXCEPT !.at = "between", !.rest = rest, !.kept = more]
<1>0. TypeOK /\ OrderKept /\ CopiesSane /\ CopiesAgree /\ Accounted /\ PostsPaid
  BY DEF OfflineInv
<1>1. /\ r \in Active /\ replay[r].rest # <<>>
      /\ h \in Item /\ rest \in Seq(Item) /\ kept \in Seq(Item) /\ gone \subseteq Ids
      /\ Len(rest) \in Nat /\ Len(kept) \in Nat /\ Len(kept) + 1 + Len(rest) <= MaxQueue
      /\ Held(r) = IdsOf(kept) \cup {h.id} \cup IdsOf(rest) \cup gone
      /\ Increasing(kept) /\ Increasing(rest)
      /\ \A a \in IdsOf(kept) : a < h.id /\ \A b \in IdsOf(rest) : a < b
      /\ \A b \in IdsOf(rest) : h.id < b
      /\ gone \cap (IdsOf(kept) \cup {h.id} \cup IdsOf(rest)) = {}
      /\ SpentBy(r, Watched) => Watched = h.id \/ Watched \in IdsOf(kept) \cup gone
  BY PostedItem
<1>2. replay' = [replay EXCEPT ![r] = new]
  BY <1>0, <1>1 DEF Retain, TypeOK, Active
<1>3. /\ h.id \in Ids /\ h.attempts \in 0..MaxAttempts - 1 /\ MaxAttempts \in Nat
      /\ h.attempts + 1 < MaxAttempts
  BY <1>1, BoundsAssumption DEF Item, LastAttempt
<1>4. tried \in Item /\ tried.id = h.id /\ tried.attempts = h.attempts + 1
  BY <1>1, <1>3, TriedItem
<1> HIDE DEF tried
<1>5. /\ more \in Seq(Item) /\ IdsOf(more) = IdsOf(kept) \cup {h.id}
      /\ Range(more) = Range(kept) \cup {tried} /\ Increasing(more)
      /\ Len(more) = Len(kept) + 1
  BY <1>1, <1>4, AppendItems, AppendProperties
<1> HIDE DEF more
<1>6. /\ new \in Running /\ new.at = "between" /\ new.rest = rest /\ new.kept = more
      /\ new.gone = gone
  <2>1. replay[r] \in Running
    BY <1>0, <1>1 DEF TypeOK, Active
  <2> HIDE DEF h, rest
  <2> QED BY <1>1, <1>5, <2>1 DEF Running
<1> HIDE DEF new
<1>8. IdsOf(more \o rest) = IdsOf(more) \cup IdsOf(rest) /\ Increasing(more \o rest)
  <2>1. \A a \in IdsOf(more), b \in IdsOf(rest) : a < b
    BY <1>1, <1>5
  <2> QED BY <1>1, <1>5, <2>1, ConcatItems
<1>9. Len(more) + Len(rest) <= MaxQueue
  BY <1>1, <1>5
<1>10. ASSUME NEW x \in Range(more), x.id = Watched, Watched \notin raced
       PROVE  posts <= x.attempts + closes
  <2>1. CASE x \in Range(kept)
    BY <1>0, <1>1, <1>10, <2>1 DEF PostsPaid
  <2>2. CASE x = tried
    <3>1. h.id = Watched
      BY <1>4, <1>10, <2>2
    <3>2. Watched \in IdsOf(queue)
      BY <1>0, <1>1, <1>10, <3>1 DEF CopiesAgree
    <3>3. PICK y \in Range(queue) : y.id = Watched
      BY <1>0, <3>2, IdsOfRange DEF TypeOK
    <3>4. h \in Range(replay[r].rest)
      <4>1. replay[r].rest \in Seq(Item)
        BY <1>0, <1>1, ActiveFacts
      <4> QED BY <1>1, <4>1, TailItems
    <3>5. h.attempts = y.attempts
      BY <1>0, <1>1, <1>10, <3>1, <3>3, <3>4 DEF PostsPaid
    <3>6. posts <= y.attempts + closes + (IF Spent(Watched) THEN 1 ELSE 0)
      BY <1>0, <1>10, <3>3 DEF PostsPaid
    <3>7. posts \in Nat /\ closes \in Nat
      BY <1>0, BoundsAssumption DEF TypeOK
    <3> QED BY <1>3, <1>4, <2>2, <3>5, <3>6, <3>7
  <2> QED BY <1>5, <2>1, <2>2
<1>11. IdsOf(new.kept \o new.rest) \cup new.gone = Held(r)
  BY <1>1, <1>5, <1>6, <1>8
<1>12. new.gone \cap IdsOf(new.kept \o new.rest) = {}
  BY <1>1, <1>5, <1>6, <1>8
<1>13. SpentBy(r, Watched) => Watched \in IdsOf(new.kept) \cup new.gone
  BY <1>1, <1>5, <1>6
<1> HIDE DEF kept, gone, h
<1> QED BY <1>1, <1>2, <1>6, <1>8, <1>9, <1>10, <1>11, <1>12, <1>13, MoveOnKeeps

LEMMA AnswerKeeps == ASSUME OfflineInv, NEW r \in Replays, Answer(r) PROVE OfflineInv'
<1>1. CASE AnswerOk(r) \/ AnswerConflict(r)
  BY <1>1, DropKeeps DEF Answer, AnswerOk, AnswerConflict
<1>2. CASE AnswerFailed(r)
  BY <1>2, DropKeeps, RetainKeeps DEF Answer, AnswerFailed
<1> QED BY <1>1, <1>2 DEF Answer

\* A replay is no longer running: what the others hold and have posted is the same.
LEMMA OthersGoOn ==
    ASSUME TypeOK, NEW r \in Active, replay' = [replay EXCEPT ![r] = Idle]
    PROVE  /\ replay' \in [Replays -> Running \cup {Idle}]
           /\ Active' = Active \ {r}
           /\ \A s \in Active' : /\ s # r /\ s \in Active /\ replay'[s] = replay[s]
                                 /\ Copy(s)' = Copy(s) /\ Held(s)' = Held(s)
<1>1. r \in Replays /\ replay'[r] = Idle /\ \A s \in Replays \ {r} : replay'[s] = replay[s]
  BY DEF TypeOK, Active
<1>2. replay' \in [Replays -> Running \cup {Idle}]
  BY DEF TypeOK
<1>3. Active' = Active \ {r}
  BY <1>1 DEF Active
<1> QED BY <1>1, <1>2, <1>3, LeftAlone DEF Active

LEMMA FinishKeeps == ASSUME OfflineInv, NEW r \in Replays, Finish(r) PROVE OfflineInv'
<1> DEFINE kept == replay[r].kept
           gone == replay[r].gone
<1>0. TypeOK /\ OrderKept /\ CopiesSane /\ CopiesAgree /\ Accounted /\ PostsPaid
  BY DEF OfflineInv
<1>1. /\ replay[r].at = "between" /\ replay[r].rest = <<>>
      /\ queue' = kept /\ settled' = settled \cup gone
      /\ replay' = [replay EXCEPT ![r] = Idle]
      /\ UNCHANGED <<marked, created, raced, posts, closes>>
  BY DEF Finish
<1>2. r \in Active
  BY <1>0, <1>1, Runs
<1>3. /\ kept \in Seq(Item) /\ gone \subseteq 1..created /\ IdsOf(kept) \subseteq 1..created
      /\ Held(r) = IdsOf(kept) \cup gone /\ gone \cap IdsOf(kept) = {}
      /\ Increasing(kept) /\ Len(kept) <= MaxQueue
  <2>1. IdsOf(Copy(r)) = IdsOf(kept)
    BY <1>0, <1>1, <1>2, ActiveFacts, EmptyItems
  <2>2. Increasing(kept)
    BY <1>0, <1>2, CopyOrder DEF OrderKept, Copy
  <2>3. Len(kept) <= MaxQueue
    <3>1. kept \in Seq(Item) /\ Len(kept) + Len(<<>>) <= MaxQueue
      BY <1>0, <1>1, <1>2, ActiveFacts DEF CopiesSane
    <3> HIDE DEF kept
    <3> QED BY <3>1, LenProperties, BoundsAssumption
  <2> QED BY <1>0, <1>2, <2>1, <2>2, <2>3, ActiveFacts DEF CopiesSane
<1>4. /\ replay' \in [Replays -> Running \cup {Idle}]
      /\ Active' = Active \ {r}
      /\ \A s \in Active' : /\ s # r /\ s \in Active /\ replay'[s] = replay[s]
                            /\ Copy(s)' = Copy(s) /\ Held(s)' = Held(s)
  BY <1>0, <1>1, <1>2, OthersGoOn
<1> HIDE DEF kept, gone
<1>5. TypeOK'
  BY <1>0, <1>1, <1>3, <1>4 DEF TypeOK
<1>6. OrderKept'
  BY <1>0, <1>1, <1>3, <1>4 DEF OrderKept, Copy
<1>7. CopiesSane'
  BY <1>0, <1>1, <1>3, <1>4 DEF CopiesSane
<1>8. CopiesAgree'
  <2>1. ASSUME NEW s \in Active' PROVE Held(s)' \ raced = IdsOf(kept) \ raced
    <3>1. Held(s) \ raced = IdsOf(queue) \ raced /\ Held(r) \ raced = IdsOf(queue) \ raced
      BY <1>0, <1>2, <1>4 DEF CopiesAgree
    <3>2. Held(s) \cap Held(r) \subseteq raced
      BY <1>0, <1>2, <1>4 DEF CopiesAgree
    <3> QED BY <1>3, <1>4, <3>1, <3>2
  <2>2. \A s, t \in Active' : s # t => Held(s)' \cap Held(t)' \subseteq raced
    BY <1>0, <1>4 DEF CopiesAgree
  <2> QED BY <1>1, <2>1, <2>2 DEF CopiesAgree
<1>9. Accounted'
  <2> SUFFICES ASSUME NEW id \in 1..created, id \notin raced
               PROVE  (id \in IdsOf(kept)) # (id \in settled \cup gone)
    BY <1>1 DEF Accounted
  <2>1. (id \in IdsOf(queue)) # (id \in settled)
    BY <1>0 DEF Accounted
  <2>2. id \in IdsOf(queue) <=> id \in Held(r)
    BY <1>0, <1>2 DEF CopiesAgree
  <2> QED BY <1>3, <2>1, <2>2
<1>10. PostsPaid'
  <2> SUFFICES ASSUME Watched \notin raced PROVE PostsPaid'
    BY <1>1 DEF PostsPaid
  <2>0. posts \in Nat /\ closes \in Nat
    BY <1>0, BoundsAssumption DEF TypeOK
  <2>1. ASSUME NEW x \in Range(kept), x.id = Watched
        PROVE  posts <= x.attempts + closes + (IF Spent(Watched)' THEN 1 ELSE 0)
    <3>1. posts <= x.attempts + closes
      BY <1>0, <1>2, <2>1 DEF PostsPaid, kept
    <3>2. x \in Item
      BY <1>3, IdsOfRange
    <3>3. x.attempts \in Int
      BY <3>2, BoundsAssumption DEF Item
    <3> QED BY <2>0, <3>1, <3>3
  <2>2. ASSUME NEW s \in Active', NEW x \in Range(replay[s].rest), NEW y \in Range(kept),
               x.id = Watched, y.id = Watched
        PROVE  FALSE
    <3>1. replay[s].rest \in Seq(Item) /\ IdsOf(replay[s].rest) \subseteq Held(s)
      BY <1>0, <1>4, ActiveFacts
    <3>2. Watched \in IdsOf(replay[s].rest) /\ Watched \in IdsOf(kept)
      BY <1>3, <2>2, <3>1, IdsOfRange
    <3>3. Held(s) \cap Held(r) \subseteq raced
      BY <1>0, <1>2, <1>4 DEF CopiesAgree
    <3> QED BY <1>3, <3>1, <3>2, <3>3
  <2> QED BY <1>0, <1>1, <1>4, <2>1, <2>2 DEF PostsPaid
<1> QED BY <1>5, <1>6, <1>7, <1>8, <1>9, <1>10 DEF OfflineInv

LEMMA CloseKeeps == ASSUME OfflineInv, NEW r \in Replays, Close(r) PROVE OfflineInv'
<1>0. TypeOK /\ OrderKept /\ CopiesSane /\ CopiesAgree /\ Accounted /\ PostsPaid
  BY DEF OfflineInv
<1>1. /\ r \in Active /\ closes < MaxCloses /\ closes' = closes + 1
      /\ replay' = [replay EXCEPT ![r] = Idle]
      /\ UNCHANGED <<queue, marked, created, settled, raced, posts>>
  BY DEF Close, Active
<1>2. /\ replay' \in [Replays -> Running \cup {Idle}]
      /\ Active' = Active \ {r}
      /\ \A s \in Active' : /\ s # r /\ s \in Active /\ replay'[s] = replay[s]
                            /\ Copy(s)' = Copy(s) /\ Held(s)' = Held(s)
  BY <1>0, <1>1, OthersGoOn
<1>3. TypeOK'
  <2>1. closes' \in 0..MaxCloses
    BY <1>0, <1>1, BoundsAssumption DEF TypeOK
  <2> QED BY <1>0, <1>1, <1>2, <2>1 DEF TypeOK
<1>4. OrderKept' /\ CopiesSane' /\ CopiesAgree' /\ Accounted'
  <2>1. OrderKept'
    BY <1>0, <1>1, <1>2 DEF OrderKept, Copy
  <2>2. CopiesSane'
    BY <1>0, <1>1, <1>2 DEF CopiesSane
  <2>3. CopiesAgree'
    BY <1>0, <1>1, <1>2 DEF CopiesAgree
  <2>4. Accounted'
    BY <1>0, <1>1 DEF Accounted
  <2> QED BY <2>1, <2>2, <2>3, <2>4
<1>5. PostsPaid'
  <2> SUFFICES ASSUME Watched \notin raced PROVE PostsPaid'
    BY <1>1 DEF PostsPaid
  <2>0. posts \in Nat /\ closes \in Nat /\ MaxAttempts \in Nat
    BY <1>0, BoundsAssumption DEF TypeOK
  <2>1. posts <= MaxAttempts + closes' /\ (Watched > created => posts = 0)
    BY <1>0, <1>1, <2>0 DEF PostsPaid
  <2>2. ASSUME NEW x \in Range(queue), x.id = Watched
        PROVE  posts <= x.attempts + closes' + (IF Spent(Watched)' THEN 1 ELSE 0)
    <3>1. posts <= x.attempts + closes + (IF Spent(Watched) THEN 1 ELSE 0)
      BY <1>0, <2>2 DEF PostsPaid
    <3>2. x \in Item
      BY <1>0, IdsOfRange DEF TypeOK
    <3>3. x.attempts \in Int
      BY <3>2, BoundsAssumption DEF Item
    <3> QED BY <1>1, <2>0, <3>1, <3>3
  <2>3. ASSUME NEW s \in Active', NEW x \in Range(replay'[s].kept), x.id = Watched
        PROVE  posts <= x.attempts + closes'
    <3>1. posts <= x.attempts + closes /\ replay[s].kept \in Seq(Item) /\ x \in Range(replay[s].kept)
      BY <1>0, <1>2, <2>3, ActiveFacts DEF PostsPaid
    <3>2. x \in Item
      BY <3>1, IdsOfRange
    <3>3. x.attempts \in Int
      BY <3>2, BoundsAssumption DEF Item
    <3> QED BY <1>1, <2>0, <3>1, <3>3
  <2> QED BY <1>0, <1>1, <1>2, <2>1, <2>2, <2>3 DEF PostsPaid
<1> QED BY <1>3, <1>4, <1>5 DEF OfflineInv

-----------------------------------------------------------------------------

LEMMA OfflineInitially == Init => OfflineInv
<1> SUFFICES ASSUME Init PROVE OfflineInv
  OBVIOUS
<1>1. /\ queue = <<>> /\ replay = [r \in Replays |-> Idle] /\ marked = FALSE /\ created = 0
      /\ settled = {} /\ raced = {} /\ posts = 0 /\ closes = 0
  BY DEF Init
<1>2. Active = {} /\ queue \in Seq(Item) /\ IdsOf(queue) = {} /\ Range(queue) = {} /\ Increasing(queue)
  BY <1>1, EmptyItems DEF Active
<1>3. Len(queue) <= MaxQueue
  BY <1>1, BoundsAssumption
<1>4. TypeOK
  <2>1. created \in 0..MaxItems /\ closes \in 0..MaxCloses /\ posts \in Nat
    BY <1>1, BoundsAssumption
  <2>2. replay \in [Replays -> Running \cup {Idle}]
    BY <1>1
  <2>3. marked \in BOOLEAN /\ settled \subseteq 1..created /\ raced \subseteq 1..created
    BY <1>1
  <2> QED BY <1>2, <1>3, <2>1, <2>2, <2>3 DEF TypeOK
<1>5. OrderKept /\ CopiesSane /\ CopiesAgree /\ Accounted
  BY <1>1, <1>2 DEF OrderKept, CopiesSane, CopiesAgree, Accounted
<1>6. PostsPaid
  BY <1>1, <1>2, BoundsAssumption DEF PostsPaid
<1> QED BY <1>4, <1>5, <1>6 DEF OfflineInv

LEMMA OfflineInductive == OfflineInv /\ [Next]_offlineVars => OfflineInv'
<1> SUFFICES ASSUME OfflineInv, [Next]_offlineVars PROVE OfflineInv'
  OBVIOUS
<1>1. CASE Enqueue
  BY <1>1, EnqueueKeeps
<1>2. CASE \E id \in Ids : Discard(id)
  BY <1>2, DiscardKeeps
<1>3. ASSUME queue' = queue, replay' = replay, created' = created, settled' = settled,
             raced' = raced, posts' = posts, closes' = closes, marked' \in BOOLEAN
      PROVE  OfflineInv'
  <2>1. /\ Active' = Active /\ (Spent(Watched)' <=> Spent(Watched))
        /\ \A r \in Replays : Held(r)' = Held(r) /\ Copy(r)' = Copy(r)
    BY <1>3 DEF Active, Held, Copy, Spent, SpentBy
  <2>2. TypeOK'
    BY <1>3 DEF OfflineInv, TypeOK
  <2>3. OrderKept' /\ Accounted'
    BY <1>3, <2>1 DEF OfflineInv, OrderKept, Accounted
  <2>4. CopiesSane' /\ CopiesAgree'
    BY <1>3, <2>1 DEF OfflineInv, CopiesSane, CopiesAgree, Active
  <2>5. PostsPaid'
    BY <1>3, <2>1 DEF OfflineInv, PostsPaid
  <2> QED BY <2>2, <2>3, <2>4, <2>5 DEF OfflineInv
<1>4. CASE Invalidate
  BY <1>3, <1>4 DEF Invalidate
<1>5. ASSUME NEW r \in Replays, Begin(r) \/ Advance(r) \/ Close(r)
      PROVE  OfflineInv'
  BY <1>5, BeginKeeps, PostKeeps, AnswerKeeps, FinishKeeps, CloseKeeps DEF Advance
<1>6. CASE UNCHANGED offlineVars
  <2>1. marked \in BOOLEAN
    BY DEF OfflineInv, TypeOK
  <2> QED BY <1>3, <1>6, <2>1 DEF offlineVars
<1> QED BY <1>1, <1>2, <1>4, <1>5, <1>6 DEF Next

LEMMA OfflineAlways == Spec => []OfflineInv
BY OfflineInitially, OfflineInductive, PTL DEF Spec

\* Every variable of the offline queue keeps its type, and neither the stored queue nor the
\* queue a replay writes back at its end ever holds more than MAX_QUEUE items.
THEOREM OfflineTypeCorrect == Spec => []TypeOK
<1>1. OfflineInv => TypeOK
  BY DEF OfflineInv
<1> QED BY <1>1, OfflineAlways, PTL

\* syncPendingActions posts the actions in the order the user made them, each once in a pass,
\* whatever replayOfflineQueue passes overlap, are cut short or overwrite one another's queue.
THEOREM ReplayInOrder == Spec => []OrderKept
<1>1. OfflineInv => OrderKept
  BY DEF OfflineInv
<1> QED BY <1>1, OfflineAlways, PTL

\* replayOfflineQueue loses no action and brings none back: one that nobody else touched while a
\* replay held it is in the stored queue or done with, and never both.
THEOREM NoneLostOrRevived == Spec => []Accounted
<1>1. OfflineInv => Accounted
  BY DEF OfflineInv
<1> QED BY <1>1, OfflineAlways, PTL

\* The attempts bound the posts: an action nobody else touched is posted at most three times
\* (MaxAttempts), and once more for each tab closed before its replay wrote the attempts.
THEOREM PostsBounded == Spec => []AttemptsCounted
<1>1. OfflineInv => AttemptsCounted
  BY DEF OfflineInv, PostsPaid, AttemptsCounted
<1> QED BY <1>1, OfflineAlways, PTL

=============================================================================
