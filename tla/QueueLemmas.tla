----------------------------- MODULE QueueLemmas -----------------------------
(***************************************************************************)
(* Queues without repetitions, as sequences: what joining at the tail,     *)
(* leaving at the head and leaving from the middle do to the set of those  *)
(* who wait.                                                               *)
(***************************************************************************)
EXTENDS Naturals, SequencesExt, SequenceTheorems, WellFoundedInduction, TLAPS

\* A non-empty set of naturals has a minimum, and Min picks it.
LEMMA MinInSet ==
  ASSUME NEW T \in SUBSET Nat, T # {}
  PROVE  Min(T) \in T /\ \A y \in T : Min(T) <= y
<1> DEFINE Less == {ss \in Nat \X Nat : ss[1] < ss[2]}
<1>1. IsWellFoundedOn(Less, Nat)
  BY NatLessThanWellFounded, Zenon DEF OpToRel
<1>2. PICK x \in T : \A y \in T : <<y, x>> \notin Less
  BY <1>1, WFMin, Zenon
<1>3. \A y \in T : x <= y
  <2>1. SUFFICES ASSUME NEW y \in T, y < x PROVE FALSE
    OBVIOUS
  <2>2. <<y, x>> \in Nat \X Nat /\ <<y, x>>[1] < <<y, x>>[2]
    BY <2>1
  <2>3. <<y, x>> \in Less
    BY <2>2, Zenon
  <2> QED BY <2>3, <1>2
<1> HIDE DEF Less
<1> QED BY <1>3 DEF Min

\* The elements of a sequence, by position.
LEMMA ToSetMember ==
  ASSUME NEW S, NEW q \in Seq(S)
  PROVE  \A x : x \in ToSet(q) <=> \E i \in 1..Len(q) : q[i] = x
<1>1. DOMAIN q = 1..Len(q)
  BY LenProperties
<1> QED BY <1>1, Zenon DEF ToSet

\* The empty queue.
LEMMA EmptyQueue ==
  ASSUME NEW S
  PROVE  <<>> \in Seq(S) /\ Len(<<>>) = 0 /\ ToSet(<<>>) = {}
<1>1. <<>> \in Seq(S) /\ Len(<<>>) = 0
  OBVIOUS
<1>2. ASSUME NEW x \in ToSet(<<>>) PROVE FALSE
  <2>1. \E i \in 1..Len(<<>>) : <<>>[i] = x
    BY <1>1, ToSetMember
  <2> QED BY <2>1, <1>1
<1> QED BY <1>1, <1>2, Zenon

\* A suffix of a sequence, element by element.
LEMMA Suffix ==
  ASSUME NEW S, NEW q \in Seq(S), q # <<>>, NEW n \in 1..Len(q)
  PROVE  /\ SubSeq(q, n, Len(q)) \in Seq(S)
         /\ Len(SubSeq(q, n, Len(q))) = Len(q) - n + 1
         /\ \A i \in 1..Len(q)-n+1 : SubSeq(q, n, Len(q))[i] = q[i+n-1]
<1>1. n \in Int /\ Len(q) \in Int /\ \A i \in n..Len(q) : q[i] \in S
  OBVIOUS
<1>2. Len(q) - n + 1 \in Nat
  OBVIOUS
<1> QED BY <1>1, <1>2, SubSeqProperties

\* Taking an element out of a queue without repetitions.
LEMMA RemoveFirstDistinct ==
  ASSUME NEW S, NEW q \in Seq(S), NEW c \in ToSet(q),
         \A i, j \in 1..Len(q) : q[i] = q[j] => i = j
  PROVE  /\ RemoveFirst(q, c) \in Seq(S)
         /\ ToSet(RemoveFirst(q, c)) = ToSet(q) \ {c}
         /\ \A i, j \in 1..Len(RemoveFirst(q, c)) :
              RemoveFirst(q, c)[i] = RemoveFirst(q, c)[j] => i = j
<1>1. PICK n \in 1..Len(q) : q[n] = c
  BY ToSetMember
<1> DEFINE a == SubSeq(q, 1, n-1)
           b == SubSeq(q, n+1, Len(q))
           r == a \o b
<1>2. {i \in 1..Len(q) : q[i] = c} = {n}
  BY <1>1
<1>3. Min({n}) = n
  <2>1. {n} \in SUBSET Nat /\ n \in {n}
    OBVIOUS
  <2>2. Min({n}) \in {n}
    BY <2>1, MinInSet
  <2> QED BY <2>2
<1>4. SelectInSeq(q, LAMBDA v : v = c) = n
  BY <1>2, <1>3 DEF SelectInSeq
<1>5. RemoveFirst(q, c) = r
  BY <1>1, <1>4 DEF RemoveFirst, RemoveAt
<1>6. /\ a \in Seq(S) /\ Len(a) = n - 1
      /\ \A i \in 1..n-1 : a[i] = q[i]
  <2>1. 1 \in Int /\ n - 1 \in Int /\ \A i \in 1..n-1 : q[i] \in S
    OBVIOUS
  <2> QED BY <2>1, SubSeqProperties
<1>7. /\ b \in Seq(S) /\ Len(b) = Len(q) - n
      /\ \A i \in 1..Len(q)-n : b[i] = q[n+i]
  <2>1. n + 1 \in Int /\ Len(q) \in Int /\ \A i \in n+1..Len(q) : q[i] \in S
    OBVIOUS
  <2> QED BY <2>1, SubSeqProperties
<1>8. /\ r \in Seq(S) /\ Len(r) = Len(q) - 1 /\ Len(q) \in Nat
      /\ \A i \in 1..Len(r) : r[i] = IF i < n THEN q[i] ELSE q[i+1]
  <2> HIDE DEF a, b
  <2>1. /\ r \in Seq(S) /\ Len(r) = Len(a) + Len(b)
        /\ \A i \in 1..Len(a) + Len(b) :
             r[i] = IF i <= Len(a) THEN a[i] ELSE b[i - Len(a)]
    <3>1. a \in Seq(S) /\ b \in Seq(S)
      BY <1>6, <1>7
    <3> QED BY <3>1, ConcatProperties
  <2> QED BY <1>6, <1>7, <2>1
<1> HIDE DEF r
<1>9. ToSet(r) = ToSet(q) \ {c}
  <2>1. ASSUME NEW d \in ToSet(r) PROVE d \in ToSet(q) \ {c}
    <3>1. PICK i \in 1..Len(r) : r[i] = d
      BY <1>8, ToSetMember
    <3>2. PICK m \in 1..Len(q) : q[m] = d /\ m # n
      BY <3>1, <1>8
    <3> QED BY <3>2, <1>1, ToSetMember
  <2>2. ASSUME NEW d \in ToSet(q) \ {c} PROVE d \in ToSet(r)
    <3>1. PICK m \in 1..Len(q) : q[m] = d
      BY ToSetMember
    <3>2. m # n
      BY <1>1, <3>1
    <3>3. \E i \in 1..Len(r) : r[i] = d
      <4>1. CASE m < n
        BY <3>1, <4>1, <1>8
      <4>2. CASE m > n
        <5>1. m - 1 \in 1..Len(r) /\ r[m - 1] = d
          BY <3>1, <4>2, <1>8
        <5> QED BY <5>1
      <4> QED BY <3>2, <4>1, <4>2
    <3> QED BY <3>3, <1>8, ToSetMember
  <2> QED BY <2>1, <2>2
<1>10. \A i, j \in 1..Len(r) : r[i] = r[j] => i = j
  BY <1>8
<1> QED BY <1>5, <1>8, <1>9, <1>10

\* Appending an element that is not in a queue without repetitions.
LEMMA AppendDistinct ==
  ASSUME NEW S, NEW q \in Seq(S), NEW c \in S, c \notin ToSet(q),
         \A i, j \in 1..Len(q) : q[i] = q[j] => i = j
  PROVE  /\ Append(q, c) \in Seq(S)
         /\ ToSet(Append(q, c)) = ToSet(q) \cup {c}
         /\ \A i, j \in 1..Len(Append(q, c)) :
              Append(q, c)[i] = Append(q, c)[j] => i = j
<1>1. /\ Append(q, c) \in Seq(S) /\ Len(Append(q, c)) = Len(q) + 1
      /\ \A i \in 1..Len(q) : Append(q, c)[i] = q[i]
      /\ Append(q, c)[Len(q) + 1] = c
  BY AppendProperties
<1> DEFINE r == Append(q, c)
<1> HIDE DEF r
<1>2. ASSUME NEW d \in ToSet(r) PROVE d \in ToSet(q) \cup {c}
  <2> r \in Seq(S)
    BY <1>1 DEF r
  <2>1. PICK i \in 1..Len(r) : r[i] = d
    BY ToSetMember
  <2>2. d = c \/ (i \in 1..Len(q) /\ q[i] = d)
    BY <1>1, <2>1 DEF r
  <2> QED BY <2>2, ToSetMember
<1>3. ASSUME NEW d \in ToSet(q) \cup {c} PROVE d \in ToSet(r)
  <2>1. r \in Seq(S) /\ Len(r) = Len(q) + 1 /\ r[Len(q) + 1] = c
        /\ \A i \in 1..Len(q) : r[i] = q[i]
    BY <1>1 DEF r
  <2>2. CASE d = c
    BY <2>1, <2>2, ToSetMember
  <2>3. CASE d \in ToSet(q)
    <3>1. PICK i \in 1..Len(q) : q[i] = d
      BY <2>3, ToSetMember
    <3>2. i \in 1..Len(r) /\ r[i] = d
      BY <2>1, <3>1
    <3> QED BY <2>1, <3>2, ToSetMember
  <2> QED BY <2>2, <2>3
<1>4. \A i \in 1..Len(q) : q[i] # c
  BY ToSetMember
<1> QED BY <1>1, <1>2, <1>3, <1>4 DEF r

\* Dropping the head of a queue without repetitions.
LEMMA DropHeadDistinct ==
  ASSUME NEW S, NEW q \in Seq(S), q # <<>>,
         \A i, j \in 1..Len(q) : q[i] = q[j] => i = j
  PROVE  /\ q[1] \in S /\ q[1] \in ToSet(q)
         /\ SubSeq(q, 2, Len(q)) \in Seq(S)
         /\ ToSet(SubSeq(q, 2, Len(q))) = ToSet(q) \ {q[1]}
         /\ \A i, j \in 1..Len(SubSeq(q, 2, Len(q))) :
              SubSeq(q, 2, Len(q))[i] = SubSeq(q, 2, Len(q))[j] => i = j
<1> DEFINE r == SubSeq(q, 2, Len(q))
<1>1. Len(q) \in Nat \ {0} /\ q[1] \in S /\ 1 \in 1..Len(q)
  OBVIOUS
<1>2. /\ r \in Seq(S) /\ Len(r) = Len(q) - 1
      /\ \A i \in 1..Len(q)-1 : r[i] = q[i+1]
  <2>1. CASE Len(q) = 1
    <3>1. r = <<>>
      BY <2>1, SubSeqEmpty
    <3> QED BY <2>1, <3>1
  <2>2. CASE 2 \in 1..Len(q)
    BY <1>1, <2>2, Suffix
  <2>3. Len(q) = 1 \/ 2 \in 1..Len(q)
    <3> DEFINE n == Len(q)
    <3>1. n \in Nat \ {0}
      BY <1>1
    <3> HIDE DEF n
    <3>2. n = 1 \/ 2 \in 1..n
      BY <3>1
    <3> QED BY <3>2 DEF n
  <2> QED BY <2>1, <2>2, <2>3
<1> HIDE DEF r
<1>3. ASSUME NEW d \in ToSet(r) PROVE d \in ToSet(q) \ {q[1]}
  <2>1. PICK i \in 1..Len(r) : r[i] = d
    BY <1>2, ToSetMember
  <2>2. i + 1 \in 1..Len(q) /\ q[i+1] = d /\ i + 1 # 1
    BY <2>1, <1>1, <1>2
  <2> QED BY <2>2, <1>1, ToSetMember
<1>4. ASSUME NEW d \in ToSet(q) \ {q[1]} PROVE d \in ToSet(r)
  <2>1. PICK m \in 1..Len(q) : q[m] = d
    BY ToSetMember
  <2>2. m - 1 \in 1..Len(r) /\ r[m - 1] = d
    BY <2>1, <1>1, <1>2
  <2> QED BY <2>2, <1>2, ToSetMember
<1>5. q[1] \in ToSet(q)
  BY <1>1, ToSetMember
<1>6. \A i, j \in 1..Len(r) : r[i] = r[j] => i = j
  BY <1>1, <1>2
<1> QED BY <1>1, <1>2, <1>3, <1>4, <1>5, <1>6 DEF r
=============================================================================
