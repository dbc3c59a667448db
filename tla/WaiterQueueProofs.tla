------------------------- MODULE WaiterQueueProofs -------------------------
(* What pruning a queue of waiters leaves. *)
EXTENDS WaiterQueue, FiniteSetTheorems, SequenceTheorems, WellFoundedInduction, TLAPS

\* A set of naturals that is not empty has a least element, and Least is it.
LEMMA LeastIsLeast ==
    ASSUME NEW S, S \subseteq Nat, S # {}
    PROVE  /\ Least(S) \in S
           /\ \A j \in S : Least(S) <= j
<1> DEFINE R == {ss \in Nat \X Nat : ss[1] < ss[2]}
<1>1. IsWellFoundedOn(R, Nat)
  BY NatLessThanWellFounded, Zenon DEF OpToRel
<1>2. PICK x \in S : \A y \in S : ~(<<y, x>> \in R)
  <2> HIDE DEF R
  <2> QED
    BY <1>1, WFMin
<1>3. ASSUME NEW y \in S PROVE x <= y
  <2>1. x \in Nat /\ y \in Nat
    OBVIOUS
  <2>2. <<y, x>> \in Nat \X Nat /\ <<y, x>>[1] = y /\ <<y, x>>[2] = x
    BY <2>1
  <2>3. ~(y < x)
    BY <1>2, <2>2, Zenon
  <2> QED
    BY <2>1, <2>3
<1> QED
  BY <1>3 DEF Least

\* The elements of A up to j.
UpTo(A, j) == {h \in A : h <= j}

\* In a finite set of naturals, an element that is not the last has a successor,
\* whose rank is the next one.
LEMMA NextRank ==
    ASSUME NEW A, A \subseteq Nat, IsFiniteSet(A), NEW j \in A, UpTo(A, j) # A
    PROVE  \E a \in A : Cardinality(UpTo(A, a)) = Cardinality(UpTo(A, j)) + 1
<1> DEFINE above == {h \in A : h > j}
<1>1. above \subseteq Nat /\ above # {}
  <2>1. PICK h \in A : ~(h <= j)
    BY Zenon DEF UpTo
  <2>2. h \in Nat /\ j \in Nat
    OBVIOUS
  <2>3. h > j
    BY <2>1, <2>2
  <2> QED
    BY <2>3
<1>2. PICK a \in above : \A h \in above : a <= h
  <2> HIDE DEF above
  <2> QED
    BY <1>1, LeastIsLeast
<1>3. UpTo(A, a) = UpTo(A, j) \cup {a} /\ a \notin UpTo(A, j)
  <2>1. a \in A /\ a \in Nat /\ j \in Nat /\ j < a
    OBVIOUS
  <2>2. a \notin UpTo(A, j)
    BY <2>1 DEF UpTo
  <2>3. ASSUME NEW h \in A PROVE h <= a <=> h <= j \/ h = a
    <3>1. h \in Nat
      OBVIOUS
    <3> QED
      BY <3>1, <2>1, <1>2
  <2> QED
    BY <2>1, <2>2, <2>3, Zenon DEF UpTo
<1>4. IsFiniteSet(UpTo(A, j))
  BY FS_Subset DEF UpTo
<1> QED
  BY <1>3, <1>4, FS_AddElement

\* A finite set of naturals has an element of every rank, and Nth finds it.
LEMMA NthInSet ==
    ASSUME NEW A, A \subseteq Nat, IsFiniteSet(A),
           NEW i \in 1..Cardinality(A)
    PROVE  Nth(A, i) \in A /\ Cardinality(UpTo(A, Nth(A, i))) = i
<1> DEFINE missing == {n \in 1..Cardinality(A) :
                         \A j \in A : Cardinality(UpTo(A, j)) # n}
<1>1. Cardinality(A) \in Nat
  BY FS_CardinalityType
<1>2. missing \subseteq Nat
  BY <1>1
<1>3. missing = {}
  <2> SUFFICES ASSUME missing # {} PROVE FALSE
    OBVIOUS
  <2>1. PICK n \in missing : \A m \in missing : n <= m
    <3> HIDE DEF missing
    <3> QED
      BY <1>2, LeastIsLeast
  <2>2. CASE n = 1
    <3>1. A # {}
      BY <1>1, FS_EmptySet, 1 <= Cardinality(A)
    <3>2. PICK a \in A : \A j \in A : a <= j
      BY <3>1, LeastIsLeast
    <3>3. UpTo(A, a) = {a}
      <4>1. ASSUME NEW h \in A PROVE h <= a <=> h = a
        <5>1. h \in Nat /\ a \in Nat
          OBVIOUS
        <5> QED
          BY <5>1, <3>2
      <4> QED
        BY <4>1, Zenon DEF UpTo
    <3> QED
      BY <3>3, <2>1, <2>2, FS_Singleton
  <2>3. CASE n # 1
    <3>1. n - 1 \in 1..Cardinality(A) /\ n - 1 \notin missing
      BY <2>1, <2>3, <1>1
    <3>2. PICK j \in A : Cardinality(UpTo(A, j)) = n - 1
      BY <3>1
    <3>3. UpTo(A, j) # A
      BY <3>2, <2>1, <1>1
    <3>4. PICK a \in A : Cardinality(UpTo(A, a)) = (n - 1) + 1
      BY <3>2, <3>3, NextRank
    <3> QED
      BY <3>4, <2>1, <1>1
  <2> QED
    BY <2>2, <2>3
<1>4. \E j \in A : Cardinality({h \in A : h <= j}) = i
  BY <1>3 DEF UpTo
<1> QED
  BY <1>4 DEF Nth, UpTo

\* No two elements have one rank.
LEMMA NthOfRank ==
    ASSUME NEW A, A \subseteq Nat, IsFiniteSet(A), NEW a \in A
    PROVE  /\ Cardinality(UpTo(A, a)) \in 1..Cardinality(A)
           /\ Nth(A, Cardinality(UpTo(A, a))) = a
<1>1. ASSUME NEW x \in A, NEW y \in A, x < y
      PROVE  Cardinality(UpTo(A, x)) < Cardinality(UpTo(A, y))
  <2>1. UpTo(A, x) \subseteq UpTo(A, y) /\ y \in UpTo(A, y) /\ y \notin UpTo(A, x)
    <3>1. x \in Nat /\ y \in Nat /\ ~(y <= x) /\ y <= y
      BY <1>1
    <3>2. ASSUME NEW h \in A, h <= x PROVE h <= y
      <4>1. h \in Nat
        OBVIOUS
      <4> QED
        BY <1>1, <3>1, <3>2, <4>1
    <3> QED
      BY <3>1, <3>2, Zenon DEF UpTo
  <2>2. /\ IsFiniteSet(UpTo(A, x)) /\ IsFiniteSet(UpTo(A, y))
        /\ Cardinality(UpTo(A, x)) \in Nat /\ Cardinality(UpTo(A, y)) \in Nat
    <3>1. UpTo(A, x) \subseteq A /\ UpTo(A, y) \subseteq A
      BY DEF UpTo
    <3> QED
      BY <3>1, FS_Subset, FS_CardinalityType
  <2>3. /\ Cardinality(UpTo(A, x)) <= Cardinality(UpTo(A, y))
        /\ Cardinality(UpTo(A, x)) # Cardinality(UpTo(A, y))
    BY <2>1, <2>2, FS_Subset
  <2> QED
    BY <2>2, <2>3
<1>2. Cardinality(UpTo(A, a)) \in 1..Cardinality(A)
  <2>1. UpTo(A, a) \subseteq A /\ a \in UpTo(A, a)
    BY DEF UpTo
  <2>2. /\ IsFiniteSet(UpTo(A, a)) /\ Cardinality(UpTo(A, a)) <= Cardinality(A)
        /\ Cardinality(UpTo(A, a)) \in Nat /\ Cardinality(A) \in Nat
    BY <2>1, FS_Subset, FS_CardinalityType
  <2>3. Cardinality(UpTo(A, a)) # 0
    BY <2>1, <2>2, FS_EmptySet
  <2> QED
    BY <2>2, <2>3
<1> DEFINE b == Nth(A, Cardinality(UpTo(A, a)))
<1>3. b \in A /\ Cardinality(UpTo(A, b)) = Cardinality(UpTo(A, a))
  BY <1>2, NthInSet
<1> HIDE DEF b
<1>4. a \in Nat /\ b \in Nat
  BY <1>3
<1>5. ~(a < b) /\ ~(b < a)
  <2>1. Cardinality(UpTo(A, a)) \in Nat
    BY <1>2
  <2> QED
    BY <1>1, <1>3, <2>1
<1> QED
  BY <1>2, <1>4, <1>5 DEF b

\* Pruning leaves a suffix of the queue that is empty, or starts with an active
\* waiter; it is empty exactly when no waiter is active, and keeps every active one.
LEMMA PruneInactiveFacts ==
    ASSUME NEW W, NEW q \in Seq(W), NEW out
    PROVE  /\ PruneInactive(q, out) \in Seq(W)
           /\ PruneInactive(q, out) = <<>> <=> ActiveAt(q, out) = {}
           /\ \A i \in 1..Len(PruneInactive(q, out)) :
                 \E j \in 1..Len(q) : PruneInactive(q, out)[i] = q[j]
           /\ PruneInactive(q, out) # <<>> =>
                 /\ Head(PruneInactive(q, out)) \in W
                 /\ InQueue(Head(PruneInactive(q, out)), q)
                 /\ out[Head(PruneInactive(q, out))] = "none"
<1> DEFINE P == PruneInactive(q, out)
<1>1. CASE ActiveAt(q, out) = {}
  BY <1>1 DEF PruneInactive
<1>2. CASE ActiveAt(q, out) # {}
  <2> DEFINE n == Least(ActiveAt(q, out))
  <2>0. ActiveAt(q, out) \subseteq Nat
    BY LenProperties DEF ActiveAt
  <2>1. n \in ActiveAt(q, out)
    BY <1>2, <2>0, LeastIsLeast
  <2>2. n \in 1..Len(q) /\ out[q[n]] = "none" /\ Len(q) \in Nat
    BY <2>1, LenProperties DEF ActiveAt
  <2>3. P = SubSeq(q, n, Len(q))
    BY <1>2 DEF PruneInactive
  <2> HIDE DEF n, P
  <2>4. \A i \in n..Len(q) : q[i] \in W
    BY <2>2, ElementOfSeq
  <2>5. /\ SubSeq(q, n, Len(q)) \in Seq(W)
        /\ Len(SubSeq(q, n, Len(q))) = Len(q) - n + 1
        /\ \A i \in 1..(Len(q) - n + 1) : SubSeq(q, n, Len(q))[i] = q[n + i - 1]
    BY <2>2, <2>4, SubSeqProperties
  <2>6. Head(SubSeq(q, n, Len(q))) = q[n]
    BY <2>2, HeadTailOfSubSeq
  <2>7. \A i \in 1..Len(P) : \E j \in 1..Len(q) : P[i] = q[j]
    BY <2>2, <2>3, <2>5
  <2>8. P # <<>>
    <3>1. Len(P) >= 1
      BY <2>2, <2>3, <2>5
    <3> QED
      BY <3>1, EmptySeq
  <2>9. Head(P) \in W /\ InQueue(Head(P), q) /\ out[Head(P)] = "none"
    BY <2>2, <2>3, <2>4, <2>6 DEF InQueue
  <2> QED
    BY <1>2, <2>3, <2>5, <2>7, <2>8, <2>9 DEF P
<1> QED
  BY <1>1, <1>2

\* s is q without its first n elements.
Cut(q, s, n) == /\ n \in 0..Len(q) /\ Len(s) = Len(q) - n
                /\ \A i \in 1..Len(s) : s[i] = q[i + n]

\* Pruning cuts the inactive waiters off the front: the head that is left was the
\* first active one.
LEMMA PruneCuts ==
    ASSUME NEW W, NEW q \in Seq(W), NEW out
    PROVE  \E n \in 0..Len(q) :
              /\ Cut(q, PruneInactive(q, out), n)
              /\ \A k \in ActiveAt(q, out) : n < k
              /\ PruneInactive(q, out) # <<>> => Head(PruneInactive(q, out)) = q[n + 1]
<1>0. Len(q) \in Nat /\ ActiveAt(q, out) \subseteq Nat
  BY LenProperties DEF ActiveAt
<1>1. CASE ActiveAt(q, out) = {}
  <2>1. PruneInactive(q, out) = <<>> /\ Len(PruneInactive(q, out)) = 0
    BY <1>1 DEF PruneInactive
  <2>2. Len(q) \in 0..Len(q) /\ Len(q) - Len(q) = 0
    BY <1>0
  <2>3. Cut(q, PruneInactive(q, out), Len(q))
    BY <2>1, <2>2 DEF Cut
  <2> QED
    BY <1>1, <2>1, <2>2, <2>3
<1>2. CASE ActiveAt(q, out) # {}
  <2> DEFINE n == Least(ActiveAt(q, out))
             P == PruneInactive(q, out)
  <2>1. n \in ActiveAt(q, out) /\ \A k \in ActiveAt(q, out) : n <= k
    BY <1>0, <1>2, LeastIsLeast
  <2>2. n \in 1..Len(q)
    BY <2>1 DEF ActiveAt
  <2>3. P = SubSeq(q, n, Len(q))
    BY <1>2 DEF PruneInactive
  <2> HIDE DEF n, P
  <2>4. \A i \in n..Len(q) : q[i] \in W
    BY <1>0, <2>2, ElementOfSeq
  <2>5. /\ Len(P) = Len(q) - n + 1
        /\ \A i \in 1..(Len(q) - n + 1) : P[i] = q[n + i - 1]
    BY <1>0, <2>2, <2>3, <2>4, SubSeqProperties
  <2>6. Head(P) = q[n]
    BY <1>0, <2>2, <2>3, HeadTailOfSubSeq
  <2>7. n - 1 \in 0..Len(q) /\ (n - 1) + 1 = n
    BY <1>0, <2>2
  <2>8. Cut(q, P, n - 1)
    <3>1. Len(P) = Len(q) - (n - 1)
      BY <1>0, <2>2, <2>5
    <3>2. ASSUME NEW i \in 1..Len(P) PROVE P[i] = q[i + (n - 1)]
      <4>1. i \in 1..(Len(q) - n + 1) /\ n + i - 1 = i + (n - 1)
        BY <1>0, <2>2, <2>5
      <4> QED
        BY <2>5, <4>1
    <3> QED
      BY <2>7, <3>1, <3>2 DEF Cut
  <2>9. ASSUME NEW k \in ActiveAt(q, out) PROVE n - 1 < k
    <3>1. k \in Nat /\ n <= k
      BY <1>0, <2>1
    <3> QED
      BY <2>2, <1>0, <3>1
  <2> QED
    BY <2>6, <2>7, <2>8, <2>9 DEF P
<1> QED
  BY <1>1, <1>2

\* Cutting one element more off takes the head.
LEMMA CutTail ==
    ASSUME NEW W, NEW q \in Seq(W), NEW s \in Seq(W), s # <<>>, NEW n, Cut(q, s, n)
    PROVE  Cut(q, Tail(s), n + 1)
<1>1. /\ Len(q) \in Nat /\ Len(s) \in Nat /\ Len(Tail(s)) = Len(s) - 1
      /\ \A i \in 1..Len(Tail(s)) : Tail(s)[i] = s[i + 1]
  BY LenProperties, HeadTailProperties
<1>2. Len(s) # 0
  BY EmptySeq
<1>3. /\ n \in 0..Len(q) /\ Len(s) = Len(q) - n
      /\ \A i \in 1..Len(s) : s[i] = q[i + n]
  BY DEF Cut
<1>4. n + 1 \in 0..Len(q) /\ Len(Tail(s)) = Len(q) - (n + 1)
  BY <1>1, <1>2, <1>3
<1>5. ASSUME NEW i \in 1..Len(Tail(s)) PROVE Tail(s)[i] = q[i + (n + 1)]
  <2>1. i + 1 \in 1..Len(s) /\ (i + 1) + n = i + (n + 1)
    BY <1>1, <1>3
  <2> QED
    BY <1>1, <1>3, <2>1
<1> QED
  BY <1>4, <1>5 DEF Cut

\* Pruning puts no waiter twice into a queue.
LEMMA PruneKeepsOnce ==
    ASSUME NEW W, NEW q \in Seq(W), NEW out,
           \A i, j \in 1..Len(q) : q[i] = q[j] => i = j
    PROVE  \A i, j \in 1..Len(PruneInactive(q, out)) :
              PruneInactive(q, out)[i] = PruneInactive(q, out)[j] => i = j
<1>1. CASE ActiveAt(q, out) = {}
  <2>1. Len(PruneInactive(q, out)) = 0
    BY <1>1 DEF PruneInactive
  <2> QED
    BY <2>1
<1>2. CASE ActiveAt(q, out) # {}
  <2> DEFINE n == Least(ActiveAt(q, out))
             P == PruneInactive(q, out)
  <2>1. n \in ActiveAt(q, out)
    <3>1. ActiveAt(q, out) \subseteq Nat
      BY LenProperties DEF ActiveAt
    <3> QED
      BY <1>2, <3>1, LeastIsLeast
  <2>2. n \in 1..Len(q) /\ Len(q) \in Nat
    BY <2>1, LenProperties DEF ActiveAt
  <2>3. P = SubSeq(q, n, Len(q))
    BY <1>2 DEF PruneInactive
  <2> HIDE DEF n, P
  <2>4. \A i \in n..Len(q) : q[i] \in W
    BY <2>2, ElementOfSeq
  <2>5. /\ Len(P) = Len(q) - n + 1
        /\ \A i \in 1..(Len(q) - n + 1) : P[i] = q[n + i - 1]
    BY <2>2, <2>3, <2>4, SubSeqProperties
  <2>6. ASSUME NEW i \in 1..Len(P), NEW j \in 1..Len(P), P[i] = P[j]
        PROVE  i = j
    <3>1. /\ i \in Nat /\ j \in Nat /\ n + i - 1 \in 1..Len(q) /\ n + j - 1 \in 1..Len(q)
          /\ q[n + i - 1] = q[n + j - 1]
      BY <2>2, <2>5, <2>6
    <3>2. n + i - 1 = n + j - 1
      BY <3>1
    <3> QED
      BY <2>2, <3>1, <3>2
  <2> QED
    BY <2>6 DEF P
<1> QED
  BY <1>1, <1>2

\* The active waiters of a queue, in a sequence: each of them, and each once if
\* the queue has none twice.
LEMMA ActiveOfFacts ==
    ASSUME NEW W, NEW q \in Seq(W), NEW out
    PROVE  /\ ActiveOf(q, out) \in Seq(W)
           /\ Len(ActiveOf(q, out)) \in Nat
           /\ \A i \in 1..Len(ActiveOf(q, out)) :
                 \E j \in ActiveAt(q, out) : ActiveOf(q, out)[i] = q[j]
           /\ \A j \in ActiveAt(q, out) :
                 \E i \in 1..Len(ActiveOf(q, out)) : ActiveOf(q, out)[i] = q[j]
           /\ (\A i, j \in 1..Len(q) : q[i] = q[j] => i = j) =>
                 \A i, j \in 1..Len(ActiveOf(q, out)) :
                    ActiveOf(q, out)[i] = ActiveOf(q, out)[j] => i = j
<1> DEFINE A == ActiveAt(q, out)
           n == Cardinality(A)
           S == ActiveOf(q, out)
<1>1. A \subseteq 1..Len(q) /\ A \subseteq Nat /\ IsFiniteSet(A) /\ n \in Nat
  <2>1. Len(q) \in Nat /\ A \subseteq 1..Len(q)
    BY LenProperties DEF ActiveAt
  <2>2. IsFiniteSet(1..Len(q))
    BY <2>1, FS_Interval
  <2> HIDE DEF A
  <2>3. A \subseteq Nat
    BY <2>1
  <2>4. IsFiniteSet(A)
    BY <2>1, <2>2, FS_Subset
  <2> QED
    BY <2>1, <2>3, <2>4, FS_CardinalityType
<1>2. S = [i \in 1..n |-> q[Nth(A, i)]]
  BY DEF ActiveOf
<1> HIDE DEF A, n, S
<1>3. \A i \in 1..n : Nth(A, i) \in A /\ Cardinality(UpTo(A, Nth(A, i))) = i
  BY <1>1, NthInSet DEF n
<1>4. \A a \in A : \E i \in 1..n : Nth(A, i) = a
  BY <1>1, NthOfRank DEF n
<1>5. \A j \in A : q[j] \in W
  BY <1>1, ElementOfSeq
<1>6. S \in [1..n -> W]
  BY <1>2, <1>3, <1>5
<1>7. S \in Seq(W) /\ Len(S) = n
  BY <1>1, <1>6
<1>8. \A i \in 1..n : \E j \in A : S[i] = q[j]
  BY <1>2, <1>3
<1>9. \A j \in A : \E i \in 1..n : S[i] = q[j]
  BY <1>2, <1>4
<1>10. ASSUME \A i, j \in 1..Len(q) : q[i] = q[j] => i = j,
              NEW i \in 1..n, NEW j \in 1..n, S[i] = S[j]
       PROVE  i = j
  <2>1. q[Nth(A, i)] = q[Nth(A, j)]
    BY <1>2, <1>10
  <2>2. Nth(A, i) \in 1..Len(q) /\ Nth(A, j) \in 1..Len(q)
    BY <1>1, <1>3
  <2>3. Nth(A, i) = Nth(A, j)
    BY <1>10, <2>1, <2>2
  <2> QED
    BY <1>3, <2>3
<1> QED
  BY <1>1, <1>7, <1>8, <1>9, <1>10 DEF A, S
=============================================================================
