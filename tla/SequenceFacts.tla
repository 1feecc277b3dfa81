--------------------------- MODULE SequenceFacts ---------------------------
(***************************************************************************)
(* What appending, taking the head and splitting do to a queue whose       *)
(* elements are all different (the queues of OutputPipeline and            *)
(* RawFrameRecorder hold contexts and buffers this way); least and         *)
(* greatest elements; and induction along a sequence, stated with a set    *)
(* instead of a predicate.                                                 *)
(***************************************************************************)
EXTENDS Integers, SequencesExt, FiniteSetTheorems, WellFoundedInduction, TLAPS

(* A set of natural numbers that is not empty has a least element.         *)
LEMMA LeastNumber ==
  ASSUME NEW T \in SUBSET Nat, T # {}
  PROVE  \E x \in T : \A y \in T : x <= y
<1> DEFINE R == OpToRel(<, Nat)
<1>1. IsWellFoundedOn(R, Nat)
  BY NatLessThanWellFounded
<1>2. \A x, y \in Nat : <<y, x>> \in R <=> y < x
  BY DEF OpToRel
<1> HIDE DEF R
<1>3. PICK x \in T : \A y \in T : ~ (<<y, x>> \in R)
  BY <1>1, WFMin
<1>4. \A y \in T : x \in Nat /\ y \in Nat /\ ~ (y < x)
  BY <1>2, <1>3
<1>5. QED
  BY <1>4

(* Induction from 0 to n. *)
LEMMA IntervalInduction ==
  ASSUME NEW n \in Nat, NEW S, 0 \in S, \A i \in 1 .. n : i - 1 \in S => i \in S
  PROVE  \A i \in 0 .. n : i \in S
<1> SUFFICES ASSUME NEW k \in 0 .. n, k \notin S
             PROVE  FALSE
  OBVIOUS
<1> DEFINE T == {i \in 0 .. n : i \notin S}
<1>1. T \in SUBSET Nat /\ T # {}
  OBVIOUS
<1>2. \A i \in T : i \in 0 .. n /\ i \notin S
  OBVIOUS
<1>3. \A i \in 0 .. n : i \notin S => i \in T
  OBVIOUS
<1> HIDE DEF T
<1>4. PICK x \in T : \A y \in T : x <= y
  BY <1>1, LeastNumber
<1>5. x \in 1 .. n /\ x - 1 \in 0 .. n /\ ~(x <= x - 1) /\ x \notin S
  BY <1>2, <1>4
<1>6. x - 1 \in S
  BY <1>3, <1>4, <1>5
<1>7. QED
  BY <1>5, <1>6

(* A bounded set of numbers that is not empty has a greatest element.      *)
LEMMA GreatestNumber ==
  ASSUME NEW n \in Nat, NEW S \in SUBSET (0 .. n), S # {}
  PROVE  Max(S) \in S /\ \A x \in S : x <= Max(S)
<1> DEFINE T == {k \in 0 .. n : n - k \in S}
<1>1. T \in SUBSET Nat /\ T # {}
  <2>1. PICK x \in S : TRUE
    OBVIOUS
  <2>2. n - x \in 0 .. n /\ n - (n - x) = x
    OBVIOUS
  <2>3. n - x \in T
    BY <2>1, <2>2
  <2>4. T \subseteq 0 .. n
    OBVIOUS
  <2> HIDE DEF T
  <2>5. QED
    BY <2>3, <2>4
<1>2. \A k \in T : k \in 0 .. n /\ n - k \in S
  OBVIOUS
<1>3. \A x \in S : x \in 0 .. n /\ n - x \in T
  <2> SUFFICES ASSUME NEW x \in S
               PROVE  x \in 0 .. n /\ n - x \in T
    OBVIOUS
  <2>1. x \in 0 .. n /\ n - x \in 0 .. n /\ n - (n - x) = x
    OBVIOUS
  <2>2. QED
    BY <2>1
<1> HIDE DEF T
<1>4. PICK k \in T : \A j \in T : k <= j
  BY <1>1, LeastNumber
<1>5. n - k \in S /\ \A x \in S : n - k >= x
  BY <1>2, <1>3, <1>4
<1>6. QED
  BY <1>5 DEF Max

LEMMA MaxIs ==
  ASSUME NEW S \in SUBSET Int, NEW m \in S, \A x \in S : x <= m
  PROVE  Max(S) = m
<1>1. \A x \in S : m >= x
  OBVIOUS
<1>2. Max(S) \in S /\ \A x \in S : Max(S) >= x
  BY <1>1 DEF Max
<1>3. Max(S) \in Int /\ m \in Int
  BY <1>2
<1>4. QED
  BY <1>1, <1>2, <1>3

LEMMA MinIs ==
  ASSUME NEW S \in SUBSET Int, NEW m \in S, \A x \in S : m <= x
  PROVE  Min(S) = m
<1>1. \A x \in S : m <= x
  OBVIOUS
<1>2. Min(S) \in S /\ \A x \in S : Min(S) <= x
  BY <1>1 DEF Min
<1>3. Min(S) \in Int /\ m \in Int
  BY <1>2
<1>4. QED
  BY <1>1, <1>2, <1>3

(* Taking the head leaves a shorter sequence without it.                   *)
LEMMA TailFacts ==
  ASSUME NEW S, NEW q \in Seq(S), q # <<>>
  PROVE  /\ Tail(q) \in Seq(S) /\ Len(Tail(q)) = Len(q) - 1
         /\ Head(q) \in S /\ Head(q) \in ToSet(q)
         /\ ToSet(Tail(q)) \subseteq ToSet(q)
         /\ IsInjective(q) => IsInjective(Tail(q)) /\ Head(q) \notin ToSet(Tail(q))
<1>1. Tail(q) \in Seq(S) /\ Len(Tail(q)) = Len(q) - 1 /\ Len(q) \in Nat \ {0}
  OBVIOUS
<1>2. \A i \in 1 .. Len(Tail(q)) : Tail(q)[i] = q[i + 1] /\ i + 1 \in 1 .. Len(q)
  BY <1>1
<1>3. Head(q) = q[1] /\ 1 \in 1 .. Len(q)
  BY <1>1
<1>4. Head(q) \in S /\ Head(q) \in ToSet(q)
  BY <1>1, <1>3 DEF ToSet
<1>5. ToSet(Tail(q)) \subseteq ToSet(q)
  BY <1>1, <1>2 DEF ToSet
<1>6. ASSUME IsInjective(q)
      PROVE  IsInjective(Tail(q)) /\ Head(q) \notin ToSet(Tail(q))
  <2>1. \A i, j \in 1 .. Len(q) : q[i] = q[j] => i = j
    BY <1>6 DEF IsInjective
  <2>2. \A i, j \in 1 .. Len(Tail(q)) : Tail(q)[i] = Tail(q)[j] => i = j
    <3> SUFFICES ASSUME NEW i \in 1 .. Len(Tail(q)), NEW j \in 1 .. Len(Tail(q)),
                        Tail(q)[i] = Tail(q)[j]
                 PROVE  i = j
      OBVIOUS
    <3>1. i + 1 = j + 1
      BY <1>2, <2>1
    <3>2. QED
      BY <1>1, <3>1
  <2>3. \A i \in 1 .. Len(Tail(q)) : Tail(q)[i] # Head(q)
    <3> SUFFICES ASSUME NEW i \in 1 .. Len(Tail(q)), Tail(q)[i] = Head(q)
                 PROVE  FALSE
      OBVIOUS
    <3>1. i + 1 = 1
      BY <1>2, <1>3, <2>1
    <3>2. QED
      BY <1>1, <3>1
  <2>4. QED
    BY <1>1, <2>2, <2>3 DEF IsInjective, ToSet
<1>7. QED
  BY <1>1, <1>4, <1>5, <1>6

(* Appending adds one element, and repeats none that was not there.        *)
LEMMA AppendFacts ==
  ASSUME NEW S, NEW q \in Seq(S), NEW e \in S
  PROVE  /\ Append(q, e) \in Seq(S) /\ Len(Append(q, e)) = Len(q) + 1
         /\ ToSet(Append(q, e)) = ToSet(q) \cup {e}
         /\ IsInjective(q) /\ e \notin ToSet(q) => IsInjective(Append(q, e))
<1> DEFINE r == Append(q, e)
<1>1. r \in Seq(S) /\ Len(r) = Len(q) + 1 /\ Len(q) \in Nat
  OBVIOUS
<1>2. DOMAIN q = 1 .. Len(q) /\ DOMAIN r = 1 .. Len(q) + 1
  BY <1>1
<1>3. r[Len(q) + 1] = e /\ \A i \in 1 .. Len(q) : r[i] = q[i]
  OBVIOUS
<1>4. \A i \in 1 .. Len(q) + 1 : i \in 1 .. Len(q) \/ i = Len(q) + 1
  BY <1>1
<1>5. 1 .. Len(q) \subseteq 1 .. Len(q) + 1 /\ Len(q) + 1 \in 1 .. Len(q) + 1
  BY <1>1
<1> HIDE DEF r
<1>6. ToSet(r) = ToSet(q) \cup {e}
  BY <1>2, <1>3, <1>4, <1>5 DEF ToSet
<1>7. ASSUME IsInjective(q), e \notin ToSet(q)
      PROVE  IsInjective(r)
  <2>1. \A i, j \in 1 .. Len(q) : q[i] = q[j] => i = j
    BY <1>2, <1>7 DEF IsInjective
  <2>2. \A i \in 1 .. Len(q) : q[i] # e
    BY <1>2, <1>7 DEF ToSet
  <2>3. \A i, j \in 1 .. Len(q) + 1 : r[i] = r[j] => i = j
    BY <1>3, <1>4, <2>1, <2>2
  <2>4. QED
    BY <1>2, <2>3 DEF IsInjective
<1>8. QED
  BY <1>1, <1>6, <1>7 DEF r

(* The first n elements and the rest, as TakeBatch splits the queue.       *)
LEMMA SplitFacts ==
  ASSUME NEW S, NEW q \in Seq(S), NEW n \in 1 .. Len(q)
  PROVE  LET a == SubSeq(q, 1, n)
             b == SubSeq(q, n + 1, Len(q))
         IN  /\ a \in Seq(S) /\ Len(a) = n
             /\ b \in Seq(S) /\ Len(b) = Len(q) - n
             /\ \A i \in 1 .. n : a[i] = q[i]
             /\ \A i \in 1 .. Len(q) - n : b[i] = q[n + i]
<1> DEFINE a == SubSeq(q, 1, n)
           b == SubSeq(q, n + 1, Len(q))
<1>1. a \in Seq(S) /\ Len(a) = n /\ \A i \in 1 .. n : a[i] = q[i]
  OBVIOUS
<1>2. b \in Seq(S) /\ Len(b) = Len(q) - n
  OBVIOUS
<1>3. \A i \in 1 .. Len(q) - n : b[i] = q[n + i]
  OBVIOUS
<1>4. QED
  BY <1>1, <1>2, <1>3

(* The two halves of a queue without repetition have no repetition and no  *)
(* element in common, and nothing is lost.                                 *)
LEMMA SplitApart ==
  ASSUME NEW S, NEW q \in Seq(S), NEW n \in 1 .. Len(q), IsInjective(q)
  PROVE  LET a == SubSeq(q, 1, n)
             b == SubSeq(q, n + 1, Len(q))
         IN  /\ IsInjective(a) /\ IsInjective(b)
             /\ ToSet(a) \intersect ToSet(b) = {}
             /\ ToSet(a) \union ToSet(b) = ToSet(q)
<1> DEFINE a == SubSeq(q, 1, n)
           b == SubSeq(q, n + 1, Len(q))
<1>1. /\ DOMAIN a = 1 .. n /\ DOMAIN b = 1 .. Len(q) - n /\ DOMAIN q = 1 .. Len(q)
      /\ \A i \in 1 .. n : a[i] = q[i]
      /\ \A i \in 1 .. Len(q) - n : b[i] = q[n + i]
  BY SplitFacts
<1>2. \A i, j \in 1 .. Len(q) : q[i] = q[j] => i = j
  BY <1>1 DEF IsInjective
<1>3. Len(q) \in Nat /\ n \in Nat /\ n <= Len(q)
  OBVIOUS
<1>4. \A i \in 1 .. n : i \in 1 .. Len(q)
  BY <1>3
<1>5. \A i \in 1 .. Len(q) - n : n + i \in 1 .. Len(q)
  BY <1>3
<1> HIDE DEF a, b
<1>6. IsInjective(a)
  BY <1>1, <1>2, <1>4 DEF IsInjective
<1>7. IsInjective(b)
  <2>1. \A i, j \in 1 .. Len(q) - n : b[i] = b[j] => n + i = n + j
    BY <1>1, <1>2, <1>5
  <2>2. \A i, j \in 1 .. Len(q) - n : n + i = n + j => i = j
    BY <1>3
  <2>3. QED
    BY <1>1, <2>1, <2>2 DEF IsInjective
<1>8. ToSet(a) \intersect ToSet(b) = {}
  <2>1. \A i \in 1 .. n, j \in 1 .. Len(q) - n : i # n + j
    BY <1>3
  <2>2. \A i \in 1 .. n, j \in 1 .. Len(q) - n : a[i] # b[j]
    BY <1>1, <1>2, <1>4, <1>5, <2>1
  <2>3. QED
    BY <1>1, <2>2 DEF ToSet
<1>9. ToSet(a) \union ToSet(b) = ToSet(q)
  <2>1. \A k \in 1 .. Len(q) :
            \/ k \in 1 .. n
            \/ k - n \in 1 .. Len(q) - n /\ k = n + (k - n)
    BY <1>3
  <2>2. ToSet(q) \subseteq ToSet(a) \union ToSet(b)
    <3> SUFFICES ASSUME NEW k \in 1 .. Len(q)
                 PROVE  q[k] \in ToSet(a) \union ToSet(b)
      BY <1>1 DEF ToSet
    <3>1. CASE k \in 1 .. n
      BY <1>1, <3>1 DEF ToSet
    <3>2. CASE k - n \in 1 .. Len(q) - n /\ k = n + (k - n)
      <4>1. b[k - n] = q[k]
        BY <1>1, <3>2
      <4>2. QED
        BY <1>1, <3>2, <4>1 DEF ToSet
    <3>3. QED
      BY <2>1, <3>1, <3>2
  <2>3. ToSet(a) \subseteq ToSet(q) /\ ToSet(b) \subseteq ToSet(q)
    BY <1>1, <1>4, <1>5 DEF ToSet
  <2>4. QED
    BY <2>2, <2>3
<1>10. QED
  BY <1>6, <1>7, <1>8, <1>9 DEF a, b

(* A queue without repetition is as long as the set of its elements.       *)
LEMMA LengthIsCardinality ==
  ASSUME NEW S, IsFiniteSet(S), NEW q \in Seq(S), IsInjective(q)
  PROVE  IsFiniteSet(ToSet(q)) /\ Cardinality(ToSet(q)) = Len(q)
<1> DEFINE n == Len(q)
           T == ToSet(q)
<1>1. n \in Nat /\ DOMAIN q = 1 .. n /\ T \subseteq S
  BY DEF ToSet
<1>2. IsFiniteSet(T)
  BY <1>1, FS_Subset
<1>3. \A i \in 1 .. n : q[i] \in T
  BY <1>1 DEF ToSet
<1>4. q \in [1 .. n -> T]
  <2>1. q \in [1 .. n -> S]
    BY <1>1
  <2>2. QED
    BY <1>3, <2>1
<1>5. \A t \in T : \E i \in 1 .. n : q[i] = t
  BY <1>1 DEF ToSet
<1>6. q \in Injection(1 .. n, T) /\ q \in Surjection(1 .. n, T)
  BY <1>1, <1>4, <1>5 DEF Injection, Surjection
<1> HIDE DEF n, T
<1>7. Cardinality(1 .. n) = Cardinality(T)
  BY <1>2, <1>6, FS_Injection
<1>8. Cardinality(1 .. n) = n
  BY <1>1, FS_Interval
<1>9. QED
  BY <1>2, <1>7, <1>8 DEF n, T
=============================================================================
