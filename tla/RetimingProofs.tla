------------------------------ MODULE RetimingProofs ------------------------------
(***************************************************************************)
(* Proofs about the retiming client.  What the input thread read, and what *)
(* is predicted from it, lies on the steady motion of the subjects, so     *)
(* long as StartOutput replaced no frame under the input thread; and what  *)
(* the getters answer between two calls fits together.                     *)
(*                                                                         *)
(* First come numbers: remainders, ranks in a set of numbers, and what     *)
(* Within keeps of a sequence.  Then prediction, from its arithmetic to    *)
(* the segments of a pose.  Then one lemma for each kind of step of the    *)
(* client, and the inductive invariant, ClientInv.  Last the getters.      *)
(***************************************************************************)
EXTENDS RetimingInv, SequenceTheorems, FiniteSetTheorems, WellFoundedInduction, TLAPS

------------------------------------------------------------------------------
(* Remainders                                                                 *)

\* Division with remainder.
LEMMA Remainder ==
  ASSUME NEW x \in Int, NEW m \in Nat \ {0}
  PROVE  /\ x % m \in Int /\ 0 <= x % m /\ x % m < m
         /\ \E k \in Int : x = k * m + (x % m)
<1>1. x \div m \in Int /\ x % m \in 0..(m - 1)
  OBVIOUS
<1>2. x = m * (x \div m) + (x % m)
  OBVIOUS
<1>3. x = (x \div m) * m + (x % m)
  BY <1>1, <1>2
<1>4. \E k \in Int : x = k * m + (x % m)
  BY <1>1, <1>3, Zenon
<1>5. x % m \in Int /\ 0 <= x % m /\ x % m < m
  BY <1>1
<1> QED
  BY <1>4, <1>5, Zenon

\* A multiple of m that is less than m is zero.
LEMMA NoMultiple ==
  ASSUME NEW m \in Nat \ {0}, NEW k \in Int, -m < k * m, k * m < m
  PROVE  k = 0
<1>1. CASE k >= 1
  <2>1. k * m >= m
    BY <1>1
  <2> QED
    BY <2>1
<1>2. CASE k <= -1
  <2>1. k * m <= -m
    BY <1>2
  <2> QED
    BY <2>1
<1> QED
  BY <1>1, <1>2

\* The remainder of what differs by a multiple is the same.
LEMMA SameRemainder ==
  ASSUME NEW m \in Nat \ {0}, NEW x \in Int, NEW y \in Int, NEW k \in Int, x = y + k * m
  PROVE  x % m = y % m
<1>1. PICK a \in Int : x = a * m + (x % m)
  BY Remainder
<1>2. PICK b \in Int : y = b * m + (y % m)
  BY Remainder
<1>3. x % m \in Int /\ 0 <= x % m /\ x % m < m /\ y % m \in Int /\ 0 <= y % m /\ y % m < m
  BY Remainder
<1>4. (b + k - a) * m = (x % m) - (y % m)
  <2>1. (b + k - a) * m = b * m + k * m - a * m
    OBVIOUS
  <2> QED
    BY <1>1, <1>2, <1>3, <2>1
<1>5. b + k - a = 0
  BY <1>3, <1>4, NoMultiple
<1> QED
  BY <1>3, <1>4, <1>5

\* A number less than m is its own remainder.
LEMMA OwnRemainder ==
  ASSUME NEW m \in Nat \ {0}, NEW x \in Int, 0 <= x, x < m
  PROVE  x % m = x
  OBVIOUS

------------------------------------------------------------------------------
(* Sets of numbers                                                            *)

\* No sequence of natural numbers descends for ever.
LEMMA LessWellFounded == IsWellFoundedOn({p \in Nat \X Nat : p[1] < p[2]}, Nat)
  BY NatLessThanWellFounded, Zenon DEF OpToRel

\* A set of numbers has a least one.
LEMMA LeastOf ==
  ASSUME NEW T \in SUBSET Nat, T # {}
  PROVE  \E n \in T : \A m \in T : n <= m
<1> DEFINE R == {p \in Nat \X Nat : p[1] < p[2]}
<1>1. IsWellFoundedOn(R, Nat)
  BY LessWellFounded
<1>2. PICK x \in T : \A y \in T : ~(<<y, x>> \in R)
  <2> HIDE DEF R
  <2> QED
    BY <1>1, WFMin, Zenon
<1>3. \A m \in T : ~(m < x)
  BY <1>2
<1> QED
  BY <1>3

------------------------------------------------------------------------------
(* The rank of a number in a set of numbers                                   *)

UpTo(K, k) == {j \in K : j <= k}

\* What is in a set up to a number.
LEMMA UpToElement ==
  ASSUME NEW n \in Nat, NEW K \in SUBSET (1..n), NEW k \in Int, NEW j
  PROVE  j \in UpTo(K, k) <=> j \in K /\ j \in 1..n /\ j <= k
<1>1. j \in UpTo(K, k) <=> j \in K /\ j <= k
  BY DEF UpTo
<1>2. j \in K => j \in 1..n
  OBVIOUS
<1> QED
  BY <1>1, <1>2

\* A rank is a number, up to the size of the set.
LEMMA RankType ==
  ASSUME NEW n \in Nat, NEW K \in SUBSET (1..n), NEW k \in 0..n
  PROVE  /\ IsFiniteSet(K) /\ IsFiniteSet(UpTo(K, k))
         /\ Cardinality(K) \in Nat /\ Cardinality(UpTo(K, k)) \in 0..Cardinality(K)
<1>1. IsFiniteSet(1..n)
  BY FS_Interval
<1>2. IsFiniteSet(K)
  BY <1>1, FS_Subset
<1>3. UpTo(K, k) \in SUBSET K
  BY DEF UpTo
<1>4. IsFiniteSet(UpTo(K, k)) /\ Cardinality(UpTo(K, k)) <= Cardinality(K)
  BY <1>2, <1>3, FS_Subset
<1> QED
  BY <1>2, <1>4, FS_CardinalityType

\* One more number in the set, one more in rank.
LEMMA RankStep ==
  ASSUME NEW n \in Nat, NEW K \in SUBSET (1..n), NEW k \in 1..n
  PROVE  Cardinality(UpTo(K, k))
           = IF k \in K THEN Cardinality(UpTo(K, k - 1)) + 1 ELSE Cardinality(UpTo(K, k - 1))
<1>1. k - 1 \in 0..n /\ (\A j \in K : j \in Int)
  OBVIOUS
<1>2. IsFiniteSet(UpTo(K, k - 1))
  BY <1>1, RankType
<1>3. CASE k \in K
  <2>1. UpTo(K, k) = UpTo(K, k - 1) \cup {k} /\ k \notin UpTo(K, k - 1)
    <3>1. ASSUME NEW j PROVE j \in UpTo(K, k) <=> j \in UpTo(K, k - 1) \/ j = k
      <4>1. j \in UpTo(K, k) <=> j \in K /\ j \in 1..n /\ j <= k
        BY UpToElement
      <4>2. j \in UpTo(K, k - 1) <=> j \in K /\ j \in 1..n /\ j <= k - 1
        BY <1>1, UpToElement
      <4> QED
        BY <1>3, <4>1, <4>2
    <3>2. k \notin UpTo(K, k - 1)
      BY <1>1, UpToElement
    <3> QED
      BY <3>1, <3>2, Zenon
  <2> QED
    BY <1>2, <1>3, <2>1, FS_AddElement
<1>4. CASE k \notin K
  <2>1. UpTo(K, k) = UpTo(K, k - 1)
    <3>1. ASSUME NEW j PROVE j \in UpTo(K, k) <=> j \in UpTo(K, k - 1)
      <4>1. j \in UpTo(K, k) <=> j \in K /\ j \in 1..n /\ j <= k
        BY UpToElement
      <4>2. j \in UpTo(K, k - 1) <=> j \in K /\ j \in 1..n /\ j <= k - 1
        BY <1>1, UpToElement
      <4> QED
        BY <1>4, <4>1, <4>2
    <3> QED
      BY <3>1, Zenon
  <2> QED
    BY <1>4, <2>1
<1> QED
  BY <1>3, <1>4

\* Different numbers of a set have different ranks.
LEMMA RankDiffers ==
  ASSUME NEW n \in Nat, NEW K \in SUBSET (1..n), NEW k \in K, NEW m \in K, k < m
  PROVE  Cardinality(UpTo(K, k)) < Cardinality(UpTo(K, m))
<1>1. k \in 0..n /\ m \in 1..n /\ m - 1 \in 0..n /\ (\A j \in K : j \in Int)
  OBVIOUS
<1>2. UpTo(K, k) \in SUBSET UpTo(K, m - 1)
  <2>1. ASSUME NEW j \in UpTo(K, k) PROVE j \in UpTo(K, m - 1)
    <3>1. k \in Int /\ m - 1 \in Int /\ k <= m - 1
      BY <1>1
    <3>2. j \in K /\ j \in 1..n /\ j <= k
      BY <2>1, <3>1, UpToElement
    <3> QED
      BY <3>1, <3>2, UpToElement
  <2> QED
    BY <2>1
<1>3. IsFiniteSet(UpTo(K, m - 1))
  BY <1>1, RankType
<1>4. Cardinality(UpTo(K, k)) <= Cardinality(UpTo(K, m - 1))
  BY <1>2, <1>3, FS_Subset
<1>5. Cardinality(UpTo(K, m)) = Cardinality(UpTo(K, m - 1)) + 1
  BY <1>1, RankStep
<1>6. Cardinality(UpTo(K, k)) \in Nat /\ Cardinality(UpTo(K, m - 1)) \in Nat
  <2>1. IsFiniteSet(UpTo(K, k)) /\ IsFiniteSet(UpTo(K, m - 1))
    BY <1>1, RankType
  <2> QED
    BY <2>1, FS_CardinalityType
<1> QED
  BY <1>4, <1>5, <1>6

\* Every rank up to the size of a set is the rank of a number of it.
LEMMA RankReached ==
  ASSUME NEW n \in Nat, NEW K \in SUBSET (1..n), NEW i \in 1..Cardinality(K)
  PROVE  \E k \in K : Cardinality(UpTo(K, k)) = i
<1> DEFINE T == {k \in 0..n : Cardinality(UpTo(K, k)) >= i}
<1>1. Cardinality(K) \in Nat /\ (\A j \in K : j \in 1..n)
  <2>1. n \in 0..n
    OBVIOUS
  <2> QED
    BY <2>1, RankType
<1>2. n \in T
  <2>1. UpTo(K, n) = K
    <3>1. ASSUME NEW j PROVE j \in UpTo(K, n) <=> j \in K
      <4>1. j \in UpTo(K, n) <=> j \in K /\ j \in 1..n /\ j <= n
        BY UpToElement
      <4>2. j \in K => j \in 1..n
        BY <1>1, Zenon
      <4>3. j \in 1..n => j <= n
        OBVIOUS
      <4> QED
        BY <4>1, <4>2, <4>3, Zenon
    <3> QED
      BY <3>1, Zenon
  <2> QED
    BY <1>1, <2>1
<1>3. PICK k \in T : \A m \in T : k <= m
  <2>1. T \in SUBSET Nat /\ T # {}
    BY <1>2
  <2> HIDE DEF T
  <2> QED
    BY <2>1, LeastOf
<1>4. k # 0
  <2>1. UpTo(K, 0) = {}
    <3>1. \A j : j \notin UpTo(K, 0)
      BY <1>1, UpToElement
    <3> QED
      BY <3>1, Zenon
  <2> QED
    BY <1>1, <2>1, FS_EmptySet
<1>5. k \in 1..n /\ k - 1 \in 0..n /\ k - 1 \notin T
  BY <1>3, <1>4
<1>6. Cardinality(UpTo(K, k - 1)) < i /\ Cardinality(UpTo(K, k)) >= i
  <2>1. Cardinality(UpTo(K, k - 1)) \in Nat
    BY <1>5, <1>1, RankType
  <2> QED
    BY <1>1, <1>5, <2>1
<1>7. Cardinality(UpTo(K, k - 1)) \in Nat
  BY <1>1, <1>5, RankType
<1>8. k \in K /\ Cardinality(UpTo(K, k)) = Cardinality(UpTo(K, k - 1)) + 1
  BY <1>1, <1>5, <1>6, <1>7, RankStep
<1>9. Cardinality(UpTo(K, k)) = i
  BY <1>1, <1>6, <1>7, <1>8
<1> QED
  BY <1>8, <1>9

------------------------------------------------------------------------------
(* The names of a sequence that are in a set                                  *)

KeptPlaces(names, S) == {k \in DOMAIN names : names[k] \in S}

\* Within counts what it keeps, keeps nothing else, and all of it.
LEMMA WithinKept ==
  ASSUME NEW names, Len(names) \in Nat, DOMAIN names = 1..Len(names), NEW S
  PROVE  /\ IsFiniteSet(KeptPlaces(names, S)) /\ Cardinality(KeptPlaces(names, S)) \in Nat
         /\ Len(Within(names, S)) = Cardinality(KeptPlaces(names, S))
         /\ DOMAIN Within(names, S) = 1..Cardinality(KeptPlaces(names, S))
         /\ \A i \in 1..Cardinality(KeptPlaces(names, S)) :
              \E k \in KeptPlaces(names, S) : Within(names, S)[i] = names[k]
         /\ \A k \in KeptPlaces(names, S) :
              \E i \in 1..Cardinality(KeptPlaces(names, S)) : Within(names, S)[i] = names[k]
<1> DEFINE kept == KeptPlaces(names, S)
           n == Len(names)
           N == Cardinality(kept)
           At(i) == CHOOSE k \in kept : Cardinality(UpTo(kept, k)) = i
           Names == {names[k] : k \in kept}
<1>1. kept \in SUBSET (1..n) /\ n \in 0..n /\ n \in Nat
  BY DEF KeptPlaces
<1>2. Within(names, S) = [i \in 1..N |-> names[At(i)]]
  BY DEF Within, UpTo, KeptPlaces
<1> HIDE DEF kept, n
<1>3. IsFiniteSet(kept) /\ N \in Nat
  BY <1>1, RankType
<1>4. ASSUME NEW i \in 1..N PROVE At(i) \in kept /\ Cardinality(UpTo(kept, At(i))) = i
  <2>1. \E k \in kept : Cardinality(UpTo(kept, k)) = i
    BY <1>1, RankReached
  <2> QED
    BY <2>1, Zenon
<1>5. Within(names, S) \in Seq(Names)
  <2>1. \A i \in 1..N : names[At(i)] \in Names
    BY <1>4
  <2> HIDE DEF At, Names, N
  <2> QED
    BY <1>2, <1>3, <2>1 DEF N
<1>6. DOMAIN Within(names, S) = 1..N
  BY <1>2
<1>7. Len(Within(names, S)) = N
  BY <1>3, <1>5, <1>6, LenProperties
<1>8. ASSUME NEW k \in kept PROVE \E i \in 1..N : Within(names, S)[i] = names[k]
  <2> DEFINE i == Cardinality(UpTo(kept, k))
  <2>1. k \in 1..n /\ k - 1 \in 0..n /\ k \in 0..n
    BY <1>1
  <2>2. i \in 0..N /\ Cardinality(UpTo(kept, k - 1)) \in 0..N
    <3>1. \A m \in 0..n : Cardinality(UpTo(kept, m)) \in 0..N
      BY <1>1, RankType
    <3> QED
      BY <2>1, <3>1
  <2>3. i = Cardinality(UpTo(kept, k - 1)) + 1
    BY <1>1, <2>1, RankStep
  <2> HIDE DEF i
  <2>4. i \in 1..N
    BY <1>3, <2>2, <2>3
  <2>5. At(i) \in kept /\ Cardinality(UpTo(kept, At(i))) = i
    BY <1>4, <2>4
  <2> HIDE DEF At
  <2>6. At(i) = k
    <3> DEFINE m == At(i)
    <3> HIDE DEF m
    <3>1. m \in kept /\ Cardinality(UpTo(kept, m)) = i
      BY <2>5 DEF m
    <3>2. m \in Int /\ k \in Int /\ i \in Int
      BY <1>1, <2>4, <3>1
    <3>3. ~(m < k)
      <4>1. m < k => Cardinality(UpTo(kept, m)) < Cardinality(UpTo(kept, k))
        BY <1>1, <3>1, RankDiffers
      <4> QED
        BY <3>1, <3>2, <4>1 DEF i
    <3>4. ~(k < m)
      <4>1. k < m => Cardinality(UpTo(kept, k)) < Cardinality(UpTo(kept, m))
        BY <1>1, <3>1, RankDiffers
      <4> QED
        BY <3>1, <3>2, <4>1 DEF i
    <3> QED
      BY <3>2, <3>3, <3>4 DEF m
  <2> QED
    BY <1>2, <2>4, <2>6
<1>9. ASSUME NEW i \in 1..N PROVE \E k \in kept : Within(names, S)[i] = names[k]
  BY <1>2, <1>4
<1> QED
  BY <1>3, <1>6, <1>7, <1>8, <1>9 DEF kept

------------------------------------------------------------------------------
(* Prediction                                                                 *)

\* A value that moves steadily, and a rotation, in a frame with the numbers divided by over.
Line(a, b, frame, over) == a * over + b * frame
Turning(c, e, frame, over) == (c * over - e * frame) % (FullTurn * over)

\* A prediction lies on the line on which the two values lie.
LEMMA LinePredicted ==
  ASSUME NEW a, NEW b, NEW n1, NEW n2, NEW t1, NEW t2, NEW t,
         a \in Int, b \in Int, n1 \in Int, n2 \in Int, t1 \in Int, t2 \in Int, t \in Int
  PROVE  PredictVal(Line(a, b, n1, 1), t1, Line(a, b, n2, 1), t2, t)
           = Line(a, b, PredictVal(n1, t1, n2, t2, t), t2 - t1)
<1> DEFINE over == t2 - t1
           past == t - t1
<1>1. PredictVal(a + b * n1, t1, a + b * n2, t2, t)
        = (a + b * n1) * over + (b * n2 - b * n1) * past
  BY DEF PredictVal
<1>2. b * PredictVal(n1, t1, n2, t2, t) = b * (n1 * over + (n2 - n1) * past)
  BY DEF PredictVal
<1> HIDE DEF over, past
<1>3. over \in Int /\ past \in Int
  BY DEF over, past
<1>4. (a + b * n1) * over = a * over + b * (n1 * over)
  BY <1>3
<1>5. (b * n2 - b * n1) * past = b * ((n2 - n1) * past)
  BY <1>3
<1>6. b * (n1 * over + (n2 - n1) * past) = b * (n1 * over) + b * ((n2 - n1) * past)
  BY <1>3
<1>7. PredictVal(a + b * n1, t1, a + b * n2, t2, t)
        = a * over + b * PredictVal(n1, t1, n2, t2, t)
  BY <1>1, <1>2, <1>3, <1>4, <1>5, <1>6
<1>8. Line(a, b, n1, 1) = a + b * n1 /\ Line(a, b, n2, 1) = a + b * n2
  BY DEF Line
<1> QED
  BY <1>7, <1>8 DEF over, Line

\* The shorter way from one rotation to another that is less than half a turn away.
LEMMA ShorterWay ==
  ASSUME NEW r1 \in Int, NEW r2 \in Int, NEW d \in Int, NEW k \in Int,
         r2 - r1 = d + k * FullTurn, 2 * d < FullTurn, -FullTurn < 2 * d
  PROVE  AngleBetween(r1, r2) = d
<1>1. FullTurn \in Nat \ {0}
  BY RetimingConstants
<1>2. (r2 - r1) % FullTurn = d % FullTurn
  <2>1. r2 - r1 \in Int
    OBVIOUS
  <2> QED
    BY <1>1, <2>1, SameRemainder, Zenon
<1>3. CASE d >= 0
  <2>1. d % FullTurn = d
    BY <1>1, <1>3, OwnRemainder
  <2> QED
    BY <1>1, <1>2, <2>1 DEF AngleBetween
<1>4. CASE d < 0
  <2>1. d % FullTurn = (d + FullTurn) % FullTurn
    <3>1. d = (d + FullTurn) + (-1) * FullTurn
      BY <1>1
    <3>2. d + FullTurn \in Int /\ -1 \in Int
      BY <1>1
    <3> QED
      BY <1>1, <3>1, <3>2, SameRemainder, Zenon
  <2>2. (d + FullTurn) % FullTurn = d + FullTurn
    BY <1>1, <1>4, OwnRemainder
  <2> QED
    BY <1>1, <1>2, <2>1, <2>2 DEF AngleBetween
<1> QED
  BY <1>3, <1>4

\* Frames are less than half a turn apart.
LEMMA FramesClose ==
  ASSUME NEW n1 \in 1..MaxFrames, NEW n2 \in 1..MaxFrames
  PROVE  2 * (n1 - n2) < FullTurn /\ -FullTurn < 2 * (n1 - n2)
<1>1. MaxFrames \in Nat /\ FullTurn \in Nat /\ 2 * (MaxFrames - 1) < FullTurn
  BY RetimingConstants, ClientConstants, SamplesClose
<1> QED
  BY <1>1

\* So does a rotation, e times one unit a frame, predicted from two frames.
LEMMA RotationPredicted ==
  ASSUME NEW c, NEW e, NEW n1, NEW n2, NEW t1, NEW t2, NEW t,
         c \in Int, e \in 0..1, n1 \in 1..MaxFrames, n2 \in 1..MaxFrames,
         t1 \in Int, t2 \in Int, t \in Int, t1 < t2
  PROVE  PredictRotation(Turning(c, e, n1, 1), t1, Turning(c, e, n2, 1), t2, t)
           = Turning(c, e, PredictVal(n1, t1, n2, t2, t), t2 - t1)
<1> DEFINE over == t2 - t1
           past == t - t1
           r1   == (c - e * n1) % FullTurn
           r2   == (c - e * n2) % FullTurn
           d    == e * (n1 - n2)
<1>1. FullTurn \in Nat \ {0} /\ n1 \in Int /\ n2 \in Int
  BY RetimingConstants
<1>2. over \in Nat \ {0} /\ past \in Int /\ d \in Int
  BY <1>1
<1>3. c - e * n1 \in Int /\ c - e * n2 \in Int
  BY <1>1
<1>4. PICK k1 \in Int : c - e * n1 = k1 * FullTurn + r1
  BY <1>1, <1>3, Remainder
<1>5. PICK k2 \in Int : c - e * n2 = k2 * FullTurn + r2
  BY <1>1, <1>3, Remainder
<1>6. r1 \in Int /\ r2 \in Int
  BY <1>1, <1>3, Remainder
<1>7. PredictRotation(r1, t1, r2, t2, t)
        = (r1 * over + AngleBetween(r1, r2) * past) % (FullTurn * over)
  BY DEF PredictRotation
<1>8. AngleBetween(r1, r2) = d
  <2>1. r2 - r1 = d + (k1 - k2) * FullTurn
    <3>1. (k1 - k2) * FullTurn = k1 * FullTurn - k2 * FullTurn
      BY <1>1
    <3>2. d = (c - e * n2) - (c - e * n1)
      BY <1>1
    <3> HIDE DEF d, r1, r2
    <3> QED
      BY <1>1, <1>2, <1>3, <1>4, <1>5, <1>6, <3>1, <3>2
  <2>2. 2 * d < FullTurn /\ -FullTurn < 2 * d
    <3>1. d = 0 \/ d = n1 - n2
      BY <1>1
    <3> QED
      BY <1>1, <3>1, FramesClose
  <2> QED
    BY <1>2, <1>6, <2>1, <2>2, ShorterWay
<1>9. PredictVal(n1, t1, n2, t2, t) = n1 * over + (n2 - n1) * past
  BY DEF PredictVal
<1> DEFINE frame == n1 * over + (n2 - n1) * past
<1>10. r1 * over + d * past = (c * over - e * frame) + (-k1) * (FullTurn * over)
  <2>1. r1 * over = (c - e * n1) * over - (k1 * FullTurn) * over
    <3>1. r1 = (c - e * n1) - k1 * FullTurn
      BY <1>1, <1>3, <1>4, <1>6
    <3> HIDE DEF r1, over
    <3> QED
      BY <1>1, <1>2, <1>3, <3>1
  <2>2. (k1 * FullTurn) * over = k1 * (FullTurn * over)
    BY <1>1, <1>2
  <2>3. (c - e * n1) * over = c * over - e * (n1 * over)
    BY <1>1, <1>2
  <2>4. d * past = -(e * ((n2 - n1) * past))
    BY <1>1, <1>2
  <2>5. e * frame = e * (n1 * over) + e * ((n2 - n1) * past)
    BY <1>1, <1>2
  <2>6. /\ c * over \in Int /\ e * (n1 * over) \in Int /\ e * ((n2 - n1) * past) \in Int
        /\ k1 * (FullTurn * over) \in Int
        /\ (-k1) * (FullTurn * over) = -(k1 * (FullTurn * over))
    BY <1>1, <1>2
  <2> HIDE DEF r1, d, over, past, frame
  <2> QED
    BY <2>1, <2>2, <2>3, <2>4, <2>5, <2>6
<1>11. frame \in Int /\ FullTurn * over \in Nat \ {0}
  BY <1>1, <1>2
<1>12. (r1 * over + d * past) % (FullTurn * over)
         = (c * over - e * frame) % (FullTurn * over)
  <2> DEFINE x == r1 * over + d * past
             y == c * over - e * frame
             m == FullTurn * over
             k == -k1
  <2>1. x \in Int /\ y \in Int /\ k \in Int /\ m \in Nat \ {0}
    BY <1>1, <1>2, <1>6, <1>11
  <2>2. x = y + k * m
    BY <1>10
  <2> HIDE DEF x, y, m, k
  <2>3. x % m = y % m
    BY <2>1, <2>2, SameRemainder, Zenon
  <2> QED
    BY <2>3 DEF x, y, m
<1>13. Turning(c, e, n1, 1) = r1 /\ Turning(c, e, n2, 1) = r2
  <2>1. c * 1 = c /\ FullTurn * 1 = FullTurn
    BY <1>1
  <2> QED
    BY <2>1, Zenon DEF Turning
<1> QED
  BY <1>7, <1>8, <1>9, <1>12, <1>13, Zenon DEF Turning

------------------------------------------------------------------------------
(* The motion of a segment                                                    *)

\* The names of a subject's segments are a sequence.
LEMMA SubjectKnown ==
  ASSUME NEW s \in Subjects
  PROVE  /\ s \in DOMAIN SegmentNames
         /\ SegmentNames[s] \in Seq(Segments(s))
         /\ Len(SegmentNames[s]) \in Nat
         /\ DOMAIN SegmentNames[s] = 1..Len(SegmentNames[s])
<1>1. s \in DOMAIN SegmentNames
  BY RetimingConstants DEF Subjects
<1>2. SegmentNames[s] \in Seq(Segments(s))
  BY <1>1, RetimingConstants DEF Segments
<1> QED
  BY <1>1, <1>2

\* The empty name is no subject's and no segment's.
LEMMA NoNameUnknown ==
  /\ NoName \notin Subjects
  /\ \A s \in Subjects : NoName \notin Segments(s) /\ NamesFor(s) = Segments(s) \cup {NoName}
<1>1. NoName \notin Subjects
  BY SubjectKnown, RetimingConstants
<1>2. ASSUME NEW s \in Subjects PROVE NoName \notin Segments(s)
  BY SubjectKnown, RetimingConstants DEF Segments
<1> QED
  BY <1>1, <1>2 DEF NamesFor

\* The segments of a pose have names that there are.
LEMMA NamesKnown ==
  ASSUME NEW s, NEW pose, ReadPose(s, pose)
  PROVE  DOMAIN pose.segments \subseteq NamesFor(s)
  BY DEF ReadPose, NamesOf

\* The parent of a segment is a segment of the subject, too.
LEMMA AboveKnown ==
  ASSUME NEW s \in Subjects, NEW g \in Segments(s)
  PROVE  Place(s, g) \in Nat /\ (Above(s, g) = NoName \/ Above(s, g) \in Segments(s))
<1>1. s \in DOMAIN SegmentNames /\ DOMAIN SegmentNames[s] = 1..Len(SegmentNames[s])
      /\ Len(SegmentNames[s]) \in Nat
  BY SubjectKnown
<1>2. PICK i \in DOMAIN SegmentNames[s] : SegmentNames[s][i] = g
  BY DEF Segments
<1>3. Place(s, g) \in DOMAIN SegmentNames[s]
  BY <1>2, Zenon DEF Place
<1>4. \/ SegmentParents[s][SegmentNames[s][i]] = NoName
      \/ \E j \in 1..(i - 1) : SegmentParents[s][SegmentNames[s][i]] = SegmentNames[s][j]
  BY <1>1, RetimingConstants, Zenon
<1>5. 1..(i - 1) \subseteq DOMAIN SegmentNames[s]
  BY <1>1
<1> QED
  BY <1>1, <1>2, <1>3, <1>4, <1>5 DEF Above, Segments

\* A segment's place below its parent lies on a line, too.
LEMMA TrueTRelForm ==
  ASSUME NEW s \in Subjects, NEW g \in Segments(s)
  PROVE  \E a, b \in Int : \A frame, over \in Int :
           TrueTRel(s, g, frame, over) = Line(a, b, frame, over)
<1>1. Place(s, g) \in Int
  BY AboveKnown
<1>2. CASE Above(s, g) = NoName
  <2>1. \A frame, over \in Int : TrueTRel(s, g, frame, over) = Line(2, Place(s, g), frame, over)
    BY <1>1, <1>2 DEF TrueTRel, TrueT, Line
  <2>2. 2 \in Int
    OBVIOUS
  <2> QED
    BY <1>1, <2>1, <2>2, Zenon
<1>3. CASE Above(s, g) # NoName
  <2>1. Place(s, Above(s, g)) \in Int
    BY <1>3, AboveKnown
  <2> DEFINE b == Place(s, g) - Place(s, Above(s, g))
  <2>2. ASSUME NEW frame \in Int, NEW over \in Int
        PROVE  TrueTRel(s, g, frame, over) = Line(0, b, frame, over)
    <3>1. b * frame = Place(s, g) * frame - Place(s, Above(s, g)) * frame
      BY <1>1, <2>1
    <3> QED
      BY <1>1, <1>3, <2>1, <3>1 DEF TrueTRel, TrueT, Line
  <2>3. 0 \in Int /\ b \in Int
    BY <1>1, <2>1
  <2> HIDE DEF b
  <2> QED
    BY <2>2, <2>3, Zenon
<1> QED
  BY <1>2, <1>3

\* A segment turns by one unit a frame,
LEMMA TrueRForm ==
  ASSUME NEW s \in Subjects, NEW g \in Segments(s), NEW frame \in Int, NEW over \in Int
  PROVE  TrueR(s, g, frame, over) = Turning(Place(s, g), 1, frame, over)
  BY DEF TrueR, Turning

\* and below its parent not at all, or, a root, by one unit, too.
LEMMA TrueRRelForm ==
  ASSUME NEW s \in Subjects, NEW g \in Segments(s)
  PROVE  \E c \in Int, e \in 0..1 : \A frame \in Int, over \in Nat \ {0} :
           TrueRRel(s, g, frame, over) = Turning(c, e, frame, over)
<1>1. Place(s, g) \in Int /\ FullTurn \in Nat \ {0}
  BY AboveKnown, RetimingConstants
<1>2. ASSUME NEW p \in Int, NEW frame \in Int, NEW over \in Nat \ {0}
      PROVE  p * over - frame \in Int /\ FullTurn * over \in Nat \ {0}
  BY <1>1
<1>3. CASE Above(s, g) = NoName
  <2>1. ASSUME NEW frame \in Int, NEW over \in Nat \ {0}
        PROVE  TrueRRel(s, g, frame, over) = Turning(Place(s, g), 1, frame, over)
    <3> DEFINE r == Place(s, g) * over - frame
               m == FullTurn * over
    <3>1. r \in Int /\ m \in Nat \ {0}
      BY <1>1, <1>2
    <3>2. TrueRRel(s, g, frame, over) = ((r % m) - 0) % m
      BY <1>3 DEF TrueRRel, TrueR
    <3>3. r = Place(s, g) * over - 1 * frame
      OBVIOUS
    <3> HIDE DEF r, m
    <3>4. r % m \in Int /\ 0 <= r % m /\ r % m < m
      BY <3>1, Remainder
    <3>5. (r % m) - 0 = r % m
      BY <3>4
    <3>6. (r % m) % m = r % m
      BY <3>1, <3>4, OwnRemainder
    <3>7. TrueRRel(s, g, frame, over) = r % m
      BY <3>2, <3>5, <3>6
    <3> QED
      BY <3>3, <3>7, Zenon DEF m, Turning
  <2>2. 1 \in 0..1
    OBVIOUS
  <2> QED
    BY <1>1, <2>1, <2>2, Zenon
<1>4. CASE Above(s, g) # NoName
  <2>1. Place(s, Above(s, g)) \in Int
    BY <1>4, AboveKnown
  <2> DEFINE c == Place(s, g) - Place(s, Above(s, g))
  <2>2. ASSUME NEW frame \in Int, NEW over \in Nat \ {0}
        PROVE  TrueRRel(s, g, frame, over) = Turning(c, 0, frame, over)
    <3> DEFINE x == Place(s, g) * over - frame
               y == Place(s, Above(s, g)) * over - frame
               m == FullTurn * over
    <3>1. x \in Int /\ y \in Int /\ m \in Nat \ {0}
      BY <1>1, <1>2, <2>1
    <3>2. TrueRRel(s, g, frame, over) = ((x % m) - (y % m)) % m
      BY <1>4 DEF TrueRRel, TrueR
    <3>3. c * over - 0 * frame = x - y
      BY <1>1, <2>1
    <3> HIDE DEF x, y, m
    <3>4. PICK a \in Int : x = a * m + (x % m)
      BY <3>1, Remainder
    <3>5. PICK b \in Int : y = b * m + (y % m)
      BY <3>1, Remainder
    <3>6. x % m \in Int /\ y % m \in Int
      BY <3>1, Remainder
    <3> DEFINE u == (x % m) - (y % m)
               w == x - y
               k == b - a
    <3>7. w = u + a * m - b * m
      BY <3>1, <3>4, <3>5, <3>6
    <3>8. k * m = b * m - a * m
      BY <3>1
    <3>9. u = w + k * m
      BY <3>1, <3>6, <3>7, <3>8
    <3>10. u \in Int /\ w \in Int /\ k \in Int
      BY <3>1, <3>6
    <3> HIDE DEF u, w, k
    <3>11. u % m = w % m
      BY <3>1, <3>9, <3>10, SameRemainder, Zenon
    <3> QED
      BY <3>2, <3>3, <3>11, Zenon DEF u, w, m, Turning
  <2>3. c \in Int /\ 0 \in 0..1
    BY <1>1, <2>1
  <2> HIDE DEF c
  <2> QED
    BY <2>2, <2>3, Zenon
<1> QED
  BY <1>3, <1>4

\* A segment predicted from where it was in two frames is where it is on its motion.
LEMMA SegmentPredicted ==
  ASSUME NEW s \in Subjects, NEW g \in Segments(s), NEW n1, NEW n2, NEW t1, NEW t2, NEW t,
         n1 \in 1..MaxFrames, n2 \in 1..MaxFrames,
         t1 \in Int, t2 \in Int, t \in Int, t1 < t2
  PROVE  LET over  == t2 - t1
             frame == PredictVal(n1, t1, n2, t2, t)
         IN  /\ over \in Nat \ {0} /\ frame \in Int
             /\ PredictVal(TrueT(s, g, n1, 1), t1, TrueT(s, g, n2, 1), t2, t)
                  = TrueT(s, g, frame, over)
             /\ PredictVal(TrueTRel(s, g, n1, 1), t1, TrueTRel(s, g, n2, 1), t2, t)
                  = TrueTRel(s, g, frame, over)
             /\ PredictRotation(TrueR(s, g, n1, 1), t1, TrueR(s, g, n2, 1), t2, t)
                  = TrueR(s, g, frame, over)
             /\ PredictRotation(TrueRRel(s, g, n1, 1), t1, TrueRRel(s, g, n2, 1), t2, t)
                  = TrueRRel(s, g, frame, over)
<1> DEFINE over  == t2 - t1
           frame == PredictVal(n1, t1, n2, t2, t)
<1>1. over \in Nat \ {0}
  OBVIOUS
<1>2. n1 \in Int /\ n2 \in Int /\ 1 \in Int /\ 1 \in Nat \ {0} /\ 1 \in 0..1 /\ 2 \in Int
  OBVIOUS
<1>3. frame \in Int
  BY <1>2 DEF PredictVal
<1>4. Place(s, g) \in Int
  BY AboveKnown
<1> HIDE DEF over, frame
<1>6. \A a, b \in Int :
        PredictVal(Line(a, b, n1, 1), t1, Line(a, b, n2, 1), t2, t) = Line(a, b, frame, over)
  BY <1>2, LinePredicted DEF over, frame
<1>7. \A c \in Int, e \in 0..1 :
        PredictRotation(Turning(c, e, n1, 1), t1, Turning(c, e, n2, 1), t2, t)
          = Turning(c, e, frame, over)
  BY RotationPredicted DEF over, frame
<1>8. PredictVal(TrueT(s, g, n1, 1), t1, TrueT(s, g, n2, 1), t2, t) = TrueT(s, g, frame, over)
  <2>1. \A f, o \in Int : TrueT(s, g, f, o) = Line(2, Place(s, g), f, o)
    BY <1>4 DEF TrueT, Line
  <2> QED
    BY <1>1, <1>2, <1>3, <1>4, <1>6, <2>1
<1>9. PredictVal(TrueTRel(s, g, n1, 1), t1, TrueTRel(s, g, n2, 1), t2, t)
        = TrueTRel(s, g, frame, over)
  <2>1. PICK a, b \in Int : \A f, o \in Int : TrueTRel(s, g, f, o) = Line(a, b, f, o)
    BY TrueTRelForm, Zenon
  <2> QED
    BY <1>1, <1>2, <1>3, <1>6, <2>1
<1>10. PredictRotation(TrueR(s, g, n1, 1), t1, TrueR(s, g, n2, 1), t2, t)
        = TrueR(s, g, frame, over)
  BY <1>1, <1>2, <1>3, <1>4, <1>7, TrueRForm
<1>11. PredictRotation(TrueRRel(s, g, n1, 1), t1, TrueRRel(s, g, n2, 1), t2, t)
        = TrueRRel(s, g, frame, over)
  <2>1. PICK c \in Int, e \in 0..1 : \A f \in Int, o \in Nat \ {0} :
          TrueRRel(s, g, f, o) = Turning(c, e, f, o)
    BY TrueRRelForm, Zenon
  <2> QED
    BY <1>1, <1>2, <1>3, <1>7, <2>1
<1> QED
  BY <1>1, <1>3, <1>8, <1>9, <1>10, <1>11 DEF over, frame

\* A prediction that succeeds.
LEMMA Predicts ==
  ASSUME NEW p1, NEW p2, NEW t, Predict(p1, p2, t).result = "ESuccess"
  PROVE  LET t1 == p1.receipt
             t2 == p2.receipt
             pose == Predict(p1, p2, t)
         IN  /\ pose.receipt = t /\ pose.over = t2 - t1
             /\ pose.frame = PredictVal(p1.frame, t1, p2.frame, t2, t)
             /\ DOMAIN pose.segments = DOMAIN p1.segments \cap DOMAIN p2.segments
             /\ \A g \in DOMAIN pose.segments :
                  LET s1 == p1.segments[g]
                      s2 == p2.segments[g]
                  IN  pose.segments[g] =
                        [T        |-> PredictVal(s1.T, t1, s2.T, t2, t),
                         R        |-> PredictRotation(s1.R, t1, s2.R, t2, t),
                         T_Rel    |-> PredictVal(s1.T_Rel, t1, s2.T_Rel, t2, t),
                         R_Rel    |-> PredictRotation(s1.R_Rel, t1, s2.R_Rel, t2, t),
                         whole    |-> s1.whole /\ s2.whole,
                         occluded |-> s1.occluded \/ s2.occluded]
<1> DEFINE r == PredictResult(p1.receipt, p2.receipt, t)
<1>1. CASE r # "ESuccess"
  <2>1. Predict(p1, p2, t) = Failed(r)
    BY <1>1 DEF Predict
  <2>2. Failed(r).result = r
    BY DEF Failed
  <2> QED
    BY <1>1, <2>1, <2>2
<1>2. CASE r = "ESuccess"
  BY <1>2 DEF Predict
<1> QED
  BY <1>1, <1>2

\* A pose predicted from two true ones is true.
LEMMA PredictTrue ==
  ASSUME NEW s \in Subjects, NEW p1, NEW p2, NEW t \in Int,
         ReadPose(s, p1), ReadPose(s, p2), TruePose(s, p1), TruePose(s, p2),
         p1.frame \in 1..MaxFrames, p2.frame \in 1..MaxFrames, p1.receipt < p2.receipt,
         Predict(p1, p2, t).result = "ESuccess"
  PROVE  /\ Predict(p1, p2, t).over \in Nat \ {0}
         /\ Predict(p1, p2, t).frame \in Int
         /\ TruePose(s, Predict(p1, p2, t))
<1> DEFINE pose == Predict(p1, p2, t)
           t1 == p1.receipt
           t2 == p2.receipt
<1>1. t1 \in Int /\ t2 \in Int /\ p1.over = 1 /\ p2.over = 1
  BY DEF ReadPose
<1>2. /\ pose.over = t2 - t1 /\ pose.frame = PredictVal(p1.frame, t1, p2.frame, t2, t)
      /\ DOMAIN pose.segments = DOMAIN p1.segments \cap DOMAIN p2.segments
  BY Predicts
<1>3. pose.over \in Nat \ {0} /\ pose.frame \in Int
  BY <1>1, <1>2 DEF PredictVal
<1>4. ASSUME NEW g \in DOMAIN pose.segments, pose.segments[g].whole
      PROVE  TrueSegment(s, g, pose)
  <2> DEFINE s1 == p1.segments[g]
             s2 == p2.segments[g]
             q  == pose.segments[g]
  <2>1. q = [T        |-> PredictVal(s1.T, t1, s2.T, t2, t),
             R        |-> PredictRotation(s1.R, t1, s2.R, t2, t),
             T_Rel    |-> PredictVal(s1.T_Rel, t1, s2.T_Rel, t2, t),
             R_Rel    |-> PredictRotation(s1.R_Rel, t1, s2.R_Rel, t2, t),
             whole    |-> s1.whole /\ s2.whole,
             occluded |-> s1.occluded \/ s2.occluded]
    BY Predicts
  <2>2. s1.whole /\ s2.whole
    <3> HIDE DEF q, s1, s2
    <3>1. q.whole <=> s1.whole /\ s2.whole
      BY <2>1
    <3> QED
      BY <1>4, <3>1 DEF q
  <2>3. g \in DOMAIN p1.segments /\ g \in DOMAIN p2.segments
    BY <1>2
  <2>4. TrueSegment(s, g, p1) /\ TrueSegment(s, g, p2)
    BY <2>2, <2>3 DEF TruePose
  <2>5. g \in Segments(s)
    <3>1. g \in NamesFor(s)
      BY <2>3, NamesKnown
    <3>2. g # NoName
      BY <2>2, <2>3 DEF ReadPose, Zero
    <3> QED
      BY <3>1, <3>2, NoNameUnknown
  <2>6. /\ q.T = TrueT(s, g, pose.frame, pose.over)
        /\ q.R = TrueR(s, g, pose.frame, pose.over)
        /\ q.T_Rel = TrueTRel(s, g, pose.frame, pose.over)
        /\ q.R_Rel = TrueRRel(s, g, pose.frame, pose.over)
    <3>1. /\ q.T = PredictVal(s1.T, t1, s2.T, t2, t)
          /\ q.R = PredictRotation(s1.R, t1, s2.R, t2, t)
          /\ q.T_Rel = PredictVal(s1.T_Rel, t1, s2.T_Rel, t2, t)
          /\ q.R_Rel = PredictRotation(s1.R_Rel, t1, s2.R_Rel, t2, t)
      BY <2>1
    <3>2. /\ s1.T = TrueT(s, g, p1.frame, 1) /\ s1.R = TrueR(s, g, p1.frame, 1)
          /\ s1.T_Rel = TrueTRel(s, g, p1.frame, 1) /\ s1.R_Rel = TrueRRel(s, g, p1.frame, 1)
          /\ s2.T = TrueT(s, g, p2.frame, 1) /\ s2.R = TrueR(s, g, p2.frame, 1)
          /\ s2.T_Rel = TrueTRel(s, g, p2.frame, 1) /\ s2.R_Rel = TrueRRel(s, g, p2.frame, 1)
      BY <1>1, <2>4 DEF TrueSegment
    <3> HIDE DEF q, s1, s2, pose
    <3>3. LET n1 == p1.frame
              n2 == p2.frame
          IN  /\ PredictVal(TrueT(s, g, n1, 1), t1, TrueT(s, g, n2, 1), t2, t)
                   = TrueT(s, g, pose.frame, pose.over)
              /\ PredictVal(TrueTRel(s, g, n1, 1), t1, TrueTRel(s, g, n2, 1), t2, t)
                   = TrueTRel(s, g, pose.frame, pose.over)
              /\ PredictRotation(TrueR(s, g, n1, 1), t1, TrueR(s, g, n2, 1), t2, t)
                   = TrueR(s, g, pose.frame, pose.over)
              /\ PredictRotation(TrueRRel(s, g, n1, 1), t1, TrueRRel(s, g, n2, 1), t2, t)
                   = TrueRRel(s, g, pose.frame, pose.over)
      BY <1>1, <1>2, <2>5, SegmentPredicted
    <3> HIDE DEF t1, t2
    <3> QED
      BY <3>1, <3>2, <3>3, Zenon
  <2> QED
    BY <2>6 DEF TrueSegment
<1> QED
  BY <1>3, <1>4 DEF TruePose

------------------------------------------------------------------------------
(* The steps of the client                                                    *)

\* What the input thread reads of a name in the frame there is.
Reading(s, pose) ==
    /\ pose.result = "ESuccess" /\ pose.over = 1
    /\ pose.receipt = held.receipt /\ pose.frame = held.frame
    /\ pose.names \in Seq(NamesFor(s))
    /\ FirstNamed(s, pose)
    /\ DOMAIN pose.segments = NamesOf(pose)
    /\ \A g \in DOMAIN pose.segments :
          IF g = NoName THEN pose.segments[g] = Zero
          ELSE \E k \in 0..Statics : pose.segments[g] = GetSegment(s, g, k)

\* A pose of the first so many segments, or of none.
LEMMA SubjectReading ==
  ASSUME NEW s, NEW root, NEW names \in Seq(NamesFor(s)), NEW read,
         \A g \in NamesFor(s) \ {NoName} : read[g] \in 0..Statics,
         \/ names = << >>
         \/ root = RootOf(s) /\ \E n \in 0..Len(SegmentNames[s]) : names = FirstNames(s, n)
  PROVE  Reading(s, ReadSubject(s, root, names, read))
<1> DEFINE pose == ReadSubject(s, root, names, read)
<1>1. /\ pose.result = "ESuccess" /\ pose.over = 1
      /\ pose.receipt = held.receipt /\ pose.frame = held.frame
      /\ pose.root = root /\ pose.names = names
      /\ pose.segments = [g \in {names[i] : i \in DOMAIN names} |->
                            IF g = NoName THEN Zero ELSE GetSegment(s, g, read[g])]
  BY DEF ReadSubject
<1> HIDE DEF pose
<1>2. DOMAIN pose.segments = NamesOf(pose) /\ NamesOf(pose) \subseteq NamesFor(s)
  BY <1>1 DEF NamesOf
<1>3. FirstNamed(s, pose)
  BY <1>1, Zenon DEF FirstNamed
<1>4. ASSUME NEW g \in DOMAIN pose.segments
      PROVE  IF g = NoName THEN pose.segments[g] = Zero
             ELSE \E k \in 0..Statics : pose.segments[g] = GetSegment(s, g, k)
  <2>1. pose.segments[g] = IF g = NoName THEN Zero ELSE GetSegment(s, g, read[g])
    BY <1>1
  <2>2. g # NoName => read[g] \in 0..Statics
    BY <1>2
  <2> QED
    BY <2>1, <2>2, Zenon
<1> QED
  BY <1>1, <1>2, <1>3, <1>4 DEF Reading, pose

\* Of the first so many segments the names are names that there are.
LEMMA FirstNamesKnown ==
  ASSUME NEW s \in Subjects, NEW n \in Int
  PROVE  FirstNames(s, n) \in Seq(NamesFor(s))
<1>1. /\ SegmentNames[s] \in Seq(Segments(s)) /\ Len(SegmentNames[s]) \in Nat
      /\ DOMAIN SegmentNames[s] = 1..Len(SegmentNames[s])
  BY SubjectKnown
<1>2. NamesFor(s) = Segments(s) \cup {NoName}
  BY NoNameUnknown
<1> QED
  BY <1>1, <1>2 DEF FirstNames

\* A frame read to its end.
LEMMA WholeReading ==
  ASSUME NEW S \in SUBSET Subjects, NEW s \in S
  PROVE  /\ Reading(s, ReadSubjects(S)[s])
         /\ DOMAIN ReadSubjects(S)[s].segments = Segments(s)
         /\ \A g \in Segments(s) : ReadSubjects(S)[s].segments[g] = GetSegment(s, g, Statics)
<1> DEFINE names == SegmentNames[s]
           n == Len(SegmentNames[s])
<1>1. /\ s \in Subjects /\ names \in Seq(Segments(s)) /\ n \in Nat /\ DOMAIN names = 1..n
  BY SubjectKnown
<1>2. NamesFor(s) = Segments(s) \cup {NoName} /\ NoName \notin Segments(s)
  BY <1>1, NoNameUnknown
<1>3. names = FirstNames(s, n)
  BY <1>1 DEF FirstNames
<1>4. names \in Seq(NamesFor(s)) /\ n \in 0..n
  BY <1>1, <1>2
<1>5. \A g \in Segments(s) : AllParts(s)[g] = Statics /\ Statics \in 0..Statics
  BY DEF AllParts, Statics
<1>6. ReadSubjects(S)[s] = ReadSubject(s, RootOf(s), names, AllParts(s))
  BY DEF ReadSubjects
<1>7. \A g \in NamesFor(s) \ {NoName} : AllParts(s)[g] \in 0..Statics
  BY <1>2, <1>5
<1>8. \E m \in 0..Len(SegmentNames[s]) : names = FirstNames(s, m)
  BY <1>3, <1>4
<1>9. Segments(s) = {names[i] : i \in DOMAIN names}
  BY DEF Segments
<1>10. ReadSubject(s, RootOf(s), names, AllParts(s)).segments
         = [g \in Segments(s) |-> IF g = NoName THEN Zero ELSE GetSegment(s, g, AllParts(s)[g])]
  BY <1>9 DEF ReadSubject
<1> HIDE DEF names
<1>11. Reading(s, ReadSubject(s, RootOf(s), names, AllParts(s)))
  BY <1>4, <1>7, <1>8, SubjectReading
<1> QED
  BY <1>2, <1>5, <1>6, <1>10, <1>11

\* A subject of whom the reading broke off.
LEMMA CutReading ==
  ASSUME NEW s \in Subjects, NEW pose \in CutPoses(s)
  PROVE  Reading(s, pose)
<1> DEFINE n == Len(SegmentNames[s])
<1>1. n \in Nat /\ DOMAIN SegmentNames[s] = 1..n /\ Cuts \subseteq 0..Statics
  BY SubjectKnown, ClientConstants
<1>2. NamesFor(s) = Segments(s) \cup {NoName} /\ NoName \notin Segments(s)
  BY NoNameUnknown
<1>3. \A g \in NamesFor(s) \ {NoName} : AllParts(s)[g] \in 0..Statics
  BY <1>2 DEF AllParts, Statics
<1>4. << >> \in Seq(NamesFor(s))
  OBVIOUS
<1>5. ASSUME NEW i \in 0..n, NEW read,
             \A g \in NamesFor(s) \ {NoName} : read[g] \in 0..Statics
      PROVE  Reading(s, ReadSubject(s, RootOf(s), FirstNames(s, i), read))
  <2>1. FirstNames(s, i) \in Seq(NamesFor(s))
    BY FirstNamesKnown
  <2> QED
    BY <1>5, <2>1, SubjectReading
<1>6. CASE pose \in {ReadSubject(s, root, << >>, AllParts(s)) : root \in {NoName, RootOf(s)}}
  BY <1>3, <1>4, <1>6, SubjectReading
<1>7. CASE pose = ReadSubject(s, RootOf(s), FirstNames(s, 0), AllParts(s))
  <2>1. 0 \in 0..n
    BY <1>1
  <2> QED
    BY <1>3, <1>5, <1>7, <2>1
<1>8. ASSUME NEW i \in DOMAIN SegmentNames[s], NEW k \in Cuts,
             pose = ReadSubject(s, RootOf(s), FirstNames(s, i),
                                [AllParts(s) EXCEPT ![SegmentNames[s][i]] = k])
      PROVE  Reading(s, pose)
  <2> DEFINE read == [AllParts(s) EXCEPT ![SegmentNames[s][i]] = k]
  <2>1. i \in 0..n /\ k \in 0..Statics
    BY <1>1
  <2>2. ASSUME NEW g \in NamesFor(s) \ {NoName} PROVE read[g] \in 0..Statics
    BY <1>2, <1>3, <2>1 DEF AllParts
  <2> HIDE DEF read
  <2> QED
    BY <1>5, <1>8, <2>1, <2>2 DEF read
<1> QED
  BY <1>6, <1>7, <1>8, Zenon DEF CutPoses

\* A subject of whom nothing could be read.
LEMMA NamelessReading == Reading(NoName, Nameless)
<1>1. << >> \in Seq(NamesFor(NoName)) /\ NamesFor(NoName) = {}
  BY DEF NamesFor
<1> QED
  BY <1>1, SubjectReading DEF Nameless

\* A segment whose poses are read is true of the frame that the client has.
LEMMA SegmentRead ==
  ASSUME NEW s, NEW g, NEW k \in 0..Statics
  PROVE  /\ GetSegment(s, g, k).whole \in BOOLEAN /\ GetSegment(s, g, k).occluded \in BOOLEAN
         /\ k = Statics => GetSegment(s, g, k).whole
         /\ GetSegment(s, g, k).whole /\ ~GetSegment(s, g, k).occluded =>
              /\ GetSegment(s, g, k).T = TrueT(s, g, latest.number, 1)
              /\ GetSegment(s, g, k).R = TrueR(s, g, latest.number, 1)
              /\ GetSegment(s, g, k).T_Rel = TrueTRel(s, g, latest.number, 1)
              /\ GetSegment(s, g, k).R_Rel = TrueRRel(s, g, latest.number, 1)
<1> DEFINE there == k >= Poses
           hidden == g \in latest.shown[s]
           Pose(value) == IF there /\ ~hidden THEN value ELSE 0
<1>1. there \in BOOLEAN /\ hidden \in BOOLEAN /\ (k = Statics => there)
  BY DEF Poses, Statics
<1>2. GetSegment(s, g, k) =
        [read     |-> k,
         T        |-> Pose(TrueT(s, g, latest.number, 1)),
         R        |-> Pose(TrueR(s, g, latest.number, 1)),
         T_Rel    |-> Pose(TrueTRel(s, g, latest.number, 1)),
         R_Rel    |-> Pose(TrueRRel(s, g, latest.number, 1)),
         whole    |-> there,
         occluded |-> there /\ hidden]
  BY Zenon DEF GetSegment
<1> HIDE DEF there, hidden
<1>3. GetSegment(s, g, k).whole = there /\ GetSegment(s, g, k).occluded = (there /\ hidden)
  BY <1>2
<1>4. ASSUME there /\ ~hidden
      PROVE  /\ GetSegment(s, g, k).T = TrueT(s, g, latest.number, 1)
             /\ GetSegment(s, g, k).R = TrueR(s, g, latest.number, 1)
             /\ GetSegment(s, g, k).T_Rel = TrueTRel(s, g, latest.number, 1)
             /\ GetSegment(s, g, k).R_Rel = TrueRRel(s, g, latest.number, 1)
  BY <1>2, <1>4
<1> QED
  BY <1>1, <1>3, <1>4

\* A reading without an occluded segment is a pose; it is true if its frame was the client's.
LEMMA ReadingIsPose ==
  ASSUME NEW s, NEW pose, Reading(s, pose), InputPlace,
         \A g \in DOMAIN pose.segments : ~pose.segments[g].occluded
  PROVE  ReadPose(s, pose) /\ (held.frame = latest.number => TruePose(s, pose))
<1>1. held.receipt \in Nat /\ held.frame \in Nat
  BY DEF InputPlace
<1>2. ASSUME NEW g \in DOMAIN pose.segments
      PROVE  /\ pose.segments[g].whole \in BOOLEAN
             /\ g = NoName => pose.segments[g] = Zero /\ ~pose.segments[g].whole
  <2>1. CASE g = NoName
    <3>1. pose.segments[g] = Zero
      BY <1>2, <2>1, Zenon DEF Reading
    <3>2. Zero.whole = FALSE
      BY DEF Zero
    <3> QED
      BY <3>1, <3>2
  <2>2. CASE g # NoName
    <3>1. PICK k \in 0..Statics : pose.segments[g] = GetSegment(s, g, k)
      BY <1>2, <2>2, Zenon DEF Reading
    <3> QED
      BY <2>2, <3>1, SegmentRead
  <2> QED
    BY <2>1, <2>2
<1>3. ReadPose(s, pose)
  BY <1>1, <1>2, Zenon DEF Reading, ReadPose
<1>4. ASSUME held.frame = latest.number, NEW g \in DOMAIN pose.segments, pose.segments[g].whole
      PROVE  TrueSegment(s, g, pose)
  <2>1. PICK k \in 0..Statics : pose.segments[g] = GetSegment(s, g, k)
    BY <1>2, <1>4, Zenon DEF Reading
  <2>2. pose.frame = latest.number /\ pose.over = 1
    BY <1>4 DEF Reading
  <2> QED
    BY <1>4, <2>1, <2>2, SegmentRead DEF TrueSegment
<1> QED
  BY <1>3, <1>4 DEF TruePose

\* A sequence of one element with one more.
LEMMA AppendOne ==
  ASSUME NEW x, NEW p
  PROVE  Append(<<x>>, p) = <<x, p>>
<1> DEFINE S == {x, p}
<1>1. <<x>> \in Seq(S) /\ p \in S /\ <<x, p>> \in Seq(S)
  OBVIOUS
<1>2. /\ Append(<<x>>, p) \in Seq(S) /\ Len(Append(<<x>>, p)) = 2
      /\ Append(<<x>>, p)[1] = x /\ Append(<<x>>, p)[2] = p
  BY <1>1, AppendProperties
<1>3. Len(<<x, p>>) = 2 /\ <<x, p>>[1] = x /\ <<x, p>>[2] = p
  OBVIOUS
<1>4. \A i \in 1..Len(Append(<<x>>, p)) : Append(<<x>>, p)[i] = <<x, p>>[i]
  <2>1. \A i \in 1..2 : i = 1 \/ i = 2
    OBVIOUS
  <2> QED
    BY <1>2, <1>3, <2>1
<1> HIDE DEF S
<1> QED
  BY <1>1, <1>2, <1>3, <1>4, SeqEqual, Zenon

\* A sequence of two elements with one more.
LEMMA AppendTwo ==
  ASSUME NEW x, NEW y, NEW p
  PROVE  Append(<<x, y>>, p) = <<x, y, p>>
<1> DEFINE S == {x, y, p}
<1>1. <<x, y>> \in Seq(S) /\ p \in S /\ <<x, y, p>> \in Seq(S)
  OBVIOUS
<1>2. /\ Append(<<x, y>>, p) \in Seq(S) /\ Len(Append(<<x, y>>, p)) = 3
      /\ Append(<<x, y>>, p)[1] = x /\ Append(<<x, y>>, p)[2] = y
      /\ Append(<<x, y>>, p)[3] = p
  BY <1>1, AppendProperties
<1>3. Len(<<x, y, p>>) = 3 /\ <<x, y, p>>[1] = x /\ <<x, y, p>>[2] = y /\ <<x, y, p>>[3] = p
  OBVIOUS
<1>4. \A i \in 1..Len(Append(<<x, y>>, p)) : Append(<<x, y>>, p)[i] = <<x, y, p>>[i]
  <2>1. \A i \in 1..3 : i = 1 \/ i = 2 \/ i = 3
    OBVIOUS
  <2> QED
    BY <1>2, <1>3, <2>1
<1> HIDE DEF S
<1> QED
  BY <1>1, <1>2, <1>3, <1>4, SeqEqual, Zenon

\* What AddData makes of the poses of a name.
LEMMA Added ==
  ASSUME DataKept, NEW poses, NEW again, NEW s \in DataNames
  PROVE  LET new == AddData(data, poses, again)
         IN  /\ DOMAIN new = DataNames
             /\ \/ new[s] = data[s]
                \/ /\ s \in DOMAIN poses
                   /\ \A g \in DOMAIN poses[s].segments : ~poses[s].segments[g].occluded
                   /\ \/ s \in again /\ new[s] = <<poses[s], poses[s]>>
                      \/ data[s] = << >> /\ new[s] = <<poses[s]>>
                      \/ data[s] = <<data[s][1]>> /\ new[s] = <<data[s][1], poses[s]>>
                      \/ /\ data[s] = <<data[s][1], data[s][2]>>
                         /\ new[s] = <<data[s][2], poses[s]>>
<1> DEFINE p == poses[s]
           kept == s \in DOMAIN poses
                   /\ \A g \in DOMAIN poses[s].segments : ~poses[s].segments[g].occluded
<1>1. DOMAIN AddData(data, poses, again) = DataNames
  BY DEF AddData
<1>2. ~kept => AddData(data, poses, again)[s] = data[s]
  BY DEF AddData
<1>3. kept => AddData(data, poses, again)[s]
                = IF s \in again THEN <<p, p>> ELSE KeepLast(Append(data[s], p))
  BY DEF AddData
<1> HIDE DEF p
<1>4. data[s] = << >> => KeepLast(Append(data[s], p)) = <<p>>
  BY DEF KeepLast, BufSize
<1>5. ASSUME NEW x, data[s] = <<x>>
      PROVE  KeepLast(Append(data[s], p)) = <<x, p>>
  <2>1. Append(<<x>>, p) = <<x, p>> /\ Len(<<x, p>>) = 2
    BY AppendOne
  <2> QED
    BY <1>5, <2>1 DEF KeepLast, BufSize
<1>6. ASSUME NEW x, NEW y, data[s] = <<x, y>>
      PROVE  KeepLast(Append(data[s], p)) = <<y, p>>
  <2>1. Append(<<x, y>>, p) = <<x, y, p>>
    BY AppendTwo
  <2>2. Len(<<x, y, p>>) = 3 /\ Tail(<<x, y, p>>) = <<y, p>>
    OBVIOUS
  <2>3. KeepLast(<<x, y, p>>) = <<y, p>>
    BY <2>2 DEF KeepLast, BufSize
  <2> QED
    BY <1>6, <2>1, <2>3, Zenon
<1>7. data[s] = << >> \/ data[s] = <<data[s][1]>> \/ data[s] = <<data[s][1], data[s][2]>>
  BY DEF DataKept
<1> QED
  BY <1>1, <1>2, <1>3, <1>4, <1>5, <1>6, <1>7, Zenon DEF p

\* A frame is taken from the client below, or none.
LEMMA FrameTaken ==
  ASSUME InputPlace, GetFrame
  PROVE  /\ latest' = [number |-> latest'.number, shown |-> latest'.shown]
         /\ latest'.number \in 0..MaxFrames
         /\ DOMAIN latest'.shown \subseteq Subjects
         /\ DOMAIN latest'.shown # {} => latest'.number > 0
<1>1. /\ latest = [number |-> latest.number, shown |-> latest.shown]
      /\ latest.number \in 0..MaxFrames /\ MaxFrames \in Nat
  BY ClientConstants DEF InputPlace
<1>2. CASE \E n \in latest.number + 1 .. MaxFrames, shown \in Sights :
             latest' = [number |-> n, shown |-> shown]
  <2>1. PICK n \in latest.number + 1 .. MaxFrames, shown \in Sights :
          latest' = [number |-> n, shown |-> shown]
    BY <1>2
  <2>2. DOMAIN shown \subseteq Subjects
    BY DEF Sights
  <2>3. latest'.number = n /\ latest'.shown = shown
    BY <2>1
  <2> QED
    BY <1>1, <2>1, <2>2, <2>3
<1>3. CASE latest' = [latest EXCEPT !.shown = Nothing]
  <2>1. latest' = [number |-> latest.number, shown |-> Nothing]
    BY <1>1, <1>3
  <2>2. latest'.number = latest.number /\ latest'.shown = Nothing
    BY <2>1
  <2>3. DOMAIN Nothing = {}
    BY DEF Nothing
  <2> QED
    BY <1>1, <2>1, <2>2, <2>3
<1> QED
  BY <1>2, <1>3 DEF GetFrame

\* Steps that read nothing into the retimer and predict nothing, and leave the frame that is
\* being read alone or say that it is mixed.
LEMMA Passing ==
  ASSUME ClientInv, GetFrame \/ UNCHANGED latest, UNCHANGED <<held, data, output>>,
         now' \in now..MaxTime, mixed' \in BOOLEAN, mixed => mixed',
         inputThread' = "read" => inputThread = "read" /\ (latest' = latest \/ mixed'),
         call'.at = "update" => call'.time \in Nat
  PROVE  ClientInv'
<1>1. InputPlace /\ DataKept /\ OutputKept
  BY DEF ClientInv
<1>2. InputPlace'
  <2>1. /\ latest' = [number |-> latest'.number, shown |-> latest'.shown]
        /\ latest'.number \in 0..MaxFrames
        /\ DOMAIN latest'.shown \subseteq Subjects
        /\ DOMAIN latest'.shown # {} => latest'.number > 0
    BY <1>1, FrameTaken DEF InputPlace
  <2>2. now' \in 0..MaxTime /\ held'.receipt \in 0..now' /\ held'.frame \in Nat
    BY <1>1, ClientConstants DEF InputPlace
  <2>3. inputThread' = "read" /\ ~mixed' => held'.frame = latest'.number
    BY <1>1 DEF InputPlace
  <2> QED
    BY <2>1, <2>2, <2>3 DEF InputPlace
<1>3. DataKept'
  BY <1>1 DEF DataKept
<1>4. OutputKept'
  BY <1>1 DEF OutputKept
<1>5. ~mixed' => DataTrue' /\ OutputTrue'
  <2> SUFFICES ASSUME ~mixed' PROVE DataTrue' /\ OutputTrue'
    OBVIOUS
  <2>1. DataTrue /\ OutputTrue
    BY DEF ClientInv
  <2>2. OutputTrue'
    BY <2>1 DEF OutputTrue
  <2>3. inputThread' = "read" => inputThread = "read" /\ latest' = latest
    OBVIOUS
  <2>4. DataTrue'
    BY <2>1, <2>3 DEF DataTrue
  <2> QED
    BY <2>2, <2>4
<1> QED
  BY <1>2, <1>3, <1>4, <1>5 DEF ClientInv

\* The input thread stamps the frame that it got.
LEMMA InputStampKeeps ==
  ASSUME ClientInv, InputStamp
  PROVE  ClientInv'
<1>1. InputPlace /\ DataKept /\ OutputKept /\ mixed \in BOOLEAN
  BY DEF ClientInv
<1>2. CASE connected
  <2>1. /\ now > held.receipt \/ latest.shown = Nothing
        /\ held' = [frame |-> latest.number, receipt |-> now] /\ inputThread' = "read"
    BY <1>2 DEF InputStamp
  <2>2. UNCHANGED <<now, latest, data, output, call, mixed>>
    BY DEF InputStamp, linkVars, outputVars, callVars
  <2>3. held'.frame = latest.number /\ held'.receipt = now
    BY <2>1
  <2>4. InputPlace'
    BY <1>1, <2>2, <2>3 DEF InputPlace
  <2>5. DataKept' /\ OutputKept'
    BY <1>1, <2>2 DEF DataKept, OutputKept
  <2>6. ASSUME ~mixed' PROVE DataTrue' /\ OutputTrue'
    <3>1. DataTrue /\ OutputTrue
      BY <2>2, <2>6 DEF ClientInv
    <3>2. OutputTrue'
      BY <2>2, <3>1 DEF OutputTrue
    <3>3. now \in Int /\ held.receipt \in Int /\ held.receipt <= now
          /\ (DOMAIN latest.shown # {} => held.receipt < now)
      <4>1. DOMAIN Nothing = {}
        BY DEF Nothing
      <4> QED
        BY <1>1, <2>1, <4>1 DEF InputPlace
    <3>4. ASSUME NEW s \in DataNames, NEW i \in DOMAIN data[s]
          PROVE  data[s][i].receipt <= now
                 /\ (DOMAIN latest.shown # {} => data[s][i].receipt < now)
      <4>1. data[s][i].receipt \in Int
        BY <1>1 DEF DataKept, ReadPose
      <4>2. data[s][i].receipt <= held.receipt
        BY <3>1 DEF DataTrue
      <4> QED
        BY <3>3, <4>1, <4>2
    <3>5. DataTrue'
      BY <2>2, <2>3, <3>1, <3>4 DEF DataTrue
    <3> QED
      BY <3>2, <3>5
  <2> QED
    BY <1>1, <2>2, <2>4, <2>5, <2>6 DEF ClientInv
<1>3. CASE ~connected
  <2>1. UNCHANGED <<now, latest, held, data, output, call, mixed>> /\ inputThread' = "top"
    BY <1>3 DEF InputStamp, linkVars, outputVars, callVars
  <2>2. now \in now..MaxTime /\ (call.at = "update" => call.time \in Nat)
    BY <1>1, ClientConstants DEF ClientInv, InputPlace
  <2> QED
    BY <1>1, <2>1, <2>2, Passing
<1> QED
  BY <1>2, <1>3

\* The input thread gives the retimer what it read of a frame that shows something: no subject
\* twice, and perhaps twice what has no name.
LEMMA AddKeeps ==
  ASSUME ClientInv, inputThread = "read", inputThread' = "top",
         UNCHANGED <<now, latest, held, output, call, mixed>>,
         NEW poses, NEW again, data' = AddData(data, poses, again), again \subseteq {NoName},
         DOMAIN poses # {} => DOMAIN latest.shown # {},
         \A s \in DOMAIN poses : Reading(s, poses[s])
  PROVE  ClientInv'
<1>1. InputPlace /\ DataKept /\ OutputKept /\ mixed \in BOOLEAN
  BY DEF ClientInv
<1>2. held.receipt \in Int
  BY <1>1 DEF InputPlace
<1> DEFINE Kept(s) == s \in DOMAIN poses
                      /\ \A g \in DOMAIN poses[s].segments : ~poses[s].segments[g].occluded
<1>3. ASSUME NEW s \in DataNames
      PROVE  /\ DOMAIN data' = DataNames
             /\ \/ data'[s] = data[s]
                \/ /\ Kept(s)
                   /\ \/ s = NoName /\ data'[s] = <<poses[s], poses[s]>>
                      \/ data[s] = << >> /\ data'[s] = <<poses[s]>>
                      \/ data[s] = <<data[s][1]>> /\ data'[s] = <<data[s][1], poses[s]>>
                      \/ /\ data[s] = <<data[s][1], data[s][2]>>
                         /\ data'[s] = <<data[s][2], poses[s]>>
  <2>1. s \in again => s = NoName
    OBVIOUS
  <2>2. /\ DOMAIN data' = DataNames
        /\ \/ data'[s] = data[s]
           \/ /\ Kept(s)
              /\ \/ s \in again /\ data'[s] = <<poses[s], poses[s]>>
                 \/ data[s] = << >> /\ data'[s] = <<poses[s]>>
                 \/ data[s] = <<data[s][1]>> /\ data'[s] = <<data[s][1], poses[s]>>
                 \/ /\ data[s] = <<data[s][1], data[s][2]>>
                    /\ data'[s] = <<data[s][2], poses[s]>>
    BY <1>1, Added
  <2> QED
    BY <2>1, <2>2, Zenon
<1>4. DOMAIN data' = DataNames
  BY DEF AddData
<1>5. ASSUME NEW s \in DataNames, Kept(s)
      PROVE  ReadPose(s, poses[s]) /\ (held.frame = latest.number => TruePose(s, poses[s]))
  BY <1>1, <1>5, ReadingIsPose
<1> HIDE DEF Kept
<1>6. InputPlace'
  BY <1>1 DEF InputPlace
<1>7. DataKept'
  <2>1. ASSUME NEW s \in DataNames
        PROVE  /\ \/ data'[s] = << >>
                  \/ data'[s] = <<data'[s][1]>>
                  \/ data'[s] = <<data'[s][1], data'[s][2]>>
               /\ \A i \in DOMAIN data'[s] : ReadPose(s, data'[s][i])
    <3>1. \A i \in DOMAIN data[s] : ReadPose(s, data[s][i])
      BY <1>1 DEF DataKept
    <3>2. CASE data'[s] = data[s]
      BY <1>1, <3>2 DEF DataKept
    <3>3. CASE Kept(s) /\ data[s] = << >> /\ data'[s] = <<poses[s]>>
      BY <1>5, <3>3
    <3>4. CASE Kept(s) /\ data[s] = <<data[s][1]>> /\ data'[s] = <<data[s][1], poses[s]>>
      <4>1. 1 \in DOMAIN data[s]
        BY <3>4
      <4>2. ReadPose(s, data[s][1]) /\ ReadPose(s, poses[s])
        BY <1>5, <3>1, <3>4, <4>1
      <4> QED
        BY <3>4, <4>2
    <3>5. CASE Kept(s) /\ data[s] = <<data[s][1], data[s][2]>>
               /\ data'[s] = <<data[s][2], poses[s]>>
      <4>1. 2 \in DOMAIN data[s]
        BY <3>5
      <4>2. ReadPose(s, data[s][2]) /\ ReadPose(s, poses[s])
        BY <1>5, <3>1, <3>5, <4>1
      <4> QED
        BY <3>5, <4>2
    <3>6. CASE Kept(s) /\ data'[s] = <<poses[s], poses[s]>>
      BY <1>5, <3>6
    <3> QED
      BY <1>3, <3>2, <3>3, <3>4, <3>5, <3>6
  <2> QED
    BY <1>4, <2>1 DEF DataKept
<1>8. OutputKept'
  <2>1. Entries(data) \subseteq Entries(data')
    <3>1. ASSUME NEW s \in DataNames, data[s] # << >> PROVE data'[s] # << >>
      BY <1>3, <3>1
    <3> QED
      BY <3>1 DEF Entries
  <2> QED
    BY <1>1, <2>1 DEF OutputKept
<1>9. ASSUME ~mixed' PROVE DataTrue' /\ OutputTrue'
  <2>1. DataTrue /\ OutputTrue /\ held.frame = latest.number
    BY <1>9 DEF ClientInv, InputPlace
  <2>2. OutputTrue'
    BY <2>1 DEF OutputTrue
  <2>3. ASSUME NEW s \in DataNames
        PROVE  \A i \in DOMAIN data'[s] :
                 /\ data'[s][i].frame \in 1..MaxFrames
                 /\ FirstNamed(s, data'[s][i]) /\ TruePose(s, data'[s][i])
                 /\ data'[s][i].receipt <= held.receipt
                 /\ i = 2 => /\ data'[s][1].receipt <= data'[s][2].receipt
                             /\ s # NoName => data'[s][1].receipt < data'[s][2].receipt
    <3>1. \A i \in DOMAIN data[s] :
             /\ data[s][i].frame \in 1..MaxFrames
             /\ FirstNamed(s, data[s][i]) /\ TruePose(s, data[s][i])
             /\ data[s][i].receipt \in Int /\ data[s][i].receipt <= held.receipt
             /\ DOMAIN latest.shown # {} => data[s][i].receipt < held.receipt
             /\ i = 2 => /\ data[s][1].receipt <= data[s][2].receipt
                         /\ s # NoName => data[s][1].receipt < data[s][2].receipt
      BY <1>1, <2>1 DEF DataTrue, DataKept, ReadPose
    <3>2. CASE data'[s] = data[s]
      BY <3>1, <3>2
    <3>3. ASSUME Kept(s)
          PROVE  /\ poses[s].frame \in 1..MaxFrames
                 /\ FirstNamed(s, poses[s]) /\ TruePose(s, poses[s])
                 /\ poses[s].receipt = held.receipt
                 /\ \A i \in DOMAIN data[s] : data[s][i].receipt < held.receipt
      <4>1. DOMAIN latest.shown # {} /\ Reading(s, poses[s])
        BY <3>3 DEF Kept
      <4>2. /\ poses[s].frame = held.frame /\ poses[s].receipt = held.receipt
            /\ FirstNamed(s, poses[s])
        BY <4>1 DEF Reading
      <4>3. latest.number \in 1..MaxFrames
        BY <1>1, <4>1, ClientConstants DEF InputPlace
      <4> QED
        BY <1>5, <2>1, <3>1, <3>3, <4>1, <4>2, <4>3
    <3>4. CASE Kept(s) /\ data[s] = << >> /\ data'[s] = <<poses[s]>>
      <4>1. data'[s][1] = poses[s] /\ DOMAIN data'[s] = {1}
        BY <3>4
      <4> QED
        BY <1>2, <3>3, <3>4, <4>1
    <3>5. CASE Kept(s) /\ data[s] = <<data[s][1]>> /\ data'[s] = <<data[s][1], poses[s]>>
      <4>1. /\ data'[s][1] = data[s][1] /\ data'[s][2] = poses[s] /\ DOMAIN data'[s] = {1, 2}
            /\ 1 \in DOMAIN data[s]
        BY <3>5
      <4>2. /\ data[s][1].frame \in 1..MaxFrames
            /\ FirstNamed(s, data[s][1]) /\ TruePose(s, data[s][1])
            /\ data[s][1].receipt \in Int /\ data[s][1].receipt < held.receipt
        BY <3>1, <3>3, <3>5, <4>1
      <4> QED
        BY <1>2, <3>3, <3>5, <4>1, <4>2
    <3>6. CASE Kept(s) /\ data[s] = <<data[s][1], data[s][2]>>
               /\ data'[s] = <<data[s][2], poses[s]>>
      <4>1. /\ data'[s][1] = data[s][2] /\ data'[s][2] = poses[s] /\ DOMAIN data'[s] = {1, 2}
            /\ 2 \in DOMAIN data[s]
        BY <3>6
      <4>2. /\ data[s][2].frame \in 1..MaxFrames
            /\ FirstNamed(s, data[s][2]) /\ TruePose(s, data[s][2])
            /\ data[s][2].receipt \in Int /\ data[s][2].receipt < held.receipt
        BY <3>1, <3>3, <3>6, <4>1
      <4> QED
        BY <1>2, <3>3, <3>6, <4>1, <4>2
    <3>7. CASE Kept(s) /\ s = NoName /\ data'[s] = <<poses[s], poses[s]>>
      <4>1. data'[s][1] = poses[s] /\ data'[s][2] = poses[s] /\ DOMAIN data'[s] = {1, 2}
        BY <3>7
      <4> QED
        BY <1>2, <3>3, <3>7, <4>1
    <3> QED
      BY <1>3, <3>2, <3>4, <3>5, <3>6, <3>7
  <2>4. DataTrue'
    BY <2>3 DEF DataTrue
  <2> QED
    BY <2>2, <2>4
<1> QED
  BY <1>1, <1>6, <1>7, <1>8, <1>9 DEF ClientInv

\* What could be read is added, and what could not without its name.
LEMMA AddReadKeeps ==
  ASSUME ClientInv, inputThread = "read", inputThread' = "top",
         UNCHANGED <<now, latest, held, output, call, mixed>>,
         NEW poses, NEW lost, AddRead(poses, lost), lost \subseteq DOMAIN latest.shown,
         DOMAIN poses \subseteq DOMAIN latest.shown,
         \A s \in DOMAIN poses : Reading(s, poses[s])
  PROVE  ClientInv'
<1> DEFINE all == IF lost = {} THEN poses ELSE With(poses, NoName, Nameless)
           again == IF Cardinality(lost) > 1 THEN {NoName} ELSE {}
<1>1. data' = AddData(data, all, again) /\ again \subseteq {NoName}
  BY DEF AddRead
<1>2. DOMAIN all # {} => DOMAIN latest.shown # {}
  <2>1. lost # {} => DOMAIN latest.shown # {}
    OBVIOUS
  <2>2. lost = {} => all = poses
    OBVIOUS
  <2> QED
    BY <2>1, <2>2
<1>3. ASSUME NEW s \in DOMAIN all PROVE Reading(s, all[s])
  <2>1. CASE lost = {}
    BY <1>3, <2>1
  <2>2. CASE lost # {}
    <3>1. all[s] = IF s = NoName THEN Nameless ELSE poses[s]
      BY <2>2 DEF With
    <3>2. s # NoName => s \in DOMAIN poses
      BY <2>2 DEF With
    <3> HIDE DEF all
    <3> QED
      BY <3>1, <3>2, NamelessReading, Zenon
  <2> QED
    BY <2>1, <2>2
<1> HIDE DEF all, again
<1> QED
  BY <1>1, <1>2, <1>3, AddKeeps

\* The input thread reads a frame, to its end or not.
LEMMA InputReadKeeps ==
  ASSUME ClientInv, InputRead
  PROVE  ClientInv'
<1> DEFINE shown == DOMAIN latest.shown
<1>1. InputPlace /\ mixed \in BOOLEAN
  BY DEF ClientInv
<1>2. /\ inputThread = "read" /\ inputThread' = "top"
      /\ UNCHANGED <<now, latest, held, output, call, mixed>>
  BY DEF InputRead, linkVars, outputVars, callVars
<1>3. shown \subseteq Subjects
  BY <1>1 DEF InputPlace
<1>4. ASSUME NEW done \in SUBSET shown
      PROVE  /\ DOMAIN ReadSubjects(done) = done
             /\ \A s \in done : Reading(s, ReadSubjects(done)[s])
  <2>1. done \in SUBSET Subjects
    BY <1>3
  <2> QED
    BY <2>1, WholeReading DEF ReadSubjects
<1>5. ASSUME NEW done \in SUBSET shown, NEW lost \in SUBSET shown,
             AddRead(ReadSubjects(done), lost)
      PROVE  ClientInv'
  BY <1>2, <1>4, <1>5, AddReadKeeps
<1>6. CASE UNCHANGED data
  <2>1. now \in now..MaxTime /\ (call.at = "update" => call.time \in Nat)
    BY <1>1, ClientConstants DEF ClientInv, InputPlace
  <2> QED
    BY <1>1, <1>2, <1>6, <2>1, Passing
<1>7. ASSUME NEW s \in shown, NEW done \in SUBSET (shown \ {s}), NEW pose \in CutPoses(s),
             AddRead(With(ReadSubjects(done), s, pose), shown \ (done \cup {s}))
      PROVE  ClientInv'
  <2> DEFINE poses == With(ReadSubjects(done), s, pose)
             lost  == shown \ (done \cup {s})
  <2>1. done \in SUBSET shown /\ lost \subseteq shown
    OBVIOUS
  <2>2. Reading(s, pose)
    BY <1>3, CutReading
  <2>3. /\ DOMAIN poses = done \cup {s}
        /\ \A u \in DOMAIN poses : poses[u] = IF u = s THEN pose ELSE ReadSubjects(done)[u]
    BY <1>4, <2>1 DEF With
  <2> HIDE DEF poses
  <2>4. ASSUME NEW u \in DOMAIN poses PROVE Reading(u, poses[u])
    <3>1. u # s => u \in done
      BY <2>3
    <3> QED
      BY <1>4, <2>1, <2>2, <2>3, <3>1, Zenon
  <2>5. DOMAIN poses \subseteq shown
    BY <2>3
  <2>6. AddRead(poses, lost)
    BY <1>7 DEF poses
  <2> HIDE DEF lost
  <2> QED
    BY <1>2, <2>1, <2>4, <2>5, <2>6, AddReadKeeps
<1>8. \/ AddRead(ReadSubjects(shown), {})
      \/ UNCHANGED data
      \/ \E done \in SUBSET shown : AddRead(ReadSubjects(done), shown \ done)
      \/ \E s \in shown : \E done \in SUBSET (shown \ {s}), pose \in CutPoses(s) :
            AddRead(With(ReadSubjects(done), s, pose), shown \ (done \cup {s}))
  BY Zenon DEF InputRead
<1>9. CASE AddRead(ReadSubjects(shown), {})
  <2>1. shown \in SUBSET shown /\ {} \in SUBSET shown
    OBVIOUS
  <2> HIDE DEF shown
  <2> QED
    BY <1>5, <1>9, <2>1
<1>10. CASE \E done \in SUBSET shown : AddRead(ReadSubjects(done), shown \ done)
  <2>1. PICK done \in SUBSET shown : AddRead(ReadSubjects(done), shown \ done)
    BY <1>10
  <2>2. shown \ done \in SUBSET shown
    OBVIOUS
  <2> QED
    BY <1>5, <2>1, <2>2
<1> HIDE DEF shown
<1> QED
  BY <1>6, <1>7, <1>8, <1>9, <1>10, Zenon

------------------------------------------------------------------------------
\* Poses are predicted for a time.
LEMMA PredictKeeps ==
  ASSUME ClientInv, NEW t \in Nat, UpdateFrameAtTime(t),
         UNCHANGED <<now, latest, inputThread, held, data, mixed>>,
         call'.at = "update" => call'.time \in Nat
  PROVE  ClientInv'
<1>1. InputPlace /\ DataKept /\ mixed \in BOOLEAN
  BY DEF ClientInv
<1>2. DOMAIN output' = Entries(data)
  BY DEF UpdateFrameAtTime, OutputPoses
<1>3. ASSUME NEW s \in DOMAIN output', output'[s].result = "ESuccess"
      PROVE  /\ s \in DataNames
             /\ output'[s] = Predict(data[s][1], data[s][2], t)
             /\ Predict(data[s][1], data[s][2], t).result = "ESuccess"
             /\ 1 \in DOMAIN data[s] /\ 2 \in DOMAIN data[s]
  <2>1. s \in DataNames /\ data[s] # << >>
    BY <1>2 DEF Entries
  <2>2. output'[s] = IF Len(data[s]) >= 2 THEN Predict(Head(data[s]), data[s][Len(data[s])], t)
                     ELSE NoPose
    BY <1>2 DEF UpdateFrameAtTime, OutputPoses
  <2>3. NoPose.result # "ESuccess"
    BY DEF NoPose
  <2>4. Len(data[s]) >= 2 /\ output'[s] = Predict(Head(data[s]), data[s][Len(data[s])], t)
    BY <1>3, <2>2, <2>3
  <2>5. Len(<<data[s][1]>>) = 1 /\ Len(<<data[s][1], data[s][2]>>) = 2
    OBVIOUS
  <2>6. data[s] = <<data[s][1], data[s][2]>>
    BY <1>1, <2>1, <2>4, <2>5 DEF DataKept
  <2>7. Len(data[s]) = 2 /\ Head(data[s]) = data[s][1]
    BY <2>5, <2>6
  <2>8. 1 \in DOMAIN data[s] /\ 2 \in DOMAIN data[s]
    BY <2>6
  <2> QED
    BY <1>3, <2>1, <2>4, <2>7, <2>8
<1>4. ASSUME NEW s \in DOMAIN output', output'[s].result = "ESuccess"
      PROVE  /\ DOMAIN output'[s].segments \subseteq NamesFor(s)
             /\ \A g \in DOMAIN output'[s].segments :
                   /\ ~output'[s].segments[g].occluded
                   /\ g = NoName => ~output'[s].segments[g].whole
  <2> DEFINE p1 == data[s][1]
             p2 == data[s][2]
             pose == Predict(p1, p2, t)
  <2>1. s \in DataNames /\ output'[s] = pose /\ pose.result = "ESuccess"
    BY <1>3, <1>4
  <2>2. ReadPose(s, p1) /\ ReadPose(s, p2)
    BY <1>1, <1>3, <1>4 DEF DataKept
  <2> HIDE DEF p1, p2
  <2>3. DOMAIN pose.segments = DOMAIN p1.segments \cap DOMAIN p2.segments
    BY <2>1, Predicts
  <2>4. DOMAIN p1.segments \subseteq NamesFor(s)
    BY <2>2, NamesKnown
  <2>5. ASSUME NEW g \in DOMAIN pose.segments
        PROVE  ~pose.segments[g].occluded /\ (g = NoName => ~pose.segments[g].whole)
    <3> DEFINE s1 == p1.segments[g]
               s2 == p2.segments[g]
               q  == pose.segments[g]
    <3>1. q = [T        |-> PredictVal(s1.T, p1.receipt, s2.T, p2.receipt, t),
               R        |-> PredictRotation(s1.R, p1.receipt, s2.R, p2.receipt, t),
               T_Rel    |-> PredictVal(s1.T_Rel, p1.receipt, s2.T_Rel, p2.receipt, t),
               R_Rel    |-> PredictRotation(s1.R_Rel, p1.receipt, s2.R_Rel, p2.receipt, t),
               whole    |-> s1.whole /\ s2.whole,
               occluded |-> s1.occluded \/ s2.occluded]
      BY <2>1, Predicts
    <3>2. ~s1.occluded /\ ~s2.occluded /\ (g = NoName => ~s1.whole)
      BY <2>2, <2>3 DEF ReadPose, Zero
    <3> HIDE DEF q, s1, s2
    <3>3. (q.occluded <=> s1.occluded \/ s2.occluded) /\ (q.whole <=> s1.whole /\ s2.whole)
      BY <3>1
    <3> QED
      BY <3>2, <3>3 DEF q
  <2> HIDE DEF pose
  <2> QED
    BY <2>1, <2>3, <2>4, <2>5
<1>5. OutputKept'
  BY <1>2, <1>4 DEF OutputKept
<1>6. ASSUME ~mixed' PROVE DataTrue' /\ OutputTrue'
  <2>1. DataTrue
    BY <1>6 DEF ClientInv
  <2>2. DataTrue'
    BY <2>1 DEF DataTrue
  <2>3. ASSUME NEW s \in DOMAIN output', output'[s].result = "ESuccess"
        PROVE  /\ output'[s].frame \in Int /\ (s # NoName => output'[s].over \in Nat \ {0})
               /\ TruePose(s, output'[s])
    <3> DEFINE p1 == data[s][1]
               p2 == data[s][2]
    <3>1. /\ s \in DataNames /\ output'[s] = Predict(p1, p2, t)
          /\ Predict(p1, p2, t).result = "ESuccess"
          /\ 1 \in DOMAIN data[s] /\ 2 \in DOMAIN data[s]
      BY <1>3, <2>3
    <3>2. ReadPose(s, p1) /\ ReadPose(s, p2)
      BY <1>1, <3>1 DEF DataKept
    <3>3. /\ p1.frame \in 1..MaxFrames /\ p2.frame \in 1..MaxFrames
          /\ TruePose(s, p1) /\ TruePose(s, p2)
          /\ s # NoName => p1.receipt < p2.receipt
      BY <2>1, <3>1 DEF DataTrue
    <3>4. t \in Int
      OBVIOUS
    <3> HIDE DEF p1, p2
    <3>5. CASE s = NoName
      <4>1. output'[s].frame = PredictVal(p1.frame, p1.receipt, p2.frame, p2.receipt, t)
        BY <3>1, Predicts
      <4>2. p1.receipt \in Int /\ p2.receipt \in Int
        BY <3>2 DEF ReadPose
      <4>3. output'[s].frame \in Int
        BY <3>3, <3>4, <4>1, <4>2 DEF PredictVal
      <4>4. DOMAIN output'[s].segments = {}
        BY <1>4, <2>3, <3>5 DEF NamesFor
      <4> QED
        BY <3>5, <4>3, <4>4 DEF TruePose
    <3>6. CASE s # NoName
      <4>1. s \in Subjects
        BY <3>1, <3>6 DEF DataNames
      <4> QED
        BY <3>1, <3>2, <3>3, <3>4, <3>6, <4>1, PredictTrue
    <3> QED
      BY <3>5, <3>6
  <2>4. OutputTrue'
    BY <2>3 DEF OutputTrue
  <2> QED
    BY <2>2, <2>4
<1>7. InputPlace' /\ DataKept'
  BY <1>1 DEF InputPlace, DataKept
<1> QED
  BY <1>1, <1>5, <1>6, <1>7 DEF ClientInv

------------------------------------------------------------------------------
\* The client starts with nothing read and nothing predicted.
LEMMA ClientStarts ==
  ASSUME NEW is, NEW time \in 0..MaxTime, NEW frame \in 0..MaxFrames,
         ClientInit(is, time, frame)
  PROVE  ClientInv
<1>1. /\ now = time /\ latest = [number |-> frame, shown |-> Nothing]
      /\ inputThread # "read" /\ held = [frame |-> frame, receipt |-> 0]
      /\ data = [s \in DataNames |-> << >>] /\ output = << >>
      /\ call = [at |-> "idle"] /\ mixed = FALSE
  BY DEF ClientInit, Returned
<1>2. DOMAIN Nothing = {} /\ DOMAIN output = {}
  BY <1>1 DEF Nothing
<1>3. InputPlace
  BY <1>1, <1>2, ClientConstants DEF InputPlace
<1>4. DataKept /\ DataTrue
  BY <1>1 DEF DataKept, DataTrue
<1>5. OutputKept /\ OutputTrue
  BY <1>2 DEF OutputKept, OutputTrue
<1> QED
  BY <1>1, <1>3, <1>4, <1>5 DEF ClientInv

\* The steps of the client's threads, and of what is below it.
LEMMA ThreadsKeep ==
  ASSUME ClientInv, Below \/ InputThread \/ OutputThread
  PROVE  ClientInv'
<1>1. InputPlace /\ mixed \in BOOLEAN /\ (call.at = "update" => call.time \in Nat)
  BY DEF ClientInv
<1>2. now \in Nat /\ now \in now..MaxTime
  BY <1>1, ClientConstants DEF InputPlace
<1> USE DEF linkVars, inputVars, outputVars, callVars
<1>3. CASE Tick
  <2>1. now' \in now..MaxTime
    BY <1>2, <1>3, ClientConstants DEF Tick
  <2>2. UNCHANGED <<latest, inputThread, held, data, output, call, mixed>>
    BY <1>3 DEF Tick
  <2> QED
    BY <1>1, <2>1, <2>2, Passing
<1>4. CASE Break \/ FallSilent
  <2>1. UNCHANGED <<now, latest, inputThread, held, data, output, call, mixed>>
    BY <1>4 DEF Break, FallSilent
  <2> QED
    BY <1>1, <1>2, <2>1, Passing
<1>5. CASE InputTop
  <2>1. UNCHANGED <<now, latest, held, data, output, call, mixed>> /\ inputThread' # "read"
    BY <1>5 DEF InputTop
  <2> QED
    BY <1>1, <1>2, <2>1, Passing
<1>6. CASE InputGet
  <2>1. /\ UNCHANGED <<now, held, data, output, call, mixed>> /\ inputThread' # "read"
        /\ GetFrame \/ UNCHANGED latest
    BY <1>6 DEF InputGet
  <2> QED
    BY <1>1, <1>2, <2>1, Passing
<1>7. CASE InputStamp
  BY <1>7, InputStampKeeps
<1>8. CASE InputRead
  BY <1>8, InputReadKeeps
<1>9. CASE OutputEnds
  <2>1. UNCHANGED <<now, latest, inputThread, held, data, output, call, mixed>>
    BY <1>9 DEF OutputEnds
  <2> QED
    BY <1>1, <1>2, <2>1, Passing
<1>10. CASE OutputFrame
  <2>1. /\ UNCHANGED <<now, latest, inputThread, held, data, mixed>> /\ UpdateFrameAtTime(now)
        /\ call'.at = "update" => call'.time \in Nat
    BY <1>1, <1>10 DEF OutputFrame, Returned
  <2> QED
    BY <1>2, <2>1, PredictKeeps
<1> QED
  BY <1>3, <1>4, <1>5, <1>6, <1>7, <1>8, <1>9, <1>10
     DEF Below, InputThread, OutputThread

\* The steps of the caller's calls.
LEMMA CallsKeep ==
  ASSUME ClientInv, Calls
  PROVE  ClientInv'
<1>1. InputPlace /\ mixed \in BOOLEAN /\ (call.at = "update" => call.time \in Nat)
  BY DEF ClientInv
<1>2. now \in Nat /\ now \in now..MaxTime
  BY <1>1, ClientConstants DEF InputPlace
<1> USE DEF linkVars, inputVars, outputVars, callVars
<1>3. CASE Connect
  <2>1. /\ UNCHANGED <<now, latest, held, data, output, mixed>> /\ inputThread' # "read"
        /\ call'.at # "update"
    BY <1>3 DEF Connect, Begin, Returned
  <2> QED
    BY <1>1, <1>2, <2>1, Passing
<1>4. ASSUME NEW then, TellOutput(then) PROVE ClientInv'
  <2>1. UNCHANGED <<now, latest, inputThread, held, data, output, mixed>> /\ call'.at # "update"
    BY <1>4 DEF TellOutput, Begin
  <2> QED
    BY <1>1, <1>2, <2>1, Passing
<1>5. CASE UpdateFrame
  <2>1. /\ UNCHANGED <<now, latest, inputThread, held, data, output, mixed>>
        /\ call' = [at |-> "update", time |-> now]
    BY <1>5 DEF UpdateFrame, Begin
  <2> QED
    BY <1>1, <1>2, <2>1, Passing
<1>6. CASE WaitForFrame
  <2>1. UNCHANGED <<now, latest, inputThread, held, data, output, mixed>> /\ call'.at # "update"
    BY <1>6 DEF WaitForFrame, Begin
  <2> QED
    BY <1>1, <1>2, <2>1, Passing
<1>7. CASE JoinOutput
  <2>1. UNCHANGED <<now, latest, inputThread, held, data, output, mixed>>
    BY <1>7 DEF JoinOutput
  <2>2. call'.at # "update" \/ call' = call
    BY <1>7 DEF JoinOutput, Returned
  <2> QED
    BY <1>1, <1>2, <2>1, <2>2, Passing
<1>8. CASE JoinInput
  <2>1. /\ UNCHANGED <<now, latest, held, data, output, mixed>> /\ inputThread' # "read"
        /\ call'.at # "update"
    BY <1>8 DEF JoinInput, Returned
  <2> QED
    BY <1>1, <1>2, <2>1, Passing
<1>9. CASE RunIn
  <2>1. /\ UNCHANGED <<now, inputThread, held, data, output>>
        /\ GetFrame \/ UNCHANGED latest
        /\ mixed' = (mixed \/ (inputThread = "read" /\ latest' # latest))
    BY <1>9 DEF RunIn
  <2>2. call'.at = call.at /\ call.at = "runin"
    BY <1>9 DEF RunIn
  <2>3. mixed' \in BOOLEAN /\ (mixed => mixed')
        /\ (inputThread = "read" => latest' = latest \/ mixed')
    BY <1>1, <2>1
  <2> QED
    BY <1>1, <1>2, <2>1, <2>2, <2>3, Passing
<1>10. CASE StartOutputThread
  <2>1. UNCHANGED <<now, latest, inputThread, held, data, output, mixed>> /\ call'.at # "update"
    BY <1>10 DEF StartOutputThread, Returned
  <2> QED
    BY <1>1, <1>2, <2>1, Passing
<1>11. CASE UpdateFrameReturns
  <2>1. /\ UNCHANGED <<now, latest, inputThread, held, data, mixed>>
        /\ UpdateFrameAtTime(call.time) /\ call.time \in Nat /\ call'.at # "update"
    BY <1>1, <1>11 DEF UpdateFrameReturns, Returned
  <2> QED
    BY <2>1, PredictKeeps
<1> QED
  BY <1>3, <1>4, <1>5, <1>6, <1>7, <1>8, <1>9, <1>10, <1>11 DEF Calls, CallReturns

\* The inductive invariant of the retiming client, an application's calls coming at any time
\* while both threads run: the poses that VRetimingCore::AddData kept and the ones that
\* UpdateFrame predicted are true of the subjects' motion, unless a frame was replaced while
\* the input thread read it.
THEOREM ClientInvariant == ClientSpec => []ClientInv
<1>1. ClientInit(FALSE, 0, 0) => ClientInv
  <2>1. 0 \in 0..MaxTime /\ 0 \in 0..MaxFrames
    BY ClientConstants
  <2> QED
    BY <2>1, ClientStarts
<1>2. ClientInv /\ [ClientNext]_clientVars => ClientInv'
  <2>1. ASSUME ClientInv, ClientNext PROVE ClientInv'
    BY <2>1, ThreadsKeep, CallsKeep DEF ClientNext
  <2>2. ASSUME ClientInv, UNCHANGED clientVars PROVE ClientInv'
    <3>1. UNCHANGED <<now, latest, inputThread, held, data, output, call, mixed>>
      BY <2>2 DEF clientVars
    <3>2. /\ now \in now..MaxTime /\ mixed \in BOOLEAN
          /\ call.at = "update" => call.time \in Nat
      BY <2>2, ClientConstants DEF ClientInv, InputPlace
    <3> QED
      BY <2>2, <3>1, <3>2, Passing
  <2> QED
    BY <2>1, <2>2
<1> QED
  BY <1>1, <1>2, PTL DEF ClientSpec

------------------------------------------------------------------------------
(* The getters                                                                *)

\* What the getters describe a subject with is the pose that was received last.
LEMMA ReceivedLast ==
  ASSUME DataKept, NEW s \in Entries(data)
  PROVE  /\ s \in DataNames /\ ReadPose(s, GetSubjectStatic(data, s))
         /\ GetSubjectStatic(data, s).result = "ESuccess"
         /\ DataTrue => FirstNamed(s, GetSubjectStatic(data, s))
<1>1. s \in DataNames /\ data[s] # << >>
  BY DEF Entries
<1>2. GetSubjectStatic(data, s) = data[s][Len(data[s])]
  BY <1>1 DEF GetSubjectStatic
<1>3. data[s] = <<data[s][1]>> \/ data[s] = <<data[s][1], data[s][2]>>
  BY <1>1 DEF DataKept
<1>4. Len(<<data[s][1]>>) = 1 /\ Len(<<data[s][1], data[s][2]>>) = 2
  OBVIOUS
<1>5. Len(data[s]) \in DOMAIN data[s]
  BY <1>3, <1>4
<1>6. ReadPose(s, data[s][Len(data[s])])
  BY <1>1, <1>5 DEF DataKept
<1>7. DataTrue => FirstNamed(s, data[s][Len(data[s])])
  BY <1>1, <1>5 DEF DataTrue
<1> QED
  BY <1>1, <1>2, <1>6, <1>7 DEF ReadPose

\* The names of a subject's segments are those of the pose.
LEMMA SegmentsNamed ==
  ASSUME DataKept, NEW s \in Entries(data)
  PROVE  LET count == GetSegmentCount(s)
         IN  /\ count.result = "Success"
             /\ s = NoName => count.v = 0
             /\ {GetSegmentName(s, j).v : j \in 0..(count.v - 1)}
                  = NamesOf(GetSubjectStatic(data, s))
<1> DEFINE pose  == GetSubjectStatic(data, s)
           names == pose.names
           n == Len(names)
<1>1. s \in DataNames /\ ReadPose(s, pose) /\ pose.result = "ESuccess"
  BY ReceivedLast
<1>2. names \in Seq(NamesFor(s))
  BY <1>1 DEF ReadPose
<1>3. GetSegmentCount(s) = Answer(n)
  BY <1>1 DEF GetSegmentCount, Static
<1>4. \A j : GetSegmentName(s, j) = Indexed(names, j)
  BY <1>1 DEF GetSegmentName, Static
<1>5. NamesOf(pose) = {names[i] : i \in DOMAIN names}
  BY DEF NamesOf
<1> HIDE DEF pose, names
<1>6. n \in Nat /\ DOMAIN names = 1..n
  BY <1>2
<1>7. s = NoName => n = 0
  <2>1. ASSUME NamesFor(s) = {}, n # 0 PROVE FALSE
    <3>1. 1 \in DOMAIN names
      BY <1>6, <2>1
    <3> QED
      BY <1>2, <2>1, <3>1
  <2> QED
    BY <2>1 DEF NamesFor
<1> DEFINE answered == {GetSegmentName(s, j).v : j \in 0..(n - 1)}
<1>8. ASSUME NEW j \in 0..(n - 1)
      PROVE  GetSegmentName(s, j).v = names[j + 1] /\ j + 1 \in DOMAIN names
  BY <1>4, <1>6 DEF Indexed, Answer
<1>9. ASSUME NEW i \in DOMAIN names PROVE names[i] \in answered
  <2>1. i - 1 \in 0..(n - 1) /\ (i - 1) + 1 = i
    BY <1>6
  <2>2. GetSegmentName(s, i - 1).v = names[i]
    BY <1>8, <2>1
  <2> QED
    BY <2>1, <2>2
<1>10. answered = NamesOf(pose)
  BY <1>5, <1>8, <1>9
<1>11. GetSegmentCount(s).result = "Success" /\ GetSegmentCount(s).v = n
  BY <1>3 DEF Answer
<1> QED
  BY <1>7, <1>10, <1>11 DEF pose

\* Where a segment has a name, how many have one, and where they are.
LEMMA NamedFirst ==
  ASSUME NEW s \in Subjects, NEW pose, FirstNamed(s, pose), NEW g \in NamesOf(pose) \ {NoName}
  PROVE  /\ pose.root = RootOf(s)
         /\ \E n \in 0..Len(SegmentNames[s]) :
              /\ \E i \in 1..n : SegmentNames[s][i] = g
              /\ \A i \in 1..n : SegmentNames[s][i] \in NamesOf(pose) \ {NoName}
<1>1. /\ Len(SegmentNames[s]) \in Nat /\ DOMAIN SegmentNames[s] = 1..Len(SegmentNames[s])
      /\ s \in DOMAIN SegmentNames
  BY SubjectKnown
<1>2. PICK k \in DOMAIN pose.names : pose.names[k] = g
  BY DEF NamesOf
<1>3. pose.names # << >>
  BY <1>2
<1>4. pose.root = RootOf(s)
  BY <1>3 DEF FirstNamed
<1>5. PICK n \in 0..Len(SegmentNames[s]) : pose.names = FirstNames(s, n)
  BY <1>3 DEF FirstNamed
<1>6. /\ DOMAIN pose.names = 1..Len(SegmentNames[s])
      /\ \A i \in DOMAIN pose.names :
           pose.names[i] = IF i <= n THEN SegmentNames[s][i] ELSE NoName
  BY <1>1, <1>5 DEF FirstNames
<1>7. k \in 1..n /\ SegmentNames[s][k] = g
  BY <1>1, <1>2, <1>6
<1>8. ASSUME NEW i \in 1..n PROVE SegmentNames[s][i] \in NamesOf(pose) \ {NoName}
  <2>1. i \in DOMAIN SegmentNames[s] /\ i \in DOMAIN pose.names /\ i <= n
    BY <1>1, <1>6
  <2>2. SegmentNames[s][i] # NoName
    BY <1>1, <2>1, RetimingConstants
  <2>3. pose.names[i] = SegmentNames[s][i]
    BY <1>6, <2>1
  <2> QED
    BY <2>1, <2>2, <2>3 DEF NamesOf
<1> QED
  BY <1>4, <1>5, <1>7, <1>8

\* The first of the segments that have a name is the root.
LEMMA RootFirst ==
  ASSUME NEW s \in Subjects, NEW pose, FirstNamed(s, pose), NamesOf(pose) \ {NoName} # {}
  PROVE  pose.root \in NamesOf(pose) \ {NoName}
<1> DEFINE n == Len(SegmentNames[s])
           roots == {i \in DOMAIN SegmentNames[s] : Above(s, SegmentNames[s][i]) = NoName}
<1>1. n \in Nat /\ DOMAIN SegmentNames[s] = 1..n /\ s \in DOMAIN SegmentNames
  BY SubjectKnown
<1>2. PICK m \in 0..n : /\ \E i \in 1..m : TRUE
                        /\ \A i \in 1..m : SegmentNames[s][i] \in NamesOf(pose) \ {NoName}
  BY NamedFirst
<1>3. m > 0 /\ pose.root = RootOf(s)
  BY <1>1, <1>2, NamedFirst
<1>4. 1 \in roots
  <2>1. 1 \in DOMAIN SegmentNames[s]
    BY <1>1, <1>2, <1>3
  <2>2. \/ SegmentParents[s][SegmentNames[s][1]] = NoName
        \/ \E j \in 1..(1 - 1) : SegmentParents[s][SegmentNames[s][1]] = SegmentNames[s][j]
    BY <1>1, <2>1, RetimingConstants, Zenon
  <2> QED
    BY <2>1, <2>2 DEF Above
<1>5. \A i \in roots : i \in Nat /\ 1 <= i
  BY <1>1
<1> HIDE DEF roots
<1>6. (CHOOSE i \in roots : \A j \in roots : i <= j) = 1
  <2>1. \A j \in roots : 1 <= j
    BY <1>5
  <2> DEFINE c == CHOOSE i \in roots : \A j \in roots : i <= j
  <2>2. c \in roots /\ \A j \in roots : c <= j
    BY <1>4, <2>1, Zenon
  <2> HIDE DEF c
  <2>3. c <= 1 /\ c \in Nat /\ 1 <= c
    BY <1>4, <1>5, <2>2
  <2> QED
    BY <2>3 DEF c
<1>7. RootOf(s) = SegmentNames[s][1]
  BY <1>4, <1>6 DEF RootOf, roots
<1> QED
  BY <1>1, <1>2, <1>3, <1>7

\* A segment's parent comes before it.
LEMMA ParentBefore ==
  ASSUME NEW s \in Subjects, NEW pose, FirstNamed(s, pose), NEW g \in NamesOf(pose) \ {NoName}
  PROVE  Above(s, g) \in (NamesOf(pose) \ {NoName}) \cup {NoName}
<1> DEFINE n == Len(SegmentNames[s])
<1>1. n \in Nat /\ DOMAIN SegmentNames[s] = 1..n /\ s \in DOMAIN SegmentNames
  BY SubjectKnown
<1>2. PICK m \in 0..n : /\ \E i \in 1..m : SegmentNames[s][i] = g
                        /\ \A i \in 1..m : SegmentNames[s][i] \in NamesOf(pose) \ {NoName}
  BY NamedFirst
<1>3. PICK i \in 1..m : SegmentNames[s][i] = g
  BY <1>2
<1>4. \/ SegmentParents[s][SegmentNames[s][i]] = NoName
      \/ \E j \in 1..(i - 1) : SegmentParents[s][SegmentNames[s][i]] = SegmentNames[s][j]
  <2>1. i \in DOMAIN SegmentNames[s]
    BY <1>1, <1>2, <1>3
  <2> QED
    BY <1>1, <2>1, RetimingConstants, Zenon
<1>5. 1..(i - 1) \subseteq 1..m
  BY <1>1, <1>2, <1>3
<1> QED
  BY <1>2, <1>3, <1>4, <1>5 DEF Above

\* Helical and Euler angles are the angle, less a full turn or not.
LEMMA SameTurn ==
  ASSUME NEW n \in Nat \ {0}, NEW a \in Int, 0 <= a, a < n
  PROVE  ToHelical(a, n) % n = a /\ ToEulerXYZ(a, n) % n = a
<1>1. a % n = a
  BY OwnRemainder
<1>2. (a - n) % n = a % n
  <2>1. a - n = a + (-1) * n /\ a - n \in Int /\ -1 \in Int
    OBVIOUS
  <2> QED
    BY <2>1, SameRemainder, Zenon
<1> QED
  BY <1>1, <1>2 DEF ToHelical, ToEulerXYZ

\* What the getters answer of a segment that is predicted.
LEMMA PredictedTrue ==
  ASSUME OutputKept, OutputTrue, NEW s \in DOMAIN output, NEW g, ReadWhole(s, g),
         GetSegmentGlobalTranslation(s, g).result = "Success"
  PROVE  LET t      == GetSegmentGlobalTranslation(s, g)
             local  == GetSegmentLocalTranslation(s, g)
             matrix == GetSegmentGlobalRotationMatrix(s, g)
             below  == GetSegmentLocalRotationMatrix(s, g)
             turn   == FullTurn * t.over
         IN  /\ t.v = TrueT(s, g, t.frame, t.over)
             /\ local.v = TrueTRel(s, g, t.frame, t.over)
             /\ matrix.v = TrueR(s, g, t.frame, t.over)
             /\ below.v = TrueRRel(s, g, t.frame, t.over)
             /\ GetSegmentGlobalRotationHelical(s, g).v % turn = matrix.v
             /\ GetSegmentGlobalRotationEulerXYZ(s, g).v % turn = matrix.v
             /\ GetSegmentLocalRotationHelical(s, g).v % turn = below.v
             /\ GetSegmentLocalRotationEulerXYZ(s, g).v % turn = below.v
<1> DEFINE pose    == output[s]
           segment == output[s].segments[g]
           Given(v) == [result |-> "Success", v |-> v, occluded |-> segment.occluded,
                        receipt |-> pose.receipt, frame |-> pose.frame, over |-> pose.over]
           turn == FullTurn * pose.over
<1>1. GetSubject(data, output, s) = pose
  BY DEF GetSubject
<1>2. g \in DOMAIN pose.segments /\ segment.whole
  BY DEF ReadWhole
<1>3. InitGet = "Success" /\ pose.result = "ESuccess"
  BY <1>1 DEF GetSegmentGlobalTranslation, Predicted, Refuse, Adapt
<1>4. s \in Subjects /\ g \in Segments(s)
  <2>1. g \in NamesFor(s) /\ g # NoName
    BY <1>2, <1>3 DEF OutputKept
  <2>2. s \in DataNames /\ s # NoName
    BY <2>1 DEF OutputKept, Entries, NamesFor
  <2> QED
    BY <2>1, <2>2, NoNameUnknown DEF DataNames
<1>5. /\ g \in Segments(s) /\ ~segment.occluded
      /\ pose.over \in Nat \ {0} /\ pose.frame \in Int /\ TrueSegment(s, g, pose)
  <2>1. s # NoName
    BY <1>4, NoNameUnknown
  <2> QED
    BY <1>2, <1>3, <1>4, <2>1 DEF OutputKept, OutputTrue, TruePose
<1>6. /\ GetSegmentGlobalTranslation(s, g) = Given(segment.T)
      /\ GetSegmentLocalTranslation(s, g) = Given(segment.T_Rel)
  BY <1>1, <1>2, <1>3 DEF GetSegmentGlobalTranslation, GetSegmentLocalTranslation, Predicted
<1>7. /\ GetSegmentGlobalRotationMatrix(s, g) = Given(segment.R)
      /\ GetSegmentLocalRotationMatrix(s, g) = Given(segment.R_Rel)
  BY <1>1, <1>2, <1>3
     DEF GetSegmentGlobalRotationMatrix, GetSegmentLocalRotationMatrix, Predicted
<1>8. /\ segment.T = TrueT(s, g, pose.frame, pose.over)
      /\ segment.R = TrueR(s, g, pose.frame, pose.over)
      /\ segment.T_Rel = TrueTRel(s, g, pose.frame, pose.over)
      /\ segment.R_Rel = TrueRRel(s, g, pose.frame, pose.over)
  BY <1>5 DEF TrueSegment
<1> HIDE DEF pose, segment
<1>9. turn \in Nat \ {0}
  BY <1>5, RetimingConstants
<1>10. /\ segment.R \in Int /\ 0 <= segment.R /\ segment.R < turn
       /\ segment.R_Rel \in Int /\ 0 <= segment.R_Rel /\ segment.R_Rel < turn
  <2>1. \A c \in Int, e \in 0..1 : c * pose.over - e * pose.frame \in Int
    BY <1>5
  <2>2. ASSUME NEW c \in Int, NEW e \in 0..1
        PROVE  /\ Turning(c, e, pose.frame, pose.over) \in Int
               /\ 0 <= Turning(c, e, pose.frame, pose.over)
               /\ Turning(c, e, pose.frame, pose.over) < turn
    <3> DEFINE x == c * pose.over - e * pose.frame
    <3>1. x \in Int
      BY <2>1
    <3> HIDE DEF x, turn
    <3>2. x % turn \in Int /\ 0 <= x % turn /\ x % turn < turn
      BY <1>9, <3>1, Remainder
    <3> QED
      BY <3>2, Zenon DEF Turning, x, turn
  <2>3. segment.R = Turning(Place(s, g), 1, pose.frame, pose.over)
    BY <1>4, <1>5, <1>8, TrueRForm
  <2>4. Place(s, g) \in Int /\ 1 \in 0..1
    BY <1>4, <1>5, AboveKnown
  <2>5. PICK c \in Int, e \in 0..1 : \A f \in Int, o \in Nat \ {0} :
          TrueRRel(s, g, f, o) = Turning(c, e, f, o)
    BY <1>4, <1>5, TrueRRelForm, Zenon
  <2>6. segment.R_Rel = Turning(c, e, pose.frame, pose.over)
    BY <1>5, <1>8, <2>5
  <2> HIDE DEF turn
  <2> QED
    BY <2>2, <2>3, <2>4, <2>6, Zenon
<1>11. ASSUME NEW v
       PROVE  /\ Given(v).v = v /\ Given(v).result = "Success"
              /\ Given(v).occluded = segment.occluded
              /\ Given(v).frame = pose.frame /\ Given(v).over = pose.over
              /\ \A w : [Given(v) EXCEPT !.v = w].v = w
  OBVIOUS
<1> HIDE DEF Given
<1>12. /\ GetSegmentGlobalRotationHelical(s, g).v = ToHelical(segment.R, turn)
       /\ GetSegmentGlobalRotationEulerXYZ(s, g).v = ToEulerXYZ(segment.R, turn)
  BY <1>5, <1>7, <1>11
     DEF GetSegmentGlobalRotationHelical, GetSegmentGlobalRotationEulerXYZ, Converted
<1>13. /\ GetSegmentLocalRotationHelical(s, g).v = ToHelical(segment.R_Rel, turn)
       /\ GetSegmentLocalRotationEulerXYZ(s, g).v = ToEulerXYZ(segment.R_Rel, turn)
  BY <1>5, <1>7, <1>11
     DEF GetSegmentLocalRotationHelical, GetSegmentLocalRotationEulerXYZ, Converted
<1>14. /\ ToHelical(segment.R, turn) % turn = segment.R
       /\ ToEulerXYZ(segment.R, turn) % turn = segment.R
       /\ ToHelical(segment.R_Rel, turn) % turn = segment.R_Rel
       /\ ToEulerXYZ(segment.R_Rel, turn) % turn = segment.R_Rel
  <2> HIDE DEF turn
  <2> QED
    BY <1>9, <1>10, SameTurn
<1>15. /\ GetSegmentGlobalTranslation(s, g).v = segment.T
       /\ GetSegmentLocalTranslation(s, g).v = segment.T_Rel
       /\ GetSegmentGlobalRotationMatrix(s, g).v = segment.R
       /\ GetSegmentLocalRotationMatrix(s, g).v = segment.R_Rel
       /\ GetSegmentGlobalTranslation(s, g).frame = pose.frame
       /\ GetSegmentGlobalTranslation(s, g).over = pose.over
  BY <1>6, <1>7, <1>11
<1>16. FullTurn * GetSegmentGlobalTranslation(s, g).over = turn
  BY <1>15
<1> HIDE DEF turn
<1> QED
  BY <1>8, <1>12, <1>13, <1>14, <1>15, <1>16, Zenon

------------------------------------------------------------------------------
\* What is counted has a name, be it the empty one, and is predicted.
LEMMA SubjectsNamed ==
  ASSUME DOMAIN output \subseteq DataNames, GetSubjectCount.result = "Success",
         NEW i \in 0..(GetSubjectCount.v - 1)
  PROVE  GetSubjectName(i).result = "Success" /\ GetSubjectName(i).v \in DOMAIN output
<1> DEFINE all == <<NoName>> \o SubjectNames
           kept == KeptPlaces(all, DOMAIN output)
           names == OutputNames(output)
<1>1. /\ Len(all) \in Nat /\ DOMAIN all = 1..Len(all)
      /\ \A s \in DataNames : \E k \in DOMAIN all : all[k] = s
  <2>1. SubjectNames \in Seq(DataNames) /\ <<NoName>> \in Seq(DataNames)
    BY RetimingConstants DEF DataNames, Subjects
  <2>2. /\ all \in Seq(DataNames) /\ Len(all) = 1 + Len(SubjectNames)
        /\ \A k \in 1..Len(all) : all[k] = IF k <= 1 THEN <<NoName>>[k] ELSE SubjectNames[k - 1]
    BY <2>1, ConcatProperties
  <2> HIDE DEF all
  <2>3. Len(SubjectNames) \in Nat /\ DOMAIN SubjectNames = 1..Len(SubjectNames)
    BY <2>1
  <2>4. Len(all) \in Nat /\ DOMAIN all = 1..Len(all)
    BY <2>2
  <2>5. ASSUME NEW k \in DOMAIN SubjectNames
        PROVE  k + 1 \in DOMAIN all /\ all[k + 1] = SubjectNames[k]
    <3>1. k + 1 \in 1..Len(all) /\ ~(k + 1 <= 1) /\ (k + 1) - 1 = k
      BY <2>2, <2>3
    <3> QED
      BY <2>2, <2>4, <3>1
  <2>6. 1 \in DOMAIN all /\ all[1] = NoName
    <3>1. 1 \in 1..Len(all) /\ <<NoName>>[1] = NoName
      BY <2>2, <2>3
    <3> QED
      BY <2>2, <2>4, <3>1
  <2>7. ASSUME NEW s \in DataNames PROVE \E k \in DOMAIN all : all[k] = s
    BY <2>5, <2>6 DEF DataNames, Subjects
  <2> QED
    BY <2>4, <2>7
<1>2. /\ IsFiniteSet(kept) /\ Cardinality(kept) \in Nat /\ Len(names) = Cardinality(kept)
      /\ \A j \in 1..Cardinality(kept) : \E k \in kept : names[j] = all[k]
  <2>1. names = Within(all, DOMAIN output)
    BY DEF OutputNames
  <2> HIDE DEF all, names
  <2> QED
    BY <1>1, <2>1, WithinKept
<1> HIDE DEF all
<1>3. \A s \in DOMAIN output : \E k \in kept : all[k] = s
  BY <1>1 DEF KeptPlaces
<1>4. Cardinality(DOMAIN output) \in Nat /\ Cardinality(DOMAIN output) <= Cardinality(kept)
  <2> DEFINE f == [k \in kept |-> all[k]]
  <2>1. f \in [kept -> DOMAIN output] /\ \A s \in DOMAIN output : \E k \in kept : f[k] = s
    BY <1>3 DEF KeptPlaces
  <2>2. f \in Surjection(kept, DOMAIN output)
    BY <2>1, Zenon DEF Surjection
  <2> HIDE DEF f, kept
  <2> QED
    BY <1>2, <2>2, FS_Surjection, FS_CardinalityType
<1>5. GetSubjectCount.v = Cardinality(DOMAIN output)
  BY DEF GetSubjectCount, Answer, Refuse, Adapt
<1>6. \A j \in 1..Cardinality(kept) : names[j] \in DOMAIN output
  BY <1>2 DEF KeptPlaces
<1> HIDE DEF kept, names
<1>7. i < Len(names) /\ i + 1 \in 1..Cardinality(kept)
  BY <1>2, <1>4, <1>5
<1>8. GetSubjectName(i) = Answer(names[i + 1])
  BY <1>7 DEF GetSubjectName, names
<1> QED
  BY <1>6, <1>7, <1>8 DEF Answer

\* Between two calls the getters' answers fit together.
LEMMA AnswersFollow ==
  ASSUME ClientInv
  PROVE  AnswersAgree
<1>1. DataKept /\ OutputKept /\ (~mixed => DataTrue /\ OutputTrue)
  BY DEF ClientInv
<1> SUFFICES ASSUME GetSubjectCount.result = "Success",
                    NEW i \in 0..(GetSubjectCount.v - 1)
             PROVE
        LET s     == GetSubjectName(i).v
            count == GetSegmentCount(s)
            names == {GetSegmentName(s, j).v : j \in 0..(count.v - 1)}
            named == names \ {NoName}
        IN  /\ GetSubjectName(i).result = "Success" /\ count.result = "Success"
            /\ s = NoName => count.v = 0
            /\ ~mixed /\ named # {} => GetSubjectRootSegmentName(s).v \in named
            /\ ~mixed => \A g \in names : GetSegmentParentName(s, g).v \in named \cup {NoName}
            /\ \A g \in names :
                 LET t      == GetSegmentGlobalTranslation(s, g)
                     local  == GetSegmentLocalTranslation(s, g)
                     matrix == GetSegmentGlobalRotationMatrix(s, g)
                     below  == GetSegmentLocalRotationMatrix(s, g)
                     turn   == FullTurn * t.over
                 IN  ~mixed /\ t.result = "Success" /\ ReadWhole(s, g) =>
                       /\ t.v = TrueT(s, g, t.frame, t.over)
                       /\ local.v = TrueTRel(s, g, t.frame, t.over)
                       /\ matrix.v = TrueR(s, g, t.frame, t.over)
                       /\ below.v = TrueRRel(s, g, t.frame, t.over)
                       /\ GetSegmentGlobalRotationHelical(s, g).v % turn = matrix.v
                       /\ GetSegmentGlobalRotationEulerXYZ(s, g).v % turn = matrix.v
                       /\ GetSegmentLocalRotationHelical(s, g).v % turn = below.v
                       /\ GetSegmentLocalRotationEulerXYZ(s, g).v % turn = below.v
  BY DEF AnswersAgree
<1> DEFINE s     == GetSubjectName(i).v
           count == GetSegmentCount(s)
           names == {GetSegmentName(s, j).v : j \in 0..(count.v - 1)}
           pose  == GetSubjectStatic(data, s)
<1>2. DOMAIN output \subseteq Entries(data) /\ DOMAIN output \subseteq DataNames
  BY <1>1 DEF OutputKept, Entries
<1>3. GetSubjectName(i).result = "Success" /\ s \in DOMAIN output
  BY <1>2, SubjectsNamed
<1> HIDE DEF s
<1>4. /\ s \in DataNames /\ ReadPose(s, pose) /\ pose.result = "ESuccess"
      /\ ~mixed => FirstNamed(s, pose)
  BY <1>1, <1>2, <1>3, ReceivedLast
<1>5. count.result = "Success" /\ names = NamesOf(pose) /\ (s = NoName => count.v = 0)
  BY <1>1, <1>2, <1>3, SegmentsNamed
<1>6. GetSubjectRootSegmentName(s).v = pose.root
  BY <1>4 DEF GetSubjectRootSegmentName, Static, Answer
<1>7. ASSUME NEW g \in NamesOf(pose)
      PROVE  \/ g # NoName /\ GetSegmentParentName(s, g).v = Above(s, g)
             \/ GetSegmentParentName(s, g).v = NoName
  <2>1. g \in DOMAIN pose.segments /\ (g = NoName => pose.segments[g] = Zero)
    BY <1>4, <1>7 DEF ReadPose
  <2>2. GetSegmentParentName(s, g)
          = Answer(IF pose.segments[g].read >= Parent THEN Above(s, g) ELSE NoName)
    BY <1>4, <2>1 DEF GetSegmentParentName, StaticSegment, Static
  <2>3. g = NoName => ~(pose.segments[g].read >= Parent)
    BY <2>1 DEF Zero, Parent
  <2> QED
    BY <2>2, <2>3 DEF Answer
<1>8. names # {} => s \in Subjects
  <2>1. NamesOf(pose) \subseteq NamesFor(s)
    BY <1>4 DEF ReadPose, NamesOf
  <2> QED
    BY <1>4, <1>5, <2>1 DEF NamesFor, DataNames
<1> HIDE DEF names, pose, count
<1>9. ASSUME ~mixed
      PROVE  /\ names \ {NoName} # {} => GetSubjectRootSegmentName(s).v \in names \ {NoName}
             /\ \A g \in names :
                  GetSegmentParentName(s, g).v \in (names \ {NoName}) \cup {NoName}
  <2>1. names \ {NoName} # {} => GetSubjectRootSegmentName(s).v \in names \ {NoName}
    BY <1>4, <1>5, <1>6, <1>8, <1>9, RootFirst
  <2>2. ASSUME NEW g \in names
        PROVE  GetSegmentParentName(s, g).v \in (names \ {NoName}) \cup {NoName}
    <3>1. g # NoName => Above(s, g) \in (names \ {NoName}) \cup {NoName}
      BY <1>4, <1>5, <1>8, <1>9, ParentBefore
    <3> QED
      BY <1>5, <1>7, <3>1
  <2> QED
    BY <2>1, <2>2
<1>10. ASSUME NEW g, ~mixed, GetSegmentGlobalTranslation(s, g).result = "Success",
              ReadWhole(s, g)
       PROVE  LET t      == GetSegmentGlobalTranslation(s, g)
                  local  == GetSegmentLocalTranslation(s, g)
                  matrix == GetSegmentGlobalRotationMatrix(s, g)
                  below  == GetSegmentLocalRotationMatrix(s, g)
                  turn   == FullTurn * t.over
              IN  /\ t.v = TrueT(s, g, t.frame, t.over)
                  /\ local.v = TrueTRel(s, g, t.frame, t.over)
                  /\ matrix.v = TrueR(s, g, t.frame, t.over)
                  /\ below.v = TrueRRel(s, g, t.frame, t.over)
                  /\ GetSegmentGlobalRotationHelical(s, g).v % turn = matrix.v
                  /\ GetSegmentGlobalRotationEulerXYZ(s, g).v % turn = matrix.v
                  /\ GetSegmentLocalRotationHelical(s, g).v % turn = below.v
                  /\ GetSegmentLocalRotationEulerXYZ(s, g).v % turn = below.v
  BY <1>1, <1>3, <1>10, PredictedTrue, Zenon
<1> QED
  BY <1>3, <1>5, <1>9, <1>10, Zenon DEF s, count, names

\* Whatever the getters of the retiming client answer between two calls fits together, however
\* far a frame was read before the connection was lost: the names they count, the roots and
\* parents of what has a name, and every form of a predicted segment.
THEOREM AnswersFit == ClientSpec => []AnswersAgree
  BY ClientInvariant, AnswersFollow, PTL
==============================================================================
