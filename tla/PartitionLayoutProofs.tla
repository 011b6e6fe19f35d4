----------------------- MODULE PartitionLayoutProofs ------------------------
(***************************************************************************)
(* Theorems about PartitionLayout, for any partition specs, plans of any   *)
(* length, any sizes and any width of the arithmetic.                      *)
(*                                                                         *)
(* The argument.  A disk is smaller than the largest word, so nothing      *)
(* saturated in a plan that passed validate_capacity, the wrapping sums of *)
(* prepare_layout are the same numbers, and what remains is at least the   *)
(* minimum.  The volumes created so far have taken the fixed sizes of      *)
(* their partitions, what remains if it was their turn, and an alignment   *)
(* each; the letters bound their number, and the headroom is for as many.  *)
(* The table has room because logical volumes come last and share one      *)
(* entry, and letters are taken once unless LettersClash.                  *)
(***************************************************************************)
EXTENDS PartitionLayout, FiniteSetTheorems, SequenceTheorems, WellFoundedInduction, TLAPS

------------------------------------------------------------------------------
(* Induction up to a bound, and functions defined by recursion. *)

LEMMA LeastNumber ==
  ASSUME NEW T, T \subseteq Nat, T # {}
  PROVE  \E n \in T : \A m \in T : n <= m
<1> DEFINE R == OpToRel(<, Nat)
<1>1. IsWellFoundedOn(R, Nat)
  BY NatLessThanWellFounded
<1>2. \A x, y \in Nat : (x < y) => (<<x, y>> \in R)
  BY DEF OpToRel
<1> HIDE DEF R
<1>3. PICK n \in T : \A m \in T : ~(<<m, n>> \in R)
  BY <1>1, WFMin
<1>4. ASSUME NEW m \in T PROVE n <= m
  <2>1. m \in Nat /\ n \in Nat
    OBVIOUS
  <2>2. ~(m < n)
    BY <1>2, <1>3, <2>1
  <2> QED
    BY <2>1, <2>2
<1> QED
  BY <1>4

LEMMA UpTo ==
  ASSUME NEW N \in Nat, NEW S, 0 \in S, \A k \in 1..N : k - 1 \in S => k \in S
  PROVE  \A k \in 0..N : k \in S
<1> DEFINE T == {k \in 0..N : k \notin S}
<1> SUFFICES ASSUME T # {} PROVE FALSE
  OBVIOUS
<1>1. T \subseteq Nat
  OBVIOUS
<1>2. PICK n \in T : \A m \in T : n <= m
  <2> HIDE DEF T
  <2> QED
    BY <1>1, LeastNumber
<1>3. n \in 1..N /\ n \notin S
  OBVIOUS
<1>4. n - 1 \in 0..N /\ ~(n <= n - 1)
  BY <1>3
<1>5. n - 1 \in S
  BY <1>2, <1>4
<1> QED
  BY <1>3, <1>5

\* There is a function with each value computed from the one before it.
Steps(N, V) == [(1..N) \X V -> V]

LEMMA Recursion ==
  ASSUME NEW N \in Nat, NEW V, NEW b \in V, NEW g \in Steps(N, V)
  PROVE  \E f \in [0..N -> V] :
           f[0] = b /\ \A k \in 1..N : f[k] = g[<<k, f[k - 1]>>]
<1> DEFINE Up(n, f) == f[0] = b /\ \A k \in 1..n : f[k] = g[<<k, f[k - 1]>>]
           G == {n \in 0..N : \E f \in [0..n -> V] : Up(n, f)}
<1>1. 0 \in G
  <2> DEFINE f == [i \in 0..0 |-> b]
  <2>1. f \in [0..0 -> V] /\ f[0] = b
    OBVIOUS
  <2> HIDE DEF f
  <2>2. Up(0, f)
    BY <2>1
  <2> HIDE DEF Up
  <2> QED
    BY <2>1, <2>2
<1>2. ASSUME NEW n \in 1..N, n - 1 \in G PROVE n \in G
  <2>1. PICK f \in [0..(n - 1) -> V] : Up(n - 1, f)
    BY <1>2
  <2> DEFINE next == g[<<n, f[n - 1]>>]
  <2>2. n - 1 \in 0..(n - 1) /\ f[n - 1] \in V
    OBVIOUS
  <2>3. next \in V
    BY <2>2 DEF Steps
  <2> HIDE DEF next
  <2> DEFINE h == [i \in 0..n |-> IF i = n THEN next ELSE f[i]]
  <2>4. h \in [0..n -> V] /\ h[n] = next /\ (\A i \in 0..(n - 1) : h[i] = f[i])
    BY <2>3
  <2> HIDE DEF h
  <2>5. ASSUME NEW k \in 1..n PROVE h[k] = g[<<k, h[k - 1]>>]
    <3>1. CASE k = n
      <4>1. h[k - 1] = f[n - 1]
        BY <2>2, <2>4, <3>1
      <4> QED
        BY <2>4, <3>1, <4>1 DEF next
    <3>2. CASE k # n
      <4>1. k \in 1..(n - 1) /\ k \in 0..(n - 1) /\ k - 1 \in 0..(n - 1)
        BY <3>2
      <4>2. f[k] = g[<<k, f[k - 1]>>]
        BY <2>1, <4>1
      <4> QED
        BY <2>4, <4>1, <4>2
    <3> QED
      BY <3>1, <3>2
  <2>6. h[0] = b
    <3>1. 0 \in 0..(n - 1)
      OBVIOUS
    <3> QED
      BY <2>1, <2>4, <3>1
  <2>7. Up(n, h)
    BY <2>5, <2>6
  <2> HIDE DEF Up
  <2> QED
    BY <2>4, <2>7
<1>3. \A n \in 0..N : n \in G
  <2> HIDE DEF G
  <2> QED
    BY <1>1, <1>2, UpTo
<1>4. N \in 0..N
  OBVIOUS
<1> QED
  BY <1>3, <1>4

------------------------------------------------------------------------------
(* The sums, one prefix of the plan or of the volumes after another. *)

LEMMA PlanSizes ==
  ASSUME plan \in Seq(Partition), NEW k \in 1..Len(plan)
  PROVE  /\ plan[k] \in Partition
         /\ plan[k].role \in Role /\ plan[k].size \in {Remaining} \cup 0..MaxWord
         /\ plan[k].letter \in STRING /\ FixedPart(plan[k]) \in 0..MaxWord
<1>1. plan[k] \in Partition
  OBVIOUS
<1>2. plan[k] \in [role : Role, size : {Remaining} \cup 0..MaxWord, letter : STRING]
  BY <1>1, SizesAssumption
<1>3. 0 \in 0..MaxWord
  BY SizesAssumption
<1> QED
  BY <1>1, <1>2, <1>3 DEF FixedPart

LEMMA FixedSums ==
  ASSUME plan \in Seq(Partition)
  PROVE  \E s \in [0..Len(plan) -> 0..MaxWord] :
           /\ s[0] = 0 /\ s[Len(plan)] = FixedSize
           /\ \A k \in 1..Len(plan) : s[k] = SatAdd(s[k - 1], FixedPart(plan[k]))
<1> DEFINE N == Len(plan)
           V == 0..MaxWord
           g == [x \in (1..N) \X V |-> SatAdd(x[2], FixedPart(plan[x[1]]))]
           Step(f) == [k \in 0..N |-> IF k = 0 THEN 0 ELSE SatAdd(f[k - 1], FixedPart(plan[k]))]
           F == CHOOSE f : f = Step(f)
<1>1. N \in Nat /\ 0 \in V
  BY SizesAssumption
<1>2. \A k \in 1..N, v \in V : SatAdd(v, FixedPart(plan[k])) \in V
  BY PlanSizes, SizesAssumption DEF SatAdd
<1>3. g \in Steps(N, V)
  BY <1>2 DEF Steps
<1>4. \A k \in 1..N, v \in V : g[<<k, v>>] = SatAdd(v, FixedPart(plan[k]))
  OBVIOUS
<1>5. FixedSize = F[N]
  BY DEF FixedSize
<1> HIDE DEF N, V, g
<1>6. PICK f \in [0..N -> V] : f[0] = 0 /\ \A k \in 1..N : f[k] = g[<<k, f[k - 1]>>]
  BY <1>1, <1>3, Recursion
<1>7. \A k \in 1..N : f[k] = SatAdd(f[k - 1], FixedPart(plan[k]))
  <2> TAKE k \in 1..N
  <2>1. k - 1 \in 0..N
    BY <1>1
  <2> QED
    BY <1>4, <1>6, <2>1
<1>8. f = Step(f)
  <2>1. \A k \in 0..N : f[k] = IF k = 0 THEN 0 ELSE SatAdd(f[k - 1], FixedPart(plan[k]))
    BY <1>1, <1>6, <1>7
  <2>2. f = [k \in 0..N |-> f[k]]
    OBVIOUS
  <2> QED
    BY <2>1, <2>2
<1>9. F = Step(F)
  <2> HIDE DEF Step
  <2> QED
    BY <1>8
<1> HIDE DEF F
<1>10. F[0] = 0 /\ (\A k \in 1..N : F[k] = SatAdd(F[k - 1], FixedPart(plan[k])))
  BY <1>1, <1>9
<1>11. F = [k \in 0..N |-> F[k]]
  BY <1>9
<1>12. \A k \in 0..N : F[k] \in V
  <2> DEFINE S == {k \in 0..N : F[k] \in V}
  <2>1. 0 \in S /\ \A k \in 1..N : k - 1 \in S => k \in S
    BY <1>1, <1>2, <1>10
  <2>2. \A k \in 0..N : k \in S
    <3> HIDE DEF S
    <3> QED
      BY <1>1, <2>1, UpTo
  <2> QED
    BY <2>2
<1>13. F \in [0..N -> V]
  BY <1>11, <1>12
<1> QED
  BY <1>5, <1>10, <1>13 DEF N, V

LEMMA SatAddIsExact ==
  ASSUME NEW a \in Nat, NEW b \in Nat
  PROVE  /\ SatAdd(a, b) \in Nat
         /\ SatAdd(a, b) < MaxWord => SatAdd(a, b) = a + b
         /\ a <= MaxWord => a <= SatAdd(a, b)
<1>1. MaxWord \in Nat
  BY SizesAssumption
<1> QED
  BY <1>1 DEF SatAdd

LEMMA SumsGrow ==
  ASSUME NEW N \in Nat, NEW s \in [0..N -> Nat], \A k \in 1..N : s[k - 1] <= s[k]
  PROVE  \A k \in 0..N : s[k] <= s[N]
<1> DEFINE S == {n \in 0..N : \A k \in 0..n : s[k] <= s[n]}
<1>1. 0 \in S
  OBVIOUS
<1>2. ASSUME NEW n \in 1..N, n - 1 \in S PROVE n \in S
  <2>1. ASSUME NEW k \in 0..n PROVE s[k] <= s[n]
    <3>1. s[n - 1] <= s[n] /\ s[n - 1] \in Nat /\ s[n] \in Nat /\ s[k] \in Nat
      OBVIOUS
    <3>2. k = n \/ k \in 0..(n - 1)
      OBVIOUS
    <3>3. CASE k \in 0..(n - 1)
      <4>1. s[k] <= s[n - 1]
        BY <1>2, <3>3
      <4> QED
        BY <3>1, <4>1
    <3>4. CASE k = n
      BY <3>1, <3>4
    <3> QED
      BY <3>2, <3>3, <3>4
  <2> QED
    BY <2>1
<1>3. \A n \in 0..N : n \in S
  <2> HIDE DEF S
  <2> QED
    BY <1>1, <1>2, UpTo
<1>4. N \in 0..N
  OBVIOUS
<1> QED
  BY <1>3, <1>4

\* The sizes of the first k partitions of the plan, as far as it fixes them: s
\* adds them up without a bound.
PlanSums(s) ==
  /\ s \in [0..Len(plan) -> Nat]
  /\ s[0] = 0
  /\ \A k \in 1..Len(plan) : s[k] = s[k - 1] + FixedPart(plan[k])

\* While the sum stays within a word, the wrapping additions of prepare_layout
\* add up the same.
LEMMA WrappedSums ==
  ASSUME plan \in Seq(Partition), NEW s, PlanSums(s),
         \A k \in 0..Len(plan) : s[k] <= MaxWord
  PROVE  RemainingSize
           = (order.disk - s[Len(plan)] - CacheSize - AlignmentHeadroom) % (MaxWord + 1)
<1> DEFINE N == Len(plan)
           Step(f) == [k \in 0..N |-> IF k = 0 THEN 0 ELSE WrapAdd(f[k - 1], FixedPart(plan[k]))]
           F == CHOOSE f : f = Step(f)
<1>1. N \in Nat /\ MaxWord \in Nat
  BY SizesAssumption
<1>2. RemainingSize = (order.disk - F[N] - CacheSize - AlignmentHeadroom) % (MaxWord + 1)
  BY DEF RemainingSize
<1>3. /\ s \in [0..N -> Nat] /\ s[0] = 0 /\ \A k \in 0..N : s[k] <= MaxWord
      /\ \A k \in 1..N : s[k] = s[k - 1] + FixedPart(plan[k])
  BY DEF PlanSums
<1> HIDE DEF N
<1>4. \A k \in 1..N : WrapAdd(s[k - 1], FixedPart(plan[k])) = s[k]
  <2> TAKE k \in 1..N
  <2>1. k \in 0..N
    BY <1>1
  <2>2. s[k] \in 0..MaxWord /\ s[k] = s[k - 1] + FixedPart(plan[k])
    BY <1>1, <1>3, <2>1
  <2>3. s[k] % (MaxWord + 1) = s[k]
    BY <1>1, <2>2
  <2> QED
    BY <2>2, <2>3 DEF WrapAdd
<1>5. s = Step(s)
  <2>1. \A k \in 0..N : s[k] = IF k = 0 THEN 0 ELSE WrapAdd(s[k - 1], FixedPart(plan[k]))
    BY <1>1, <1>3, <1>4
  <2>2. s = [k \in 0..N |-> s[k]]
    BY <1>3
  <2> QED
    BY <2>1, <2>2
<1>6. F = Step(F)
  <2> HIDE DEF Step
  <2> QED
    BY <1>5
<1> HIDE DEF F
<1>7. F[0] = 0 /\ (\A k \in 1..N : F[k] = WrapAdd(F[k - 1], FixedPart(plan[k])))
  BY <1>1, <1>6
<1>8. \A k \in 0..N : F[k] = s[k]
  <2> DEFINE S == {k \in 0..N : F[k] = s[k]}
  <2>1. 0 \in S /\ \A k \in 1..N : k - 1 \in S => k \in S
    BY <1>1, <1>3, <1>4, <1>7
  <2>2. \A k \in 0..N : k \in S
    <3> HIDE DEF S
    <3> QED
      BY <1>1, <2>1, UpTo
  <2> QED
    BY <2>2
<1>9. F[N] = s[N]
  BY <1>1, <1>8
<1> QED
  BY <1>2, <1>9, Zenon DEF N

Submitted == order \in [disk : DiskSize, image : ImageSize, payload : PayloadSize]

Minimum == IF RemainderIsData THEN MinimumData ELSE MinimumWindows

LEMMA Sizes ==
  ASSUME Submitted, plan \in Seq(Partition)
  PROVE  /\ MaxWord \in Nat /\ order.disk \in Nat /\ order.disk < MaxWord
         /\ order.image \in Nat /\ order.payload \in Nat
         /\ AlignmentHeadroom \in Nat /\ Minimum \in Nat
         /\ CacheSize \in Nat /\ FixedSize \in 0..MaxWord
<1>1. /\ MaxWord \in Nat /\ AlignmentHeadroom \in Nat /\ CacheHeadroom \in Nat
      /\ MinimumData \in Nat /\ MinimumWindows \in Nat
  BY SizesAssumption
<1>2. order.disk \in 0..(MaxWord - 1) /\ order.image \in 0..MaxWord /\ order.payload \in 0..MaxWord
  BY SizesAssumption DEF Submitted
<1>3. CacheSize \in Nat
  <2>1. order.image \in Nat
    BY <1>1, <1>2
  <2>2. SatAdd(order.image, CacheHeadroom) \in Nat
    BY <1>1, <2>1, SatAddIsExact
  <2> QED
    BY <2>2 DEF CacheSize
<1>4. FixedSize \in 0..MaxWord
  <2>1. Len(plan) \in 0..Len(plan)
    OBVIOUS
  <2> QED
    BY <2>1, FixedSums
<1> QED
  BY <1>1, <1>2, <1>3, <1>4 DEF Minimum

\* Nothing saturates and nothing wraps in a plan that passed validate_capacity,
\* because the disk is smaller than the largest word.
LEMMA CapacityIsExact ==
  ASSUME Submitted, plan \in Seq(Partition), CapacityIsValid
  PROVE  /\ \E s : PlanSums(s) /\ s[Len(plan)] = FixedSize
         /\ RemainingSize = order.disk - FixedSize - CacheSize - AlignmentHeadroom
         /\ RemainingSize \in Nat /\ RemainingSize >= Minimum
<1>1. PICK f, c, h, d, w, m :
        /\ f = FixedSize /\ c = CacheSize /\ h = AlignmentHeadroom /\ d = order.disk
        /\ w = MaxWord /\ m = Minimum
  OBVIOUS
<1>2. /\ f \in Nat /\ c \in Nat /\ h \in Nat /\ d \in Nat /\ w \in Nat /\ m \in Nat
      /\ d < w
  BY <1>1, Sizes
<1>3. SatAdd(SatAdd(SatAdd(f, c), m), h) <= d
  BY <1>1 DEF CapacityIsValid, Minimum
<1>4. PICK x, y, z : x = SatAdd(f, c) /\ y = SatAdd(x, m) /\ z = SatAdd(y, h)
  OBVIOUS
<1>5. x \in Nat /\ y \in Nat /\ z \in Nat
  BY <1>2, <1>4, SatAddIsExact
<1>6. z <= d /\ z < w
  BY <1>2, <1>3, <1>4, <1>5
<1>7. z = y + h
  BY <1>1, <1>2, <1>4, <1>5, <1>6, SatAddIsExact
<1>8. y < w /\ y = x + m
  <2>1. y < w
    BY <1>2, <1>5, <1>6, <1>7
  <2> QED
    BY <1>1, <1>2, <1>4, <1>5, <2>1, SatAddIsExact
<1>9. x < w /\ x = f + c
  <2>1. x < w
    BY <1>2, <1>5, <1>8
  <2> QED
    BY <1>1, <1>2, <1>4, <1>5, <2>1, SatAddIsExact
<1>10. f + c + m + h <= d /\ f < w
  BY <1>2, <1>5, <1>6, <1>7, <1>8, <1>9
<1>11. PICK s \in [0..Len(plan) -> 0..MaxWord] :
         /\ s[0] = 0 /\ s[Len(plan)] = FixedSize
         /\ \A k \in 1..Len(plan) : s[k] = SatAdd(s[k - 1], FixedPart(plan[k]))
  BY FixedSums
<1>12. /\ PlanSums(s)
       /\ \A k \in 0..Len(plan) : s[k] <= MaxWord
  <2>1. PICK N \in Nat : N = Len(plan)
    OBVIOUS
  <2>2. s \in [0..N -> Nat] /\ \A k \in 0..N : s[k] <= MaxWord
    BY <1>2, <1>1, <1>11, <2>1
  <2>3. \A k \in 1..N : k - 1 \in 0..N /\ k \in 0..N
    OBVIOUS
  <2>4. \A k \in 1..N : FixedPart(plan[k]) \in Nat
    BY <2>1, PlanSizes
  <2>5. ASSUME NEW k \in 1..N
        PROVE  /\ s[k - 1] <= s[k]
               /\ s[k] < MaxWord => s[k] = s[k - 1] + FixedPart(plan[k])
    <3>1. s[k - 1] \in Nat /\ s[k - 1] <= MaxWord /\ FixedPart(plan[k]) \in Nat
      BY <2>2, <2>3, <2>4
    <3>2. s[k] = SatAdd(s[k - 1], FixedPart(plan[k]))
      BY <1>11, <2>1
    <3>3. /\ SatAdd(s[k - 1], FixedPart(plan[k])) < MaxWord =>
               SatAdd(s[k - 1], FixedPart(plan[k])) = s[k - 1] + FixedPart(plan[k])
          /\ s[k - 1] <= SatAdd(s[k - 1], FixedPart(plan[k]))
      BY <3>1, SatAddIsExact
    <3> QED
      BY <3>2, <3>3
  <2>6. \A k \in 0..N : s[k] <= s[N]
    BY <2>2, <2>5, SumsGrow
  <2>7. \A k \in 0..N : s[k] < MaxWord
    <3> TAKE k \in 0..N
    <3>1. s[k] <= f
      BY <1>1, <1>11, <2>1, <2>6
    <3>2. s[k] \in Nat
      BY <2>2
    <3> QED
      BY <1>1, <1>2, <1>10, <3>1, <3>2
  <2>8. \A k \in 1..N : s[k] = s[k - 1] + FixedPart(plan[k])
    BY <2>3, <2>5, <2>7
  <2> QED
    BY <1>11, <2>1, <2>2, <2>8 DEF PlanSums
<1>13. RemainingSize = (d - f - c - h) % (w + 1)
  BY <1>1, <1>11, <1>12, WrappedSums
<1>14. (d - f - c - h) \in 0..w
  BY <1>2, <1>10
<1>15. (d - f - c - h) % (w + 1) = d - f - c - h
  BY <1>2, <1>14
<1>16. RemainingSize = d - f - c - h
  BY <1>13, <1>15
<1>17. RemainingSize \in Nat /\ RemainingSize >= m
  BY <1>2, <1>10, <1>16
<1> QED
  BY <1>1, <1>11, <1>12, <1>16, <1>17

------------------------------------------------------------------------------
(* How many letters there are. *)

LEMMA NamedLettersAreFinite == IsFiniteSet(NamedLetter)
<1> DEFINE seq == <<"D", "E", "F", "G", "H", "I", "J", "K", "L", "M", "N", "O", "P", "Q",
                    "S", "T", "U", "V", "X", "Y", "Z">>
<1>1. seq \in Seq(NamedLetter) /\ Len(seq) = 21
  BY DEF NamedLetter
<1>2. \A l \in NamedLetter : \E n \in 1..21 : seq[n] = l
  BY DEF NamedLetter
<1> QED
  BY <1>1, <1>2 DEF IsFiniteSet

LEMMA AtMostThree ==
  ASSUME NEW a, NEW b, NEW c, NEW S, S \subseteq {a, b, c}
  PROVE  IsFiniteSet(S) /\ Cardinality(S) \in Nat /\ Cardinality(S) <= 3
<1>1. IsFiniteSet({a}) /\ Cardinality({a}) = 1
  BY FS_Singleton
<1>2. IsFiniteSet({a} \cup {b}) /\ Cardinality({a} \cup {b}) \in 1..2
  BY <1>1, FS_AddElement
<1>3. IsFiniteSet(({a} \cup {b}) \cup {c}) /\ Cardinality(({a} \cup {b}) \cup {c}) \in 1..3
  BY <1>2, FS_AddElement
<1>4. {a, b, c} = ({a} \cup {b}) \cup {c}
  OBVIOUS
<1>5. IsFiniteSet({a, b, c}) /\ Cardinality({a, b, c}) \in 1..3
  BY <1>3, <1>4
<1>6. IsFiniteSet(S) /\ Cardinality(S) <= Cardinality({a, b, c})
  BY <1>5, FS_Subset
<1> QED
  BY <1>5, <1>6, FS_CardinalityType

LEMMA OneElement ==
  ASSUME plan \in Seq(Partition), NEW S, S \subseteq DOMAIN plan, Cardinality(S) = 1
  PROVE  \E k \in DOMAIN plan : S = {k}
<1>1. IsFiniteSet(DOMAIN plan)
  <2>1. DOMAIN plan = 1..Len(plan) /\ Len(plan) \in Int
    OBVIOUS
  <2> QED
    BY <2>1, FS_Interval
<1>2. IsFiniteSet(S)
  BY <1>1, FS_Subset
<1>3. PICK k : S = {k}
  BY <1>2, FS_Singleton
<1> QED
  BY <1>3

\* What an accepted plan has beside its Data partitions.
LEMMA BesideData ==
  ASSUME plan \in Seq(Partition), table \in {"gpt", "mbr"}, PlanIsValid,
         Roles("recovery") = {}
  PROVE  \E w, b, m \in DOMAIN plan :
           /\ Roles("windows") = {w}
           /\ Roles("efi") \cup Roles("system") = {b}
           /\ Roles("msr") \subseteq {m}
           /\ \A k \in DOMAIN plan : plan[k].role # "data" => k \in {w, b, m}
           /\ table = "mbr" => m = b
<1>1. PICK w \in DOMAIN plan : Roles("windows") = {w}
  <2>1. Roles("windows") \subseteq DOMAIN plan /\ Cardinality(Roles("windows")) = 1
    BY DEF PlanIsValid, Roles
  <2> QED
    BY <2>1, OneElement
<1>2. ASSUME NEW k \in DOMAIN plan
      PROVE  \/ plan[k].role = "data" \/ k \in Roles("windows")
             \/ k \in Roles("efi") \/ k \in Roles("system") \/ k \in Roles("msr")
  <2>1. plan[k].role \in Role /\ k \notin Roles("recovery")
    BY PlanSizes
  <2> QED
    BY <2>1 DEF Role, Roles
<1>3. CASE table = "gpt"
  <2>1. PICK b \in DOMAIN plan : Roles("efi") = {b}
    <3>1. Roles("efi") \subseteq DOMAIN plan /\ Cardinality(Roles("efi")) = 1
      BY <1>3 DEF PlanIsValid, Roles
    <3> QED
      BY <3>1, OneElement
  <2>2. PICK m \in DOMAIN plan : Roles("msr") = {m}
    <3>1. Roles("msr") \subseteq DOMAIN plan /\ Cardinality(Roles("msr")) = 1
      BY <1>3 DEF PlanIsValid, Roles
    <3> QED
      BY <3>1, OneElement
  <2>3. Roles("system") = {}
    BY <1>3 DEF PlanIsValid
  <2>4. \A k \in DOMAIN plan : plan[k].role # "data" => k \in {w, b, m}
    BY <1>1, <1>2, <2>1, <2>2, <2>3
  <2> QED
    BY <1>1, <1>3, <2>1, <2>2, <2>3, <2>4
<1>4. CASE table = "mbr"
  <2>1. PICK b \in DOMAIN plan : Roles("system") = {b}
    <3>1. Roles("system") \subseteq DOMAIN plan /\ Cardinality(Roles("system")) = 1
      BY <1>4 DEF PlanIsValid, Roles
    <3> QED
      BY <3>1, OneElement
  <2>2. Roles("efi") = {} /\ Roles("msr") = {}
    BY <1>4 DEF PlanIsValid
  <2>3. \A k \in DOMAIN plan : plan[k].role # "data" => k \in {w, b}
    BY <1>1, <1>2, <2>1, <2>2
  <2> QED
    BY <1>1, <2>1, <2>2, <2>3
<1> QED
  BY <1>3, <1>4

\* What the scripts may put on a disk.
VolumeLetter == {"S", "W", "D", "R", NoLetter} \cup {p.letter : p \in Partition}

Volume == [role : Role \cup {"cache"}, size : Nat, letter : VolumeLetter, logical : BOOLEAN]

LettersDiffer ==
  \A k, m \in DOMAIN volumes :
    volumes[k].letter = volumes[m].letter /\ volumes[k].letter # NoLetter => k = m

\* The scripts so far are those of the plan.
Planned(k) == IF k <= Len(plan) THEN Paragraph(k) ELSE CacheParagraph

AsPlanned ==
  /\ Len(volumes) <= Paragraphs
  /\ \A k \in DOMAIN volumes : volumes[k] = Planned(k)

\* A Data partition has a letter that no other has, so there are not more of them
\* than letters; beside them there are three.
LEMMA LettersBoundThePlan ==
  ASSUME plan \in Seq(Partition), volumes \in Seq(Volume), table \in {"gpt", "mbr"},
         PlanIsValid, Roles("recovery") = {},
         AsPlanned, LettersDiffer, Len(volumes) <= Len(plan)
  PROVE  Len(volumes) <= Cardinality(NamedLetter) + 3
<1> DEFINE n == Len(volumes)
           D == {k \in 1..n : plan[k].role = "data"}
           O == (1..n) \ D
           f == [k \in D |-> AssignedLetter(plan[k])]
<1>1. n \in Nat /\ 1..n \subseteq DOMAIN plan /\ DOMAIN volumes = 1..n
  OBVIOUS
<1>2. \A k \in D : volumes[k].letter = f[k] /\ k \in DOMAIN volumes
  <2> TAKE k \in D
  <2>1. k \in DOMAIN volumes /\ k <= Len(plan)
    OBVIOUS
  <2>2. volumes[k] = Paragraph(k)
    BY <2>1 DEF AsPlanned, Planned
  <2>3. volumes[k].letter = AssignedLetter(plan[k])
    BY <2>2 DEF Paragraph
  <2> QED
    BY <2>1, <2>3
<1>3. \A k \in D : f[k] \in NamedLetter
  <2> TAKE k \in D
  <2>1. k \in DOMAIN plan /\ plan[k].role = "data"
    BY <1>1
  <2>2. plan[k].letter # NoLetter => plan[k].letter \in NamedLetter
    BY <2>1 DEF PlanIsValid
  <2>3. AssignedLetter(plan[k]) = IF plan[k].letter = NoLetter THEN "D" ELSE plan[k].letter
    BY <2>1 DEF AssignedLetter
  <2>4. "D" \in NamedLetter
    BY DEF NamedLetter
  <2> QED
    BY <2>2, <2>3, <2>4
<1>4. NoLetter \notin NamedLetter
  BY DEF NoLetter, NamedLetter
<1>5. f \in Injection(D, NamedLetter)
  <2>1. f \in [D -> NamedLetter]
    BY <1>3
  <2>2. \A k, m \in D : f[k] = f[m] => k = m
    <3> HIDE DEF f, D
    <3> QED
      BY <1>2, <1>3, <1>4 DEF LettersDiffer
  <2>3. DOMAIN f = D
    OBVIOUS
  <2> HIDE DEF f, D
  <2> QED
    BY <2>1, <2>2, <2>3 DEF Injection, IsInjective
<1>6. IsFiniteSet(D) /\ Cardinality(D) \in Nat /\ Cardinality(D) <= Cardinality(NamedLetter)
  <2> HIDE DEF f, D
  <2> QED
    BY <1>5, NamedLettersAreFinite, FS_Injection, FS_CardinalityType
<1>7. IsFiniteSet(O) /\ Cardinality(O) \in Nat /\ Cardinality(O) <= 3
  <2>1. PICK w, b, m \in DOMAIN plan :
          \A k \in DOMAIN plan : plan[k].role # "data" => k \in {w, b, m}
    BY BesideData
  <2>2. O \subseteq {w, b, m}
    BY <1>1, <2>1
  <2> HIDE DEF O
  <2> QED
    BY <2>2, AtMostThree
<1>8. Cardinality(D \cup O) = n
  <2>1. Cardinality(1..n) = n
    <3>1. 1 \in Int /\ n \in Int
      BY <1>1
    <3>2. Cardinality(1..n) = IF 1 > n THEN 0 ELSE n - 1 + 1
      <4> HIDE DEF n
      <4> QED
        BY <3>1, FS_Interval
    <3> HIDE DEF n
    <3> QED
      BY <1>1, <3>2
  <2>2. 1..n = D \cup O
    OBVIOUS
  <2> HIDE DEF D, O, n
  <2> QED
    BY <2>1, <2>2
<1>9. Cardinality(D \cup O) = Cardinality(D) + Cardinality(O) - Cardinality(D \cap O)
  <2> HIDE DEF D, O
  <2> QED
    BY <1>6, <1>7, FS_Union
<1>10. D \cap O = {}
  OBVIOUS
<1>11. Cardinality(D \cap O) = 0
  BY <1>10, FS_EmptySet
<1>12. Cardinality(NamedLetter) \in Nat
  BY NamedLettersAreFinite, FS_CardinalityType
<1> HIDE DEF D, O, n
<1>13. n <= Cardinality(NamedLetter) + 3
  <2>1. PICK d, o, l \in Nat :
          d = Cardinality(D) /\ o = Cardinality(O) /\ l = Cardinality(NamedLetter)
    BY <1>6, <1>7, <1>12
  <2>2. n = d + o
    BY <1>8, <1>9, <1>11, <2>1
  <2>3. d <= l /\ o <= 3
    BY <1>6, <1>7, <2>1
  <2> QED
    BY <2>1, <2>2, <2>3
<1> QED
  BY <1>13 DEF n

------------------------------------------------------------------------------
(* The space on the disk. *)

LEMMA Multiples ==
  ASSUME NEW a \in Nat, NEW x \in Nat, NEW y \in Nat, x <= y
  PROVE  a * x \in Nat /\ a * y \in Nat /\ a * x <= a * y /\ a * (x + 1) = a * x + a
<1>1. PICK z \in Nat : y = x + z
  <2>1. y - x \in Nat /\ y = x + (y - x)
    OBVIOUS
  <2> QED
    BY <2>1
<1>2. a * y = a * x + a * z /\ a * z \in Nat
  BY <1>1
<1> QED
  BY <1>2

LEMMA AlignmentFits ==
  ASSUME plan \in Seq(Partition), volumes \in Seq(Volume), table \in {"gpt", "mbr"},
         Len(plan) <= MaxPartitions, PlanIsValid, Roles("recovery") = {},
         AsPlanned, LettersDiffer, Len(volumes) <= Len(plan)
  PROVE  Alignment * (Len(volumes) + 1) <= AlignmentHeadroom
<1>1. PICK n \in Nat, l \in Nat :
        n = Len(volumes) /\ l = Cardinality(NamedLetter)
  BY NamedLettersAreFinite, FS_CardinalityType
<1>2. n <= l + 3 /\ n <= MaxPartitions
  BY <1>1, LettersBoundThePlan, RoomForAlignment
<1>3. /\ Alignment \in Nat /\ MaxPartitions \in Nat /\ AlignmentHeadroom \in Nat
      /\ \/ AlignmentHeadroom >= Alignment * (l + 4)
         \/ AlignmentHeadroom >= Alignment * (MaxPartitions + 1)
  BY <1>1, RoomForAlignment, SizesAssumption
<1>4. CASE AlignmentHeadroom >= Alignment * (l + 4)
  <2>1. Alignment * (n + 1) <= Alignment * (l + 4) /\ Alignment * (n + 1) \in Nat
    BY <1>2, <1>3, Multiples
  <2>2. Alignment * (l + 4) \in Nat
    BY <1>3, Multiples
  <2> QED
    BY <1>1, <1>3, <1>4, <2>1, <2>2
<1>5. CASE AlignmentHeadroom >= Alignment * (MaxPartitions + 1)
  <2>1. /\ Alignment * (n + 1) <= Alignment * (MaxPartitions + 1)
        /\ Alignment * (n + 1) \in Nat /\ Alignment * (MaxPartitions + 1) \in Nat
    BY <1>2, <1>3, Multiples
  <2> QED
    BY <1>1, <1>3, <1>5, <2>1
<1> QED
  BY <1>3, <1>4, <1>5

\* What a partition takes of the disk, and the first k of them with the space
\* their alignment may lose.
LEMMA UsedIsExact ==
  ASSUME plan \in Seq(Partition), volumes \in Seq(Volume), AsPlanned,
         NEW s, PlanSums(s), NEW r \in DOMAIN plan, Remainder = {r},
         RemainingSize \in Nat, Len(volumes) <= Len(plan)
  PROVE  Used = s[Len(volumes)] + (IF r <= Len(volumes) THEN RemainingSize ELSE 0)
                  + Alignment * Len(volumes)
<1> DEFINE n == Len(volumes)
           Rest(k) == IF r <= k THEN RemainingSize ELSE 0
           u == [k \in 0..n |-> s[k] + Rest(k) + Alignment * k]
           Step(f) == [k \in 0..n |-> IF k = 0 THEN 0 ELSE f[k - 1] + volumes[k].size + Alignment]
           F == CHOOSE f : f = Step(f)
<1>1. /\ n \in Nat /\ DOMAIN volumes = 1..n /\ 1..n \subseteq DOMAIN plan
      /\ Alignment \in Nat /\ DOMAIN plan = 1..Len(plan) /\ r \in Nat /\ r >= 1
  BY RoomForAlignment
<1>2. Used = F[n]
  BY DEF Used
<1>3. u[n] = s[n] + Rest(n) + Alignment * n /\ u[0] = s[0] + Rest(0) + Alignment * 0
  BY <1>1
<1>4. ASSUME NEW k \in 1..n
      PROVE  u[k] = u[k - 1] + volumes[k].size + Alignment
  <2>1. u[k] = s[k] + Rest(k) + Alignment * k
    BY <1>1
  <2>2. k - 1 \in 0..n /\ k \in 0..n /\ k - 1 \in Nat
    BY <1>1
  <2>3. u[k - 1] = s[k - 1] + Rest(k - 1) + Alignment * (k - 1)
    BY <2>2
  <2>4. /\ s[k] = s[k - 1] + FixedPart(plan[k]) /\ s[k] \in Nat /\ s[k - 1] \in Nat
    <3>1. k \in 1..Len(plan) /\ k \in 0..Len(plan) /\ k - 1 \in 0..Len(plan)
      <4>1. k \in DOMAIN plan /\ Len(plan) \in Nat
        BY <1>1
      <4> QED
        BY <1>1, <4>1
    <3> QED
      BY <3>1 DEF PlanSums
  <2>5. Alignment * k = Alignment * (k - 1) + Alignment /\ Alignment * (k - 1) \in Nat
    <3>1. Alignment * ((k - 1) + 1) = Alignment * (k - 1) + Alignment
      BY <1>1, <2>2, Multiples
    <3>2. (k - 1) + 1 = k
      BY <1>1
    <3> QED
      BY <1>1, <2>2, <3>1, <3>2, Multiples
  <2>6. volumes[k].size = IF plan[k].size = Remaining THEN RemainingSize ELSE plan[k].size
    <3>1. k \in DOMAIN volumes /\ k <= Len(plan)
      BY <1>1
    <3>2. volumes[k] = Paragraph(k)
      BY <3>1 DEF AsPlanned, Planned
    <3> QED
      BY <3>2 DEF Paragraph
  <2>7. plan[k].size = Remaining <=> k = r
    <3>1. k \in DOMAIN plan
      BY <1>1
    <3> QED
      BY <3>1 DEF Remainder
  <2>8. plan[k].size \in {Remaining} \cup 0..MaxWord /\ MaxWord \in Nat
    <3>1. k \in 1..Len(plan)
      BY <1>1
    <3> QED
      BY <3>1, PlanSizes, SizesAssumption
  <2>9. Rest(k) + FixedPart(plan[k]) = Rest(k - 1) + volumes[k].size
    <3>1. CASE k = r
      BY <1>1, <2>2, <2>6, <2>7, <3>1 DEF FixedPart
    <3>2. CASE k # r
      BY <1>1, <2>2, <2>6, <2>7, <2>8, <3>2 DEF FixedPart
    <3> QED
      BY <3>1, <3>2
  <2>10. PICK x, y \in Nat, p, q, v \in Nat, a, b \in Nat :
           /\ x = s[k] /\ y = s[k - 1] /\ p = Rest(k) /\ q = Rest(k - 1)
           /\ v = volumes[k].size /\ a = Alignment * (k - 1) /\ b = FixedPart(plan[k])
    <3>1. FixedPart(plan[k]) \in Nat /\ volumes[k].size \in Nat
      BY <2>6, <2>8, <2>7 DEF FixedPart
    <3> QED
      BY <2>4, <2>5, <3>1
  <2> HIDE DEF u, Rest, n
  <2>11. x + p + (a + Alignment) = y + q + a + v + Alignment
    <3>1. x = y + b /\ p + b = q + v
      BY <2>4, <2>9, <2>10
    <3>2. x \in Nat /\ y \in Nat /\ p \in Nat /\ q \in Nat /\ v \in Nat /\ a \in Nat
          /\ b \in Nat /\ Alignment \in Nat
      BY <1>1, <2>10
    <3> QED
      BY <3>1, <3>2
  <2>12. u[k] = x + p + (a + Alignment) /\ u[k - 1] = y + q + a /\ volumes[k].size = v
    BY <2>1, <2>3, <2>5, <2>10
  <2> QED
    BY <2>11, <2>12
<1>5. u[0] = 0
  <2>1. s[0] = 0 /\ Rest(0) = 0 /\ Alignment * 0 = 0
    BY <1>1 DEF PlanSums
  <2> QED
    BY <1>3, <2>1
<1>6. u = [k \in 0..n |-> u[k]]
  OBVIOUS
<1> HIDE DEF u, n
<1>7. u = Step(u)
  <2>1. \A k \in 0..n : u[k] = IF k = 0 THEN 0 ELSE u[k - 1] + volumes[k].size + Alignment
    BY <1>1, <1>4, <1>5
  <2> QED
    BY <1>6, <2>1
<1>8. F = Step(F)
  <2> HIDE DEF Step
  <2> QED
    BY <1>7
<1> HIDE DEF F
<1>9. F[0] = 0 /\ (\A k \in 1..n : F[k] = F[k - 1] + volumes[k].size + Alignment)
  BY <1>1, <1>8
<1>10. \A k \in 0..n : F[k] = u[k]
  <2> DEFINE S == {k \in 0..n : F[k] = u[k]}
  <2>1. 0 \in S /\ \A k \in 1..n : k - 1 \in S => k \in S
    BY <1>1, <1>4, <1>5, <1>9
  <2>2. \A k \in 0..n : k \in S
    <3> HIDE DEF S
    <3> QED
      BY <1>1, <2>1, UpTo
  <2> QED
    BY <2>2
<1>11. F[n] = u[n]
  BY <1>1, <1>10
<1> QED
  BY <1>2, <1>3, <1>11, Zenon DEF n

\* The state between two paragraphs of the scripts of an accepted plan.
BetweenParagraphs ==
  /\ Submitted /\ table \in {"gpt", "mbr"}
  /\ plan \in Seq(Partition) /\ Len(plan) <= MaxPartitions /\ volumes \in Seq(Volume)
  /\ LayoutIsAccepted /\ AsPlanned /\ LettersDiffer
  /\ Len(volumes) < Paragraphs

LEMMA OneRemainder ==
  ASSUME plan \in Seq(Partition), PlanIsValid
  PROVE  \E r \in DOMAIN plan : Remainder = {r} /\ plan[r].role \in {"windows", "data"}
<1>1. Remainder \subseteq DOMAIN plan /\ Cardinality(Remainder) = 1
  BY DEF PlanIsValid, Remainder
<1>2. PICK r \in DOMAIN plan : Remainder = {r}
  BY <1>1, OneElement
<1> QED
  BY <1>2 DEF PlanIsValid

LEMMA NextIsPlanned ==
  ASSUME plan \in Seq(Partition), volumes \in Seq(Volume), Len(volumes) < Paragraphs
  PROVE  /\ NextParagraph = Planned(Len(volumes) + 1)
         /\ Len(volumes) \in Nat /\ Len(plan) \in Nat /\ Len(volumes) <= Len(plan)
<1>1. Len(volumes) \in Nat /\ Len(plan) \in Nat /\ Len(volumes) <= Len(plan)
  BY DEF Paragraphs
<1>2. CASE Len(volumes) < Len(plan)
  <2>1. Len(volumes) + 1 <= Len(plan)
    BY <1>1, <1>2
  <2> QED
    BY <1>1, <1>2, <2>1, Zenon DEF NextParagraph, Planned
<1>3. CASE ~(Len(volumes) < Len(plan))
  <2>1. ~(Len(volumes) + 1 <= Len(plan))
    BY <1>1, <1>3
  <2> QED
    BY <1>1, <1>3, <2>1, Zenon DEF NextParagraph, Planned
<1> QED
  BY <1>2, <1>3

\* The next paragraph fits: the cache and the remaining partition were sized with
\* the headroom left over.
LEMMA RoomForNext ==
  ASSUME BetweenParagraphs
  PROVE  ~(Used + Alignment + NextParagraph.size > order.disk)
<1>1. /\ Submitted /\ plan \in Seq(Partition) /\ volumes \in Seq(Volume)
      /\ PlanIsValid /\ CapacityIsValid /\ AsPlanned
      /\ NextParagraph = Planned(Len(volumes) + 1)
      /\ Len(volumes) <= Len(plan)
  BY NextIsPlanned DEF BetweenParagraphs, LayoutIsAccepted
<1>2. PICK s : PlanSums(s) /\ s[Len(plan)] = FixedSize
  BY <1>1, CapacityIsExact
<1>3. PICK r \in DOMAIN plan : Remainder = {r}
  BY <1>1, OneRemainder
<1>4. PICK n \in Nat, N \in Nat : n = Len(volumes) /\ N = Len(plan) /\ n <= N
  BY <1>1
<1>5. PICK f \in Nat, c \in Nat, h \in Nat, d \in Nat, R \in Nat :
        /\ f = FixedSize /\ c = CacheSize /\ h = AlignmentHeadroom /\ d = order.disk
        /\ R = RemainingSize /\ R = d - f - c - h
  <2>1. /\ FixedSize \in 0..MaxWord /\ MaxWord \in Nat /\ CacheSize \in Nat
        /\ AlignmentHeadroom \in Nat /\ order.disk \in Nat
    BY <1>1, Sizes
  <2>2. FixedSize \in Nat
    BY <2>1
  <2>3. /\ RemainingSize = order.disk - FixedSize - CacheSize - AlignmentHeadroom
        /\ RemainingSize \in Nat
    BY <1>1, CapacityIsExact
  <2> QED
    BY <2>1, <2>2, <2>3, Zenon
<1>6. /\ s \in [0..N -> Nat] /\ s[N] = f
      /\ \A k \in 1..N : s[k] = s[k - 1] + FixedPart(plan[k])
  BY <1>2, <1>4, <1>5 DEF PlanSums
<1>7. PICK A \in Nat, t \in Nat : A = Alignment /\ t = Alignment * n
  BY RoomForAlignment, Multiples
<1>8. t + A <= h
  <2>1. Alignment * (n + 1) <= AlignmentHeadroom
    BY <1>4, AlignmentFits DEF BetweenParagraphs, LayoutIsAccepted
  <2>2. Alignment * (n + 1) = Alignment * n + Alignment
    BY RoomForAlignment, Multiples
  <2> QED
    BY <1>5, <1>7, <2>1, <2>2
<1>9. Used = s[n] + (IF r <= n THEN R ELSE 0) + t
  BY <1>1, <1>2, <1>3, <1>4, <1>5, <1>7, UsedIsExact
<1>10. r \in 1..N
  BY <1>1, <1>3, <1>4
<1>11. CASE n < N
  <2>1. n + 1 \in 1..N /\ n + 1 \in 0..N /\ n \in 0..N /\ N \in 0..N
    BY <1>4, <1>11
  <2>2. NextParagraph.size = IF plan[n + 1].size = Remaining THEN R ELSE plan[n + 1].size
    <3>1. NextParagraph = Paragraph(n + 1)
      BY <1>1, <1>4, <2>1 DEF Planned
    <3> QED
      BY <1>5, <3>1 DEF Paragraph
  <2>3. plan[n + 1].size = Remaining <=> n + 1 = r
    BY <1>1, <1>3, <1>4, <2>1 DEF Remainder
  <2>4. plan[n + 1].size \in {Remaining} \cup 0..MaxWord /\ MaxWord \in Nat
    BY <1>1, <1>4, <2>1, PlanSizes, SizesAssumption
  <2>5. \A k \in 1..N : FixedPart(plan[k]) \in Nat /\ k - 1 \in 0..N /\ k \in 0..N
    BY <1>1, <1>4, PlanSizes, SizesAssumption
  <2>6. s[n + 1] <= f
    <3>1. \A k \in 1..N : s[k - 1] <= s[k]
      BY <1>6, <2>5
    <3>2. \A k \in 0..N : s[k] <= s[N]
      BY <1>6, <3>1, SumsGrow
    <3> QED
      BY <1>6, <2>1, <3>2
  <2>7. s[n + 1] = s[n] + FixedPart(plan[n + 1]) /\ s[n] \in Nat /\ s[n + 1] \in Nat
    <3>1. (n + 1) - 1 = n
      BY <1>4
    <3>2. s[n + 1] = s[(n + 1) - 1] + FixedPart(plan[n + 1])
      BY <1>6, <2>1
    <3> QED
      BY <1>6, <2>1, <3>1, <3>2
  <2>8. PICK x \in Nat, y \in Nat, p \in Nat, z \in Nat :
          /\ x = s[n] /\ y = s[n + 1] /\ p = FixedPart(plan[n + 1]) /\ z = NextParagraph.size
    <3>1. NextParagraph.size \in Nat
      BY <2>2, <2>4
    <3> QED
      BY <2>1, <2>5, <2>7, <3>1
  <2>9. y <= f /\ y = x + p
    BY <2>6, <2>7, <2>8
  <2>10. CASE n + 1 = r
    <3>1. z = R /\ ~(r <= n)
      BY <1>4, <2>2, <2>3, <2>8, <2>10
    <3>2. Used = x + t
      BY <1>9, <2>8, <3>1, <1>7
    <3>3. x + t + A + R <= d
      BY <1>5, <1>7, <1>8, <2>8, <2>9
    <3> QED
      BY <1>5, <1>7, <2>8, <3>1, <3>2, <3>3
  <2>11. CASE n + 1 # r
    <3>1. z = p
      BY <2>2, <2>3, <2>8, <2>11 DEF FixedPart
    <3>2. PICK q \in Nat : Used = x + q + t /\ q <= R
      BY <1>5, <1>9, <2>8
    <3>3. x + q + t + A + p <= d
      BY <1>5, <1>7, <1>8, <2>8, <2>9, <3>2
    <3> QED
      BY <1>5, <1>7, <2>8, <3>1, <3>2, <3>3
  <2> QED
    BY <2>10, <2>11
<1>12. CASE n = N
  <2>1. NextParagraph.size = c
    <3>1. ~(n + 1 <= N)
      BY <1>4, <1>12
    <3>2. NextParagraph = CacheParagraph
      BY <1>1, <1>4, <3>1 DEF Planned
    <3> QED
      BY <1>5, <3>2 DEF CacheParagraph
  <2>2. Used = f + R + t
    <3>1. r <= n /\ s[n] = f
      BY <1>6, <1>10, <1>12
    <3> QED
      BY <1>9, <3>1
  <2>3. f + R + t + A + c <= d
    BY <1>5, <1>7, <1>8
  <2> QED
    BY <1>5, <1>7, <2>1, <2>2, <2>3
<1> QED
  BY <1>4, <1>11, <1>12

------------------------------------------------------------------------------
(* The partition table. *)

LEMMA PlannedIsLogical ==
  ASSUME NEW k \in Nat, k <= Len(plan) + 1, Len(plan) \in Nat
  PROVE  Planned(k).logical
           = (UsesExtended /\ (k <= Len(plan) => plan[k].role = "data"))
<1>1. CASE k <= Len(plan)
  <2>1. Planned(k) = Paragraph(k)
    BY <1>1 DEF Planned
  <2>2. Paragraph(k).logical = (UsesExtended /\ plan[k].role = "data")
    BY DEF Paragraph
  <2> QED
    BY <1>1, <2>1, <2>2, Zenon
<1>2. CASE ~(k <= Len(plan))
  <2>1. Planned(k) = CacheParagraph
    BY <1>2 DEF Planned
  <2>2. CacheParagraph.logical = UsesExtended /\ UsesExtended \in BOOLEAN
    BY DEF CacheParagraph, UsesExtended
  <2> QED
    BY <1>2, <2>1, <2>2
<1> QED
  BY <1>1, <1>2

LEMMA NoPrimaryBehindLogicals ==
  ASSUME BetweenParagraphs, NEW k \in DOMAIN volumes, volumes[k].logical
  PROVE  NextParagraph.logical
<1>1. /\ plan \in Seq(Partition) /\ volumes \in Seq(Volume) /\ AsPlanned /\ ExtendedIsLast
      /\ NextParagraph = Planned(Len(volumes) + 1)
      /\ Len(volumes) <= Len(plan)
  BY NextIsPlanned DEF BetweenParagraphs, LayoutIsAccepted
<1>2. PICK n \in Nat, N \in Nat : n = Len(volumes) /\ N = Len(plan) /\ n <= N
  BY <1>1
<1>3. k \in 1..n /\ DOMAIN plan = 1..N
  BY <1>1, <1>2
<1>4. volumes[k] = Planned(k)
  BY <1>1 DEF AsPlanned
<1>5. UsesExtended /\ plan[k].role = "data"
  <2>1. k \in Nat /\ k <= Len(plan) /\ k <= Len(plan) + 1 /\ Len(plan) \in Nat
    BY <1>2, <1>3
  <2> QED
    BY <1>4, <2>1, PlannedIsLogical
<1>6. n + 1 <= N => plan[n + 1].role = "data"
  <2>1. k \in DOMAIN plan /\ (n + 1 <= N => n + 1 \in DOMAIN plan /\ n + 1 > k)
    BY <1>2, <1>3
  <2> QED
    BY <1>1, <1>5, <2>1 DEF ExtendedIsLast
<1>7. n + 1 \in Nat /\ n + 1 <= Len(plan) + 1 /\ Len(plan) \in Nat
  BY <1>2
<1> QED
  BY <1>1, <1>2, <1>5, <1>6, <1>7, PlannedIsLogical

\* Beside the container there are the Windows and the boot partition; and without
\* one there are at most these, one Data partition and the cache.
LEMMA EntriesFit ==
  ASSUME BetweenParagraphs, table = "mbr"
  PROVE  ~(Entries(Append(volumes, NextParagraph)) > 4)
<1>1. /\ plan \in Seq(Partition) /\ volumes \in Seq(Volume) /\ AsPlanned
      /\ NextParagraph = Planned(Len(volumes) + 1)
      /\ Len(volumes) <= Len(plan) /\ PlanIsValid /\ Roles("recovery") = {}
  BY NextIsPlanned DEF BetweenParagraphs, LayoutIsAccepted
<1>2. PICK n \in Nat, N \in Nat : n = Len(volumes) /\ N = Len(plan) /\ n <= N
  BY <1>1
<1>3. PICK w, b \in DOMAIN plan :
        \A k \in DOMAIN plan : plan[k].role # "data" => k \in {w, b}
  BY <1>1, BesideData
<1> DEFINE vs == Append(volumes, NextParagraph)
           P == {k \in DOMAIN vs : ~vs[k].logical}
<1>4. /\ DOMAIN vs = 1..(n + 1)
      /\ \A k \in 1..(n + 1) : vs[k] = Planned(k)
  <2>1. DOMAIN vs = 1..(n + 1) /\ vs[n + 1] = NextParagraph
        /\ \A k \in 1..n : vs[k] = volumes[k]
    BY <1>1, <1>2
  <2>2. \A k \in 1..n : volumes[k] = Planned(k)
    BY <1>1, <1>2 DEF AsPlanned
  <2>3. \A k \in 1..(n + 1) : k \in 1..n \/ k = n + 1
    BY <1>2
  <2> HIDE DEF vs
  <2> QED
    BY <1>1, <1>2, <2>1, <2>2, <2>3
<1>5. \A k \in 1..(n + 1) :
        vs[k].logical = (UsesExtended /\ (k <= N => plan[k].role = "data"))
  <2> TAKE k \in 1..(n + 1)
  <2>1. k \in Nat /\ k <= Len(plan) + 1 /\ Len(plan) \in Nat
    BY <1>2
  <2> HIDE DEF vs
  <2> QED
    BY <1>2, <1>4, <2>1, PlannedIsLogical
<1>6. DOMAIN plan = 1..N
  BY <1>1, <1>2
<1>7. Entries(vs) = Cardinality(P) + (IF P = DOMAIN vs THEN 0 ELSE 1)
  BY DEF Entries
<1> HIDE DEF vs
<1>8. CASE UsesExtended
  <2>1. P \subseteq {w, b, b}
    <3> SUFFICES ASSUME NEW k \in P PROVE k \in {w, b, b}
      OBVIOUS
    <3>1. k \in 1..(n + 1) /\ k <= N /\ plan[k].role # "data"
      BY <1>4, <1>5, <1>8
    <3>2. k \in DOMAIN plan
      BY <1>2, <1>6, <3>1
    <3> QED
      BY <1>3, <3>1, <3>2
  <2>2. Cardinality(P) \in Nat /\ Cardinality(P) <= 3
    <3> HIDE DEF P
    <3> QED
      BY <2>1, AtMostThree
  <2> HIDE DEF P
  <2>3. Entries(vs) \in Nat /\ Entries(vs) <= 4
    BY <1>7, <2>2
  <2> QED
    BY <2>3 DEF vs
<1>9. CASE ~UsesExtended
  <2>1. P = 1..(n + 1)
    BY <1>4, <1>5, <1>9
  <2>2. Cardinality(1..(n + 1)) = n + 1
    <3>1. 1 \in Int /\ n + 1 \in Int
      BY <1>2
    <3>2. Cardinality(1..(n + 1)) = IF 1 > n + 1 THEN 0 ELSE (n + 1) - 1 + 1
      BY <3>1, FS_Interval
    <3> QED
      BY <1>2, <3>2
  <2>3. N <= 3
    <3> DEFINE D == Roles("data")
               O == (1..N) \ D
    <3>1. IsFiniteSet(1..N) /\ Cardinality(1..N) = N
      <4>1. 1 \in Int /\ N \in Int
        BY <1>2
      <4>2. IsFiniteSet(1..N) /\ Cardinality(1..N) = IF 1 > N THEN 0 ELSE N - 1 + 1
        BY <4>1, FS_Interval
      <4> QED
        BY <1>2, <4>2
    <3>2. D \subseteq 1..N /\ O \subseteq {w, b, b}
      BY <1>3, <1>6 DEF Roles
    <3>3. IsFiniteSet(D) /\ Cardinality(D) \in Nat
      BY <3>1, <3>2, FS_Subset, FS_CardinalityType
    <3>4. Cardinality(D) <= 1
      <4>1. ~(Cardinality(D) + 3 > 4)
        BY <1>9 DEF UsesExtended
      <4> HIDE DEF D
      <4> QED
        BY <3>3, <4>1
    <3>5. PICK d : D \subseteq {d}
      <4>1. CASE Cardinality(D) = 1
        <5> HIDE DEF D
        <5> QED
          BY <3>3, <4>1, FS_Singleton
      <4>2. CASE Cardinality(D) = 0
        <5>1. D = {}
          <6> HIDE DEF D
          <6> QED
            BY <3>3, <4>2, FS_EmptySet
        <5> QED
          BY <5>1
      <4> HIDE DEF D
      <4> QED
        BY <3>3, <3>4, <4>1, <4>2
    <3>6. 1..N \subseteq {w, b, d}
      BY <3>2, <3>5
    <3>7. Cardinality(1..N) <= 3
      BY <3>6, AtMostThree
    <3> QED
      BY <3>1, <3>7
  <2>4. Cardinality(P) = n + 1 /\ P = DOMAIN vs
    BY <1>4, <2>1, <2>2
  <2> HIDE DEF P
  <2>5. Entries(vs) = n + 1
    BY <1>2, <1>7, <2>4
  <2> QED
    BY <1>2, <2>3, <2>5 DEF vs
<1> QED
  BY <1>8, <1>9

------------------------------------------------------------------------------
(* The drive letters. *)

LEMMA AssignedLetters ==
  ASSUME plan \in Seq(Partition), table \in {"gpt", "mbr"}, PlanIsValid,
         Roles("recovery") = {}, ~LettersClash,
         NEW k \in DOMAIN plan, AssignedLetter(plan[k]) # NoLetter
  PROVE  \/ AssignedLetter(plan[k]) = "S" /\ k \in Roles("efi") \cup Roles("system")
         \/ AssignedLetter(plan[k]) = "W" /\ k \in Roles("windows")
         \/ /\ k \in Roles("data") /\ AssignedLetter(plan[k]) \in NamedLetter \ {"S"}
            /\ AssignedLetter(plan[k])
                 = IF plan[k].letter = NoLetter THEN "D" ELSE plan[k].letter
<1>1. plan[k].role \in Role /\ plan[k].role # "recovery"
  <2>1. k \in 1..Len(plan) /\ k \notin Roles("recovery")
    OBVIOUS
  <2> QED
    BY <2>1, PlanSizes DEF Roles
<1>2. CASE plan[k].role \in {"efi", "system"}
  BY <1>2 DEF AssignedLetter, Roles
<1>3. CASE plan[k].role = "windows"
  BY <1>3 DEF AssignedLetter, Roles
<1>4. CASE plan[k].role = "data"
  <2>1. AssignedLetter(plan[k]) = IF plan[k].letter = NoLetter THEN "D" ELSE plan[k].letter
    BY <1>4 DEF AssignedLetter
  <2>2. k \in Roles("data")
    BY <1>4 DEF Roles
  <2>3. plan[k].letter # "S"
    BY <2>2 DEF LettersClash
  <2>4. plan[k].letter # NoLetter => plan[k].letter \in NamedLetter
    BY DEF PlanIsValid
  <2>5. "D" \in NamedLetter /\ "D" # "S"
    BY DEF NamedLetter
  <2> QED
    BY <2>1, <2>2, <2>3, <2>4, <2>5
<1>5. CASE plan[k].role = "msr"
  BY <1>5 DEF AssignedLetter
<1> QED
  BY <1>1, <1>2, <1>3, <1>4, <1>5 DEF Role

LEMMA OnlyOne ==
  ASSUME NEW S, IsFiniteSet(S), ~(Cardinality(S) > 1), NEW x \in S, NEW y \in S
  PROVE  x = y
<1>1. Cardinality(S) \in Nat
  BY FS_CardinalityType
<1>2. Cardinality(S) # 0
  BY FS_EmptySet
<1>3. Cardinality(S) = 1
  BY <1>1, <1>2
<1>4. PICK z : S = {z}
  BY <1>3, FS_Singleton
<1> QED
  BY <1>4

\* validate and the fixed letters of prepare_layout keep the letters apart, except
\* for what LettersClash names.
LEMMA PlannedLettersDiffer ==
  ASSUME plan \in Seq(Partition), table \in {"gpt", "mbr"}, PlanIsValid,
         Roles("recovery") = {}, ~LettersClash,
         NEW k \in DOMAIN plan, NEW m \in DOMAIN plan,
         AssignedLetter(plan[k]) = AssignedLetter(plan[m]),
         AssignedLetter(plan[k]) # NoLetter
  PROVE  k = m
<1>1. PICK w, b \in DOMAIN plan :
        Roles("windows") = {w} /\ Roles("efi") \cup Roles("system") = {b}
  BY BesideData
<1>2. "S" # "W" /\ "W" \notin NamedLetter
  BY DEF NamedLetter
<1>3. CASE AssignedLetter(plan[k]) = "S"
  <2>1. k \in {b} /\ m \in {b}
    BY <1>1, <1>2, <1>3, AssignedLetters
  <2> QED
    BY <2>1
<1>4. CASE AssignedLetter(plan[k]) = "W"
  <2>1. k \in {w} /\ m \in {w}
    BY <1>1, <1>2, <1>4, AssignedLetters
  <2> QED
    BY <2>1
<1>5. CASE AssignedLetter(plan[k]) \notin {"S", "W"}
  <2>1. /\ k \in Roles("data") /\ m \in Roles("data")
        /\ AssignedLetter(plan[k]) = IF plan[k].letter = NoLetter THEN "D" ELSE plan[k].letter
        /\ AssignedLetter(plan[m]) = IF plan[m].letter = NoLetter THEN "D" ELSE plan[m].letter
    BY <1>5, AssignedLetters
  <2> DEFINE unnamed == {j \in Roles("data") : plan[j].letter = NoLetter}
  <2>2. /\ ~(Cardinality(unnamed) > 1)
        /\ unnamed # {} => \A j \in Roles("data") : plan[j].letter # "D"
    BY DEF LettersClash
  <2>3. CASE plan[k].letter = NoLetter /\ plan[m].letter = NoLetter
    <3>1. k \in unnamed /\ m \in unnamed
      BY <2>1, <2>3
    <3>2. IsFiniteSet(unnamed)
      <4>1. unnamed \subseteq 1..Len(plan) /\ 1 \in Int /\ Len(plan) \in Int
        BY DEF Roles
      <4>2. IsFiniteSet(1..Len(plan))
        BY <4>1, FS_Interval
      <4> HIDE DEF unnamed
      <4> QED
        BY <4>1, <4>2, FS_Subset
    <3> HIDE DEF unnamed
    <3> QED
      BY <2>2, <3>1, <3>2, OnlyOne
  <2>4. CASE plan[k].letter # NoLetter /\ plan[m].letter # NoLetter
    <3>1. plan[k].letter = plan[m].letter
      BY <2>1, <2>4
    <3> QED
      BY <2>4, <3>1 DEF PlanIsValid
  <2>5. CASE plan[k].letter = NoLetter /\ plan[m].letter # NoLetter
    <3>1. plan[m].letter = "D" /\ k \in unnamed
      BY <2>1, <2>5
    <3> QED
      BY <2>1, <2>2, <3>1
  <2>6. CASE plan[k].letter # NoLetter /\ plan[m].letter = NoLetter
    <3>1. plan[k].letter = "D" /\ m \in unnamed
      BY <2>1, <2>6
    <3> QED
      BY <2>1, <2>2, <3>1
  <2> QED
    BY <2>3, <2>4, <2>5, <2>6
<1> QED
  BY <1>3, <1>4, <1>5

\* An accepted plan takes a letter twice only as LettersClash says.
LEMMA TakenLettersClash ==
  ASSUME BetweenParagraphs, NEW k \in DOMAIN volumes,
         NextParagraph.letter # NoLetter, volumes[k].letter = NextParagraph.letter
  PROVE  LettersClash
<1> SUFFICES ASSUME ~LettersClash PROVE FALSE
  OBVIOUS
<1>1. /\ plan \in Seq(Partition) /\ volumes \in Seq(Volume) /\ AsPlanned
      /\ NextParagraph = Planned(Len(volumes) + 1)
      /\ Len(volumes) <= Len(plan) /\ PlanIsValid /\ Roles("recovery") = {}
      /\ table \in {"gpt", "mbr"}
  BY NextIsPlanned DEF BetweenParagraphs, LayoutIsAccepted
<1>2. PICK n \in Nat, N \in Nat : n = Len(volumes) /\ N = Len(plan) /\ n <= N
  BY <1>1
<1>3. k \in 1..n /\ k \in DOMAIN plan /\ k <= N
  BY <1>1, <1>2
<1>4. volumes[k].letter = AssignedLetter(plan[k])
  <2>1. volumes[k] = Paragraph(k)
    BY <1>1, <1>2, <1>3 DEF AsPlanned, Planned
  <2> QED
    BY <2>1 DEF Paragraph
<1>5. CASE n + 1 <= N
  <2>1. NextParagraph = Paragraph(n + 1)
    BY <1>1, <1>2, <1>5 DEF Planned
  <2>2. NextParagraph.letter = AssignedLetter(plan[n + 1]) /\ n + 1 \in DOMAIN plan
    BY <1>1, <1>2, <1>5, <2>1 DEF Paragraph
  <2>3. k = n + 1
    BY <1>1, <1>3, <1>4, <2>2, PlannedLettersDiffer
  <2> QED
    BY <1>2, <1>3, <2>3
<1>6. CASE ~(n + 1 <= N)
  <2>1. NextParagraph.letter = "R"
    BY <1>1, <1>2, <1>6 DEF Planned, CacheParagraph
  <2>2. "R" \notin NamedLetter /\ "R" # "S" /\ "R" # "W" /\ "R" # NoLetter
    BY DEF NamedLetter, NoLetter
  <2> QED
    BY <1>1, <1>3, <1>4, <2>1, <2>2, AssignedLetters
<1> QED
  BY <1>5, <1>6

\* The cleanup script looks for the letter the last partition has.
LEMMA ExtendsTheLast ==
  ASSUME plan \in Seq(Partition), PlanIsValid, AsPlanned, RemainderIsLast,
         volumes \in Seq(Volume), Len(volumes) = Paragraphs
  PROVE  volumes[Len(plan)].letter = ExtendLetter
<1>1. PICK N \in Nat : N = Len(plan)
  OBVIOUS
<1>2. /\ Remainder = {N} /\ N \in DOMAIN plan
      /\ plan[N].role \in {"windows", "data"}
  BY <1>1, OneRemainder DEF RemainderIsLast
<1>3. N \in DOMAIN volumes /\ N <= Len(plan)
  BY <1>1, <1>2 DEF Paragraphs
<1>4. volumes[N].letter = AssignedLetter(plan[N])
  <2>1. volumes[N] = Paragraph(N)
    BY <1>3 DEF AsPlanned, Planned
  <2> QED
    BY <2>1 DEF Paragraph
<1> DEFINE c == CHOOSE k \in Remainder : TRUE
<1>5. c = N
  BY <1>2
<1> HIDE DEF c
<1>6. RemainderIsData <=> plan[N].role = "data"
  BY <1>2 DEF RemainderIsData
<1>7. CASE plan[N].role = "data"
  <2>1. ExtendLetter = IF plan[N].letter = NoLetter THEN "D" ELSE plan[N].letter
    <3>1. RemainderIsData
      BY <1>6, <1>7
    <3>2. ExtendLetter = IF plan[c].letter = NoLetter THEN "D" ELSE plan[c].letter
      BY <3>1, Zenon DEF ExtendLetter, c
    <3> QED
      BY <1>5, <3>2, Zenon
  <2> QED
    BY <1>1, <1>4, <1>7, <2>1 DEF AssignedLetter
<1>8. CASE plan[N].role = "windows"
  <2>1. ExtendLetter = "W"
    BY <1>6, <1>8 DEF ExtendLetter
  <2> QED
    BY <1>1, <1>4, <1>8, <2>1 DEF AssignedLetter
<1> QED
  BY <1>2, <1>7, <1>8

------------------------------------------------------------------------------
(* The invariant. *)

LEMMA SubtractsExactly ==
  ASSUME NEW d \in Nat, NEW f \in Nat, NEW c \in Nat, NEW h \in Nat, NEW R \in Nat,
         R = d - f - c - h
  PROVE  SatSub(SatSub(SatSub(d, f), c), h) = R
<1>1. SatSub(d, f) = d - f /\ d - f \in Nat
  BY DEF SatSub
<1>2. SatSub(d - f, c) = d - f - c /\ d - f - c \in Nat
  BY DEF SatSub
<1>3. SatSub(d - f - c, h) = R
  BY DEF SatSub
<1> QED
  BY <1>1, <1>2, <1>3

LEMMA CompleteVolumesAreLarge ==
  ASSUME Submitted, plan \in Seq(Partition), volumes \in Seq(Volume), LayoutIsAccepted,
         AsPlanned, Len(volumes) = Paragraphs, NEW k \in DOMAIN plan
  PROVE  /\ plan[k].size = Remaining =>
              volumes[k].size >= IF plan[k].role = "data" THEN MinimumData
                                                          ELSE MinimumWindows
         /\ plan[k].role = "windows" => volumes[k].size >= order.payload
<1>1. PlanIsValid /\ CapacityIsValid /\ (order.payload # 0 => PayloadIsValid)
  BY DEF LayoutIsAccepted
<1>2. PICK r \in DOMAIN plan : Remainder = {r}
  BY <1>1, OneRemainder
<1>3. plan[k].size = Remaining => k = r
  BY <1>2 DEF Remainder
<1>4. volumes[k].size = IF plan[k].size = Remaining THEN RemainingSize ELSE plan[k].size
  <2>1. k \in DOMAIN volumes /\ k <= Len(plan)
    BY DEF Paragraphs
  <2>2. volumes[k] = Paragraph(k)
    BY <2>1 DEF AsPlanned, Planned
  <2> QED
    BY <2>2 DEF Paragraph
<1>5. PICK f \in Nat, c \in Nat, h \in Nat, d \in Nat, R \in Nat :
        /\ f = FixedSize /\ c = CacheSize /\ h = AlignmentHeadroom /\ d = order.disk
        /\ R = RemainingSize /\ R = d - f - c - h /\ R >= Minimum
  <2>1. /\ FixedSize \in 0..MaxWord /\ MaxWord \in Nat /\ CacheSize \in Nat
        /\ AlignmentHeadroom \in Nat /\ order.disk \in Nat
    BY <1>1, Sizes
  <2>2. FixedSize \in Nat
    BY <2>1
  <2>3. /\ RemainingSize = order.disk - FixedSize - CacheSize - AlignmentHeadroom
        /\ RemainingSize \in Nat /\ RemainingSize >= Minimum
    BY <1>1, CapacityIsExact
  <2> QED
    BY <2>1, <2>2, <2>3, Zenon
<1>6. ASSUME plan[k].size = Remaining
      PROVE  volumes[k].size >= IF plan[k].role = "data" THEN MinimumData ELSE MinimumWindows
  <2>1. Minimum = IF plan[k].role = "data" THEN MinimumData ELSE MinimumWindows
    BY <1>2, <1>3, <1>6 DEF Minimum, RemainderIsData
  <2>2. volumes[k].size = R
    BY <1>4, <1>5, <1>6
  <2> QED
    BY <1>5, <2>1, <2>2
<1>7. ASSUME plan[k].role = "windows"
      PROVE  volumes[k].size >= order.payload
  <2>1. plan[k].size \in {Remaining} \cup 0..MaxWord /\ order.payload \in Nat /\ MaxWord \in Nat
    BY PlanSizes, Sizes
  <2>2. CASE order.payload = 0
    BY <1>4, <1>5, <2>1, <2>2
  <2>3. CASE order.payload # 0
    <3>1. /\ plan[k].size # Remaining => plan[k].size >= order.payload
          /\ plan[k].size = Remaining =>
               SatSub(SatSub(SatSub(order.disk, FixedSize), CacheSize), AlignmentHeadroom)
                 >= order.payload
      BY <1>1, <1>7, <2>3 DEF PayloadIsValid, Roles
    <3>2. SatSub(SatSub(SatSub(order.disk, FixedSize), CacheSize), AlignmentHeadroom) = R
      <4>1. R = d - f - c - h
        BY <1>5
      <4>2. SatSub(SatSub(SatSub(d, f), c), h) = R
        BY <4>1, SubtractsExactly
      <4> QED
        BY <1>5, <4>2, Zenon
    <3> QED
      BY <1>4, <1>5, <3>1, <3>2
  <2> QED
    BY <2>2, <2>3
<1> QED
  BY <1>6, <1>7

\* The invariant: what is on the disk is the beginning of an accepted plan, and
\* nothing has gone wrong but what AcceptedPlansComplete names.
LayoutTypeOK ==
  /\ table \in {"gpt", "mbr"}
  /\ plan \in Seq(Partition) /\ Len(plan) <= MaxPartitions
  /\ volumes \in Seq(Volume)
  /\ status \in Status
  /\ status = "drafting" => volumes = <<>>
  /\ status # "drafting" => Submitted

LayoutInv ==
  /\ LayoutTypeOK /\ AsPlanned /\ LettersDiffer
  /\ volumes # <<>> => LayoutIsAccepted
  /\ status = "deployed" => Len(volumes) = Paragraphs
  /\ AcceptedPlansComplete

\* What a step says of the plan and the sizes depends on nothing else.
LEMMA PlanUnchanged ==
  ASSUME UNCHANGED <<table, plan, order>>
  PROVE  /\ \A k \in Nat : Planned(k)' = Planned(k)
         /\ LayoutIsAccepted' = LayoutIsAccepted
         /\ Paragraphs' = Paragraphs /\ Submitted' = Submitted
         /\ LettersClash' = LettersClash /\ RemainderIsLast' = RemainderIsLast
<1>1. /\ Remainder' = Remainder /\ CacheSize' = CacheSize /\ Paragraphs' = Paragraphs
      /\ Submitted' = Submitted /\ RemainderIsLast' = RemainderIsLast
      /\ \A role : Roles(role)' = Roles(role)
  BY DEF Remainder, CacheSize, Paragraphs, Submitted, RemainderIsLast, Roles
<1>2. FixedSize' = FixedSize
  BY DEF FixedSize
<1>3. RemainingSize' = RemainingSize
  BY <1>1 DEF RemainingSize
<1>4. RemainderIsData' = RemainderIsData /\ UsesExtended' = UsesExtended
  BY <1>1 DEF RemainderIsData, UsesExtended
<1>5. CapacityIsValid' = CapacityIsValid
  BY <1>1, <1>2, <1>4 DEF CapacityIsValid
<1>6. PayloadIsValid' = PayloadIsValid
  BY <1>1, <1>2 DEF PayloadIsValid
<1>7. PlanIsValid' = PlanIsValid
  BY <1>1 DEF PlanIsValid
<1>8. ExtendedIsLast' = ExtendedIsLast
  BY <1>4 DEF ExtendedIsLast
<1>9. LayoutIsAccepted' = LayoutIsAccepted
  BY <1>1, <1>5, <1>6, <1>7, <1>8 DEF LayoutIsAccepted
<1>10. LettersClash' = LettersClash
  BY <1>1 DEF LettersClash
<1>11. ASSUME NEW k \in Nat PROVE Planned(k)' = Planned(k)
  <2>1. Paragraph(k)' = Paragraph(k)
    BY <1>3, <1>4 DEF Paragraph
  <2>2. CacheParagraph' = CacheParagraph
    BY <1>1, <1>4 DEF CacheParagraph
  <2> QED
    BY <2>1, <2>2 DEF Planned
<1> QED
  BY <1>1, <1>9, <1>10, <1>11

LEMMA VolumesUnchanged ==
  ASSUME LayoutInv, UNCHANGED <<table, plan, order, volumes>>
  PROVE  /\ AsPlanned' /\ LettersDiffer' /\ (volumes' # <<>> => LayoutIsAccepted')
         /\ table' \in {"gpt", "mbr"} /\ plan' \in Seq(Partition) /\ Len(plan') <= MaxPartitions
         /\ volumes' \in Seq(Volume)
<1>1. Paragraphs' = Paragraphs /\ (\A k \in Nat : Planned(k)' = Planned(k))
      /\ LayoutIsAccepted' = LayoutIsAccepted
  BY PlanUnchanged
<1>2. \A k \in DOMAIN volumes : k \in Nat
  BY DEF LayoutInv, LayoutTypeOK
<1>3. AsPlanned'
  BY <1>1, <1>2 DEF AsPlanned, LayoutInv
<1> QED
  BY <1>1, <1>3 DEF LayoutInv, LayoutTypeOK, LettersDiffer

\* A step that only ends the work, as refused, or by a letter that is taken.
LEMMA StatusStep ==
  ASSUME LayoutInv, UNCHANGED <<table, plan, order, volumes>>,
         status # "drafting", status' \in Status \ {"drafting", "deployed"},
         AcceptedPlansComplete'
  PROVE  LayoutInv'
<1>1. Submitted'
  BY PlanUnchanged DEF LayoutInv, LayoutTypeOK
<1> QED
  BY <1>1, VolumesUnchanged DEF LayoutInv, LayoutTypeOK

LEMMA LayoutInitInv == LayoutInit => LayoutInv
<1> SUFFICES ASSUME LayoutInit PROVE LayoutInv
  OBVIOUS
<1>1. plan \in Seq(Partition) /\ Len(plan) = 0
  BY DEF LayoutInit
<1>2. volumes = <<>> /\ Len(volumes) = 0 /\ DOMAIN volumes = {}
  BY DEF LayoutInit
<1>3. AsPlanned /\ LettersDiffer /\ volumes \in Seq(Volume)
  BY <1>1, <1>2 DEF AsPlanned, LettersDiffer, Paragraphs
<1> QED
  BY <1>1, <1>3, RoomForAlignment
  DEF LayoutInit, LayoutInv, LayoutTypeOK, AcceptedPlansComplete, Status

LEMMA ComposeInv ==
  ASSUME LayoutInv, NEW p \in Partition, Compose(p)
  PROVE  LayoutInv'
<1>1. /\ plan' \in Seq(Partition) /\ Len(plan') = Len(plan) + 1 /\ Len(plan) \in Nat
      /\ Len(plan) < MaxPartitions
  BY DEF Compose, LayoutInv, LayoutTypeOK
<1>2. Len(plan') <= MaxPartitions
  BY <1>1, RoomForAlignment
<1>3. volumes' = <<>> /\ Len(volumes') = 0 /\ DOMAIN volumes' = {}
  BY DEF Compose, LayoutInv, LayoutTypeOK
<1>4. AsPlanned' /\ LettersDiffer' /\ volumes' \in Seq(Volume)
  BY <1>1, <1>3 DEF AsPlanned, LettersDiffer, Paragraphs
<1> QED
  BY <1>1, <1>2, <1>3, <1>4
  DEF Compose, LayoutInv, LayoutTypeOK, AcceptedPlansComplete, Status

LEMMA SubmitInv ==
  ASSUME LayoutInv, NEW d \in DiskSize, NEW i \in ImageSize, NEW y \in PayloadSize,
         Submit(d, i, y)
  PROVE  LayoutInv'
<1>1. Submitted'
  BY DEF Submit, Submitted
<1>2. /\ volumes' = <<>> /\ Len(volumes') = 0 /\ DOMAIN volumes' = {}
      /\ plan' = plan /\ Len(plan) \in Nat
  BY DEF Submit, LayoutInv, LayoutTypeOK
<1>3. AsPlanned' /\ LettersDiffer' /\ volumes' \in Seq(Volume)
  BY <1>2 DEF AsPlanned, LettersDiffer, Paragraphs
<1> QED
  BY <1>1, <1>2, <1>3
  DEF Submit, LayoutInv, LayoutTypeOK, AcceptedPlansComplete, Status

LEMMA RefuseInv ==
  ASSUME LayoutInv, Refuse
  PROVE  LayoutInv'
<1>1. AcceptedPlansComplete'
  BY DEF Refuse, AcceptedPlansComplete
<1> QED
  BY <1>1, StatusStep DEF Refuse, Status

LEMMA DeployInv ==
  ASSUME LayoutInv, Deploy
  PROVE  LayoutInv'
<1>1. AcceptedPlansComplete'
  BY DEF Deploy, AcceptedPlansComplete
<1>2. Submitted' /\ Paragraphs' = Paragraphs
  BY PlanUnchanged DEF Deploy, LayoutInv, LayoutTypeOK
<1>3. /\ AsPlanned' /\ LettersDiffer' /\ (volumes' # <<>> => LayoutIsAccepted')
      /\ table' \in {"gpt", "mbr"} /\ plan' \in Seq(Partition) /\ Len(plan') <= MaxPartitions
      /\ volumes' \in Seq(Volume)
  BY VolumesUnchanged DEF Deploy
<1> QED
  BY <1>1, <1>2, <1>3 DEF Deploy, LayoutInv, LayoutTypeOK, Status

LEMMA NextIsAVolume ==
  ASSUME BetweenParagraphs
  PROVE  NextParagraph \in Volume
<1>1. /\ Submitted /\ plan \in Seq(Partition) /\ volumes \in Seq(Volume)
      /\ CapacityIsValid
      /\ NextParagraph = Planned(Len(volumes) + 1)
      /\ Len(volumes) <= Len(plan)
  BY NextIsPlanned DEF BetweenParagraphs, LayoutIsAccepted
<1>2. RemainingSize \in Nat /\ CacheSize \in Nat /\ UsesExtended \in BOOLEAN
  BY <1>1, CapacityIsExact, Sizes DEF UsesExtended
<1>3. PICK n \in Nat : n = Len(volumes)
  BY <1>1
<1>4. CASE n + 1 <= Len(plan)
  <2>1. n + 1 \in 1..Len(plan)
    BY <1>1, <1>3, <1>4
  <2>2. /\ plan[n + 1].role \in Role /\ plan[n + 1].letter \in VolumeLetter
        /\ plan[n + 1].size \in {Remaining} \cup 0..MaxWord /\ MaxWord \in Nat
    <3>1. plan[n + 1] \in Partition
      BY <1>1, <2>1
    <3>2. plan[n + 1].letter \in VolumeLetter
      BY <3>1 DEF VolumeLetter
    <3> QED
      BY <1>1, <2>1, <3>2, PlanSizes, SizesAssumption
  <2>3. AssignedLetter(plan[n + 1]) \in VolumeLetter
    <3>1. CASE plan[n + 1].role \in {"efi", "system"}
      BY <3>1 DEF AssignedLetter, VolumeLetter
    <3>2. CASE plan[n + 1].role = "windows"
      BY <3>2 DEF AssignedLetter, VolumeLetter
    <3>3. CASE plan[n + 1].role = "data"
      BY <2>2, <3>3 DEF AssignedLetter, VolumeLetter
    <3>4. CASE plan[n + 1].role \in {"msr", "recovery"}
      BY <3>4 DEF AssignedLetter, VolumeLetter
    <3> QED
      BY <2>2, <3>1, <3>2, <3>3, <3>4 DEF Role
  <2>4. NextParagraph = Paragraph(n + 1)
    BY <1>1, <1>3, <1>4 DEF Planned
  <2> QED
    BY <1>2, <2>2, <2>3, <2>4 DEF Paragraph, Volume
<1>5. CASE ~(n + 1 <= Len(plan))
  <2>1. NextParagraph = CacheParagraph
    BY <1>1, <1>3, <1>5 DEF Planned
  <2> QED
    BY <1>2, <2>1 DEF CacheParagraph, Volume, VolumeLetter
<1> QED
  BY <1>4, <1>5

\* DiskPart creates the next volume, or finds its letter taken.
LEMMA NextSucceeds ==
  ASSUME BetweenParagraphs
  PROVE  \/ /\ DiskPartError(NextParagraph) = "none"
            /\ \A k \in DOMAIN volumes :
                 NextParagraph.letter # NoLetter => volumes[k].letter # NextParagraph.letter
         \/ DiskPartError(NextParagraph) = "letterTaken" /\ LettersClash
<1>1. ~(Used + Alignment + NextParagraph.size > order.disk)
  BY RoomForNext
<1>2. ~(~NextParagraph.logical /\ \E k \in DOMAIN volumes : volumes[k].logical)
  BY NoPrimaryBehindLogicals
<1>3. ~(table = "mbr" /\ Entries(Append(volumes, NextParagraph)) > 4)
  BY EntriesFit
<1>4. CASE \E k \in DOMAIN volumes :
             NextParagraph.letter # NoLetter /\ volumes[k].letter = NextParagraph.letter
  <2>1. DiskPartError(NextParagraph) = "letterTaken"
    BY <1>1, <1>2, <1>3, <1>4, Zenon DEF DiskPartError
  <2> QED
    BY <1>4, <2>1, TakenLettersClash
<1>5. CASE ~\E k \in DOMAIN volumes :
             NextParagraph.letter # NoLetter /\ volumes[k].letter = NextParagraph.letter
  <2>1. DiskPartError(NextParagraph) = "none"
    BY <1>1, <1>2, <1>3, <1>5, Zenon DEF DiskPartError
  <2> QED
    BY <1>5, <2>1
<1> QED
  BY <1>4, <1>5

LEMMA CreateInv ==
  ASSUME LayoutInv, Create
  PROVE  LayoutInv'
<1>1. /\ Len(volumes) < Paragraphs /\ LayoutIsAccepted
      /\ UNCHANGED <<table, plan, order>> /\ status = "partitioning"
  BY DEF Create, LayoutInv
<1>2. BetweenParagraphs
  BY <1>1 DEF BetweenParagraphs, LayoutInv, LayoutTypeOK
<1>3. CASE DiskPartError(NextParagraph) = "letterTaken" /\ LettersClash
  <2>1. status' = "letterTaken" /\ UNCHANGED volumes
    <3>1. DiskPartError(NextParagraph) # "none"
      BY <1>3
    <3> QED
      BY <1>3, <3>1, Zenon DEF Create
  <2>2. LettersClash'
    BY <1>1, <1>3, PlanUnchanged
  <2>3. AcceptedPlansComplete'
    BY <2>1, <2>2 DEF AcceptedPlansComplete
  <2> QED
    BY <1>1, <2>1, <2>3, StatusStep DEF Status, DiskError
<1>4. CASE /\ DiskPartError(NextParagraph) = "none"
           /\ \A k \in DOMAIN volumes :
                NextParagraph.letter # NoLetter => volumes[k].letter # NextParagraph.letter
  <2>1. volumes' = Append(volumes, NextParagraph) /\ status' = "partitioning"
    BY <1>1, <1>4, Zenon DEF Create
  <2>2. NextParagraph \in Volume /\ NextParagraph = Planned(Len(volumes) + 1)
    BY <1>2, NextIsAVolume, NextIsPlanned DEF BetweenParagraphs
  <2>3. PICK n \in Nat : n = Len(volumes)
    BY <1>2 DEF BetweenParagraphs
  <2>4. volumes \in Seq(Volume)
    BY <1>2 DEF BetweenParagraphs
  <2>5. /\ volumes' \in Seq(Volume) /\ Len(volumes') = n + 1 /\ DOMAIN volumes' = 1..(n + 1)
        /\ DOMAIN volumes = 1..n
        /\ volumes'[n + 1] = NextParagraph /\ \A k \in 1..n : volumes'[k] = volumes[k]
    BY <2>1, <2>2, <2>3, <2>4
  <2>6. /\ \A k \in Nat : Planned(k)' = Planned(k)
        /\ LayoutIsAccepted' /\ Paragraphs' = Paragraphs /\ Submitted'
    BY <1>1, <1>2, PlanUnchanged DEF BetweenParagraphs
  <2>7. \A k \in 1..(n + 1) : k \in Nat /\ (k \in 1..n \/ k = n + 1)
    BY <2>3
  <2>8. AsPlanned'
    <3>1. n + 1 <= Paragraphs
      <4>1. Paragraphs \in Nat
        BY <1>2 DEF BetweenParagraphs, Paragraphs
      <4> QED
        BY <1>1, <2>3, <4>1
    <3>2. ASSUME NEW k \in 1..(n + 1) PROVE volumes'[k] = Planned(k)
      <4>1. CASE k \in 1..n
        BY <1>2, <2>5, <4>1 DEF BetweenParagraphs, AsPlanned
      <4>2. CASE k = n + 1
        BY <2>2, <2>3, <2>5, <4>2
      <4> QED
        BY <2>7, <4>1, <4>2
    <3> QED
      BY <2>5, <2>6, <2>7, <3>1, <3>2 DEF AsPlanned
  <2>9. LettersDiffer'
    <3> SUFFICES ASSUME NEW k \in 1..(n + 1), NEW m \in 1..(n + 1),
                        volumes'[k].letter = volumes'[m].letter,
                        volumes'[k].letter # NoLetter
                 PROVE  k = m
      BY <2>5 DEF LettersDiffer
    <3>1. CASE k \in 1..n /\ m \in 1..n
      <4>1. LettersDiffer /\ volumes'[k] = volumes[k] /\ volumes'[m] = volumes[m]
        BY <1>2, <2>5, <3>1 DEF BetweenParagraphs
      <4> QED
        BY <2>5, <3>1, <4>1 DEF LettersDiffer
    <3>2. CASE k \in 1..n /\ m = n + 1
      BY <1>4, <2>5, <3>2
    <3>3. CASE k = n + 1 /\ m \in 1..n
      BY <1>4, <2>5, <3>3
    <3> QED
      BY <2>7, <3>1, <3>2, <3>3
  <2>10. AcceptedPlansComplete'
    BY <2>1 DEF AcceptedPlansComplete
  <2> QED
    BY <1>1, <2>1, <2>5, <2>6, <2>8, <2>9, <2>10
    DEF LayoutInv, LayoutTypeOK, Status
<1> QED
  BY <1>2, <1>3, <1>4, NextSucceeds

LEMMA CleanupInv ==
  ASSUME LayoutInv, Cleanup
  PROVE  LayoutInv'
<1>1. /\ UNCHANGED <<table, plan, order>> /\ status = "deployed" /\ Submitted
      /\ plan \in Seq(Partition) /\ volumes \in Seq(Volume) /\ AsPlanned /\ LettersDiffer
      /\ Len(volumes) = Paragraphs
  BY DEF Cleanup, LayoutInv, LayoutTypeOK
<1>2. PICK N \in Nat : N = Len(plan) /\ Len(volumes) = N + 1 /\ Paragraphs = N + 1
  BY <1>1 DEF Paragraphs
<1>3. LayoutIsAccepted /\ PlanIsValid
  <2>1. volumes # <<>>
    BY <1>2
  <2> QED
    BY <2>1 DEF LayoutInv, LayoutIsAccepted
<1>4. N \in 1..N
  <2>1. plan # <<>>
    BY <1>3 DEF PlanIsValid
  <2> QED
    BY <1>1, <1>2, <2>1
<1>5. /\ volumes' \in Seq(Volume) /\ Len(volumes') = N /\ DOMAIN volumes' = 1..N
      /\ \A k \in 1..N : volumes'[k] = volumes[k]
  <2>1. volumes' = SubSeq(volumes, 1, N)
    BY <1>1, <1>2 DEF Cleanup, Front
  <2> QED
    BY <1>1, <1>2, <2>1, SubSeqProperties
<1>6. Last(volumes') = volumes[N]
  BY <1>4, <1>5 DEF Last
<1>7. status' = IF volumes[N].letter = ExtendLetter THEN "done" ELSE "notExtendable"
  BY <1>6 DEF Cleanup
<1>8. RemainderIsLast => volumes[N].letter = ExtendLetter
  BY <1>1, <1>2, <1>3, ExtendsTheLast
<1>9. /\ \A k \in Nat : Planned(k)' = Planned(k)
      /\ LayoutIsAccepted' /\ Paragraphs' = Paragraphs /\ Submitted'
      /\ RemainderIsLast' = RemainderIsLast
  BY <1>1, <1>3, PlanUnchanged
<1>10. AcceptedPlansComplete'
  BY <1>7, <1>8, <1>9 DEF AcceptedPlansComplete
<1>11. AsPlanned'
  <2>1. \A k \in 1..N : volumes[k] = Planned(k) /\ k \in Nat
    BY <1>1, <1>2 DEF AsPlanned
  <2> QED
    BY <1>2, <1>5, <1>9, <2>1 DEF AsPlanned
<1>12. LettersDiffer'
  <2>1. \A k \in 1..N : k \in DOMAIN volumes
    BY <1>1, <1>2
  <2> QED
    BY <1>1, <1>5, <2>1 DEF LettersDiffer
<1> QED
  BY <1>1, <1>5, <1>7, <1>9, <1>10, <1>11, <1>12
  DEF LayoutInv, LayoutTypeOK, Status, DiskError

LEMMA LayoutStepInv == LayoutInv /\ [LayoutNext]_layoutVars => LayoutInv'
<1> SUFFICES ASSUME LayoutInv, [LayoutNext]_layoutVars PROVE LayoutInv'
  OBVIOUS
<1>1. CASE \E p \in Partition : Compose(p)
  BY <1>1, ComposeInv
<1>2. CASE \E d \in DiskSize, i \in ImageSize, y \in PayloadSize : Submit(d, i, y)
  BY <1>2, SubmitInv
<1>3. CASE Refuse
  BY <1>3, RefuseInv
<1>4. CASE Create
  BY <1>4, CreateInv
<1>5. CASE Deploy
  BY <1>5, DeployInv
<1>6. CASE Cleanup
  BY <1>6, CleanupInv
<1>7. CASE UNCHANGED layoutVars
  <2>1. UNCHANGED <<table, plan, order, volumes>> /\ status' = status
    BY <1>7 DEF layoutVars
  <2>2. /\ AsPlanned' /\ LettersDiffer' /\ (volumes' # <<>> => LayoutIsAccepted')
        /\ table' \in {"gpt", "mbr"} /\ plan' \in Seq(Partition) /\ Len(plan') <= MaxPartitions
        /\ volumes' \in Seq(Volume)
    BY <2>1, VolumesUnchanged
  <2>3. /\ Submitted' = Submitted /\ Paragraphs' = Paragraphs
        /\ LettersClash' = LettersClash /\ RemainderIsLast' = RemainderIsLast
    BY <2>1, PlanUnchanged
  <2> QED
    BY <2>1, <2>2, <2>3 DEF LayoutInv, LayoutTypeOK, AcceptedPlansComplete
<1> QED
  BY <1>1, <1>2, <1>3, <1>4, <1>5, <1>6, <1>7 DEF LayoutNext

------------------------------------------------------------------------------
(* The theorems. *)

\* The inductive invariant: the disk holds the beginning of an accepted plan, with
\* each letter once, from the moment the prepare script cleaned it.
THEOREM LayoutInvariant == LayoutSpec => []LayoutInv
<1>1. LayoutInit => LayoutInv
  BY LayoutInitInv
<1>2. LayoutInv /\ [LayoutNext]_layoutVars => LayoutInv'
  BY LayoutStepInv
<1> QED
  BY <1>1, <1>2, PTL DEF LayoutSpec

\* An accepted plan is carried out: after prepare_layout's checks the scripts
\* never run out of space or table entries, and stop for nothing but the two
\* omissions of validate.
THEOREM AcceptedPlansAreCarriedOut == LayoutSpec => []AcceptedPlansComplete
<1>1. LayoutInv => AcceptedPlansComplete
  BY DEF LayoutInv
<1> QED
  BY <1>1, LayoutInvariant, PTL

\* The image is applied to volumes that have their minimum, and the Windows volume
\* holds a raw payload.
THEOREM DeployedVolumesAreLarge == LayoutSpec => []VolumesAreLargeEnough
<1>1. LayoutInv => VolumesAreLargeEnough
  <2> SUFFICES ASSUME LayoutInv, status = "deployed" PROVE VolumesAreLargeEnough
    BY DEF VolumesAreLargeEnough
  <2>1. /\ Submitted /\ plan \in Seq(Partition) /\ volumes \in Seq(Volume)
        /\ AsPlanned /\ Len(volumes) = Paragraphs
    BY DEF LayoutInv, LayoutTypeOK
  <2>2. LayoutIsAccepted
    <3>1. volumes # <<>>
      BY <2>1 DEF Paragraphs
    <3> QED
      BY <3>1 DEF LayoutInv
  <2>3. \A k \in DOMAIN plan :
          /\ plan[k].size = Remaining =>
               volumes[k].size >= IF plan[k].role = "data" THEN MinimumData ELSE MinimumWindows
          /\ plan[k].role = "windows" => volumes[k].size >= order.payload
    BY <2>1, <2>2, CompleteVolumesAreLarge
  <2> QED
    BY <2>3 DEF VolumesAreLargeEnough
<1> QED
  BY <1>1, LayoutInvariant, PTL
==============================================================================
