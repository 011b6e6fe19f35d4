-------------------------- MODULE ImageLibraryProofs --------------------------
(***************************************************************************)
(* Proofs about ImageLibrary: the types, and that the images of the        *)
(* library and of its manifest keep directories of their own, whatever is  *)
(* called at the same time and wherever the process dies; that what is     *)
(* prepared and served is what was imported; and that a Ghost image is     *)
(* only deployable with all the files of its folder that belong to it.     *)
(***************************************************************************)
EXTENDS ImageLibrary, FiniteSetTheorems, WellFoundedInduction, SequenceTheorems, TLAPS

------------------------------------------------------------------------------
(* Induction, stated for sets. *)

LEMMA LeastNumber ==
  ASSUME NEW T, T \subseteq Nat, T # {}
  PROVE  \E n \in T : \A m \in T : n <= m
<1> DEFINE R == OpToRel(<, Nat)
<1>1. IsWellFoundedOn(R, Nat)
  BY NatLessThanWellFounded
<1>2. \A x, y \in Nat : (x < y) => (<<x, y>> \in R)
  BY DEF OpToRel
<1> HIDE DEF R
<1>3. PICK n \in T : \A m \in T : ~(<<m, n>> \in R)
  BY <1>1, WFMin
<1>4. ASSUME NEW m \in T PROVE n <= m
  <2>1. m \in Nat /\ n \in Nat
    OBVIOUS
  <2>2. ~(m < n)
    BY <1>2, <1>3, <2>1
  <2> QED
    BY <2>1, <2>2
<1> QED
  BY <1>4

LEMMA Induction ==
  ASSUME NEW S, 0 \in S, \A n \in Nat : n \in S => n + 1 \in S
  PROVE  \A n \in Nat : n \in S
<1> SUFFICES ASSUME Nat \ S # {} PROVE FALSE
  OBVIOUS
<1>1. PICK n \in Nat \ S : \A m \in Nat \ S : n <= m
  BY LeastNumber
<1>2. n # 0
  OBVIOUS
<1>3. n - 1 \in Nat /\ ~(n <= n - 1)
  BY <1>2
<1>4. n - 1 \in S
  BY <1>1, <1>3
<1> QED
  BY <1>3, <1>4

------------------------------------------------------------------------------
(* The files of an image, put one after another. *)

\* The recursion of FlattenSeq, unfolded: the k-th part is the first k sequences.
LEMMA FlattenedInParts ==
  ASSUME NEW S, NEW s \in Seq(Seq(S)), Len(s) # 0
  PROVE  \E f \in [1..Len(s) -> Seq(S)] :
           /\ FlattenSeq(s) = f[Len(s)] /\ f[1] = s[1]
           /\ \A i \in 2..Len(s) : f[i] = f[i - 1] \o s[i]
<1> DEFINE N == Len(s)
<1>1. N \in Nat /\ N >= 1 /\ (\A i \in 1..N : s[i] \in Seq(S)) /\ Len(s) = N
  OBVIOUS
<1> HIDE DEF N
<1> DEFINE Up(n, f) == f[1] = s[1] /\ \A i \in 2..n : f[i] = f[i - 1] \o s[i]
           G == {n \in Nat : n >= 1 /\ n <= N => \E f \in [1..n -> Seq(S)] : Up(n, f)}
<1>2. 0 \in G
  OBVIOUS
<1>3. ASSUME NEW n \in Nat, n \in G
      PROVE  n + 1 \in G
  <2>1. CASE n = 0
    <3> DEFINE f == [i \in 1..1 |-> s[1]]
    <3>1. f \in [1..1 -> Seq(S)] /\ f[1] = s[1]
      BY <1>1
    <3> HIDE DEF f
    <3>2. Up(1, f)
      BY <3>1
    <3> HIDE DEF Up
    <3> QED
      BY <2>1, <3>1, <3>2
  <2>2. CASE n >= 1 /\ n + 1 <= N
    <3>1. PICK f \in [1..n -> Seq(S)] : Up(n, f)
      <4>1. n <= N
        BY <1>1, <2>2
      <4> HIDE DEF Up
      <4> QED
        BY <1>3, <2>2, <4>1
    <3> DEFINE joined == f[n] \o s[n + 1]
    <3>2. f[n] \in Seq(S) /\ s[n + 1] \in Seq(S)
      BY <1>1, <2>2
    <3>3. joined \in Seq(S) /\ joined = f[n] \o s[n + 1]
      BY <3>2
    <3> HIDE DEF joined
    <3> DEFINE g == [i \in 1..(n + 1) |-> IF i <= n THEN f[i] ELSE joined]
    <3>4. g \in [1..(n + 1) -> Seq(S)]
      BY <3>3
    <3>5. (\A i \in 1..n : g[i] = f[i]) /\ g[n + 1] = joined
      OBVIOUS
    <3> HIDE DEF g
    <3>6. g[1] = s[1]
      BY <2>2, <3>1, <3>5
    <3>7. ASSUME NEW i \in 2..(n + 1) PROVE g[i] = g[i - 1] \o s[i]
      <4>1. CASE i <= n
        <5>1. i \in 2..n /\ i \in 1..n /\ i - 1 \in 1..n
          BY <4>1
        <5>2. f[i] = f[i - 1] \o s[i]
          BY <3>1, <5>1
        <5>3. g[i] = f[i] /\ g[i - 1] = f[i - 1]
          BY <3>5, <5>1
        <5> QED
          BY <5>2, <5>3
      <4>2. CASE i = n + 1
        <5>1. i - 1 = n /\ n \in 1..n
          BY <2>2, <4>2
        <5>2. g[i] = joined /\ g[i - 1] = f[n]
          <6>1. g[n] = f[n] /\ g[n + 1] = joined
            BY <3>5, <5>1
          <6> QED
            BY <4>2, <5>1, <6>1, Zenon
        <5>3. joined = f[n] \o s[i]
          BY <3>3, <4>2, Zenon
        <5> QED
          BY <5>2, <5>3, Zenon
      <4>3. i <= n \/ i = n + 1
        OBVIOUS
      <4> QED
        BY <4>1, <4>2, <4>3, Zenon
    <3>8. Up(n + 1, g)
      BY <3>6, <3>7
    <3> HIDE DEF Up
    <3> QED
      BY <3>4, <3>8
  <2>3. CASE ~(n + 1 <= N)
    <3> HIDE DEF Up
    <3> QED
      BY <2>3
  <2> HIDE DEF G
  <2> QED
    BY <2>1, <2>2, <2>3
<1>4. N \in G
  <2> HIDE DEF G
  <2> QED
    BY <1>1, <1>2, <1>3, Induction
<1>5. PICK g \in [1..N -> Seq(S)] : Up(N, g)
  <2> HIDE DEF Up
  <2> QED
    BY <1>1, <1>4
<1> DEFINE Step(f) == [i \in 1..N |-> IF i = 1 THEN s[i] ELSE f[i - 1] \o s[i]]
           F == CHOOSE f : f = Step(f)
<1>6. g = Step(g)
  <2>1. ASSUME NEW i \in 1..N PROVE g[i] = Step(g)[i]
    <3>1. CASE i = 1
      BY <1>5, <3>1
    <3>2. CASE i # 1
      <4>1. i \in 2..N
        BY <1>1, <3>2
      <4>2. g[i] = g[i - 1] \o s[i]
        BY <1>5, <4>1
      <4> QED
        BY <3>2, <4>2
    <3> QED
      BY <3>1, <3>2
  <2>2. Step(g) = [i \in 1..N |-> Step(g)[i]] /\ g = [i \in 1..N |-> g[i]]
    OBVIOUS
  <2> HIDE DEF Step
  <2> QED
    BY <2>1, <2>2
<1>7. F = Step(F)
  <2> HIDE DEF Step
  <2> QED
    BY <1>6
<1>8. FlattenSeq(s) = F[N]
  BY <1>1 DEF FlattenSeq
<1> HIDE DEF F
<1>9. F[1] = s[1] /\ DOMAIN F = 1..N /\ F = [i \in 1..N |-> F[i]]
  BY <1>1, <1>7
<1>10. ASSUME NEW i \in 2..N PROVE F[i] = F[i - 1] \o s[i]
  <2>1. i \in 1..N /\ i # 1
    BY <1>1
  <2>2. F[i] = Step(F)[i]
    BY <1>7
  <2>3. Step(F)[i] = F[i - 1] \o s[i]
    BY <2>1
  <2> HIDE DEF Step
  <2> QED
    BY <2>2, <2>3
<1> HIDE DEF Step
<1> DEFINE H == {n \in Nat : n >= 1 /\ n <= N => F[n] \in Seq(S)}
<1>11. 0 \in H
  OBVIOUS
<1>12. ASSUME NEW n \in Nat, n \in H PROVE n + 1 \in H
  <2>1. CASE n = 0
    BY <1>1, <1>9, <2>1
  <2>2. CASE n >= 1 /\ n + 1 <= N
    <3>1. n + 1 \in 2..N /\ n + 1 - 1 = n /\ n + 1 \in 1..N
      BY <1>1, <2>2
    <3>2. F[n + 1] = F[n] \o s[n + 1]
      <4>1. \A i \in 2..N : F[i] = F[i - 1] \o s[i]
        BY <1>10
      <4>2. PICK k \in 2..N : k = n + 1 /\ k - 1 = n
        BY <3>1
      <4>3. F[k] = F[k - 1] \o s[k]
        BY <4>1, Zenon
      <4> QED
        BY <4>2, <4>3, Zenon
    <3>3. F[n] \in Seq(S) /\ s[n + 1] \in Seq(S)
      BY <1>1, <1>12, <2>2, <3>1
    <3>4. F[n + 1] \in Seq(S)
      BY <3>2, <3>3
    <3> QED
      BY <3>4
  <2>3. CASE n + 1 > N
    BY <1>1, <2>3
  <2> QED
    BY <1>1, <2>1, <2>2, <2>3
<1>13. \A n \in Nat : n \in H
  <2> HIDE DEF H
  <2> QED
    BY <1>11, <1>12, Induction
<1>14. \A i \in 1..N : F[i] \in Seq(S)
  BY <1>1, <1>13
<1>15. F \in [1..N -> Seq(S)]
  BY <1>9, <1>14
<1> QED
  BY <1>1, <1>8, <1>9, <1>10, <1>15

LEMMA FlattenedOne ==
  ASSUME NEW S, NEW s \in Seq(Seq(S)), Len(s) = 1
  PROVE  FlattenSeq(s) = s[1]
<1>1. Len(s) # 0
  OBVIOUS
<1>2. PICK f \in [1..Len(s) -> Seq(S)] :
        /\ FlattenSeq(s) = f[Len(s)] /\ f[1] = s[1]
        /\ \A i \in 2..Len(s) : f[i] = f[i - 1] \o s[i]
  BY <1>1, FlattenedInParts
<1> QED
  BY <1>2

\* Pieces that are not longer, and as long as a whole, are as long as the pieces.
LEMMA FlattenedLengths ==
  ASSUME NEW S, NEW s \in Seq(Seq(S)), NEW t \in Seq(Seq(S)), Len(s) = Len(t),
         \A i \in 1..Len(s) : Len(s[i]) <= Len(t[i]),
         Len(FlattenSeq(s)) = Len(FlattenSeq(t))
  PROVE  \A i \in 1..Len(s) : Len(s[i]) = Len(t[i])
<1>1. CASE Len(s) = 0
  BY <1>1
<1>2. CASE Len(s) # 0
  <2> DEFINE N == Len(s)
  <2>1. /\ N \in Nat /\ N >= 1
        /\ \A i \in 1..N : /\ s[i] \in Seq(S) /\ t[i] \in Seq(S)
                           /\ Len(s[i]) \in Nat /\ Len(t[i]) \in Nat
    BY <1>2
  <2>2. PICK f \in [1..N -> Seq(S)] :
          /\ FlattenSeq(s) = f[N] /\ f[1] = s[1]
          /\ \A i \in 2..N : f[i] = f[i - 1] \o s[i]
    BY <1>2, FlattenedInParts
  <2>3. PICK g \in [1..N -> Seq(S)] :
          /\ FlattenSeq(t) = g[N] /\ g[1] = t[1]
          /\ \A i \in 2..N : g[i] = g[i - 1] \o t[i]
    <3>1. N = Len(t) /\ Len(t) # 0
      BY <1>2
    <3>2. PICK g \in [1..Len(t) -> Seq(S)] :
            /\ FlattenSeq(t) = g[Len(t)] /\ g[1] = t[1]
            /\ \A i \in 2..Len(t) : g[i] = g[i - 1] \o t[i]
      BY <3>1, FlattenedInParts
    <3> HIDE DEF N
    <3> QED
      BY <3>1, <3>2, Zenon
  <2> DEFINE Good(n) == /\ Len(f[n]) <= Len(g[n])
                        /\ Len(f[n]) = Len(g[n]) =>
                             \A i \in 1..n : Len(s[i]) = Len(t[i])
             G == {n \in Nat : n >= 1 /\ n <= N => Good(n)}
  <2>4. 0 \in G
    OBVIOUS
  <2>5. ASSUME NEW n \in Nat, n \in G PROVE n + 1 \in G
    <3> SUFFICES ASSUME n + 1 <= N PROVE Good(n + 1)
      BY <2>1
    <3>1. CASE n = 0
      BY <2>1, <2>2, <2>3, <3>1
    <3>2. CASE n >= 1
      <4>1. n + 1 \in 2..N /\ n + 1 - 1 = n /\ n \in 1..N
        BY <2>1, <3>2
      <4>2. f[n + 1] = f[n] \o s[n + 1] /\ g[n + 1] = g[n] \o t[n + 1]
        <5>1. PICK k \in 2..N : k = n + 1 /\ k - 1 = n
          BY <4>1
        <5>2. f[k] = f[k - 1] \o s[k] /\ g[k] = g[k - 1] \o t[k]
          BY <2>2, <2>3, Zenon
        <5> QED
          BY <5>1, <5>2, Zenon
      <4>3. /\ Len(f[n + 1]) = Len(f[n]) + Len(s[n + 1])
            /\ Len(g[n + 1]) = Len(g[n]) + Len(t[n + 1])
            /\ Len(f[n]) \in Nat /\ Len(g[n]) \in Nat
        BY <2>1, <4>1, <4>2
      <4>4. Good(n)
        BY <2>5, <4>1
      <4>5. Len(s[n + 1]) <= Len(t[n + 1]) /\ Len(f[n]) <= Len(g[n])
        BY <4>1, <4>4
      <4>8. Len(s[n + 1]) \in Nat /\ Len(t[n + 1]) \in Nat
        BY <2>1, <4>1
      <4>9. /\ Len(f[n]) + Len(s[n + 1]) <= Len(g[n]) + Len(t[n + 1])
            /\ Len(f[n]) + Len(s[n + 1]) = Len(g[n]) + Len(t[n + 1]) =>
                 Len(f[n]) = Len(g[n]) /\ Len(s[n + 1]) = Len(t[n + 1])
        <5>1. PICK a \in Nat, b \in Nat, c \in Nat, d \in Nat :
                /\ a = Len(f[n]) /\ b = Len(s[n + 1])
                /\ c = Len(g[n]) /\ d = Len(t[n + 1])
          BY <4>3, <4>8, Zenon
        <5>2. a <= c /\ b <= d
          BY <4>5, <5>1, Zenon
        <5>3. a + b <= c + d /\ (a + b = c + d => a = c /\ b = d)
          BY <5>2
        <5> QED
          BY <5>1, <5>3, Zenon
      <4>6. Len(f[n + 1]) <= Len(g[n + 1])
        BY <4>3, <4>9, Zenon
      <4>7. ASSUME Len(f[n + 1]) = Len(g[n + 1])
            PROVE  \A i \in 1..(n + 1) : Len(s[i]) = Len(t[i])
        <5>1. Len(f[n]) = Len(g[n]) /\ Len(s[n + 1]) = Len(t[n + 1])
          BY <4>3, <4>7, <4>9, Zenon
        <5>2. ASSUME NEW i \in 1..(n + 1) PROVE Len(s[i]) = Len(t[i])
          <6>1. CASE i = n + 1
            BY <5>1, <6>1
          <6>2. CASE i \in 1..n
            BY <4>4, <5>1, <6>2
          <6>3. i = n + 1 \/ i \in 1..n
            BY <4>1
          <6> QED
            BY <6>1, <6>2, <6>3
        <5> QED
          BY <5>2
      <4> QED
        BY <4>6, <4>7
    <3> QED
      BY <3>1, <3>2
  <2>6. N \in G
    <3> HIDE DEF G, N
    <3> QED
      BY <2>1, <2>4, <2>5, Induction
  <2> QED
    BY <2>1, <2>2, <2>3, <2>6
<1> QED
  BY <1>1, <1>2

------------------------------------------------------------------------------
(* Removing an image from a list. *)

\* Where the images that are kept were in the list: each at its own place.
Selects(at, kept, images, id) ==
  \A k \in DOMAIN kept :
    /\ kept[k] = images[at[k]] /\ images[at[k]].id # id
    /\ \A l \in DOMAIN kept : k # l => at[k] # at[l]

\* What is left of the first n images, and where it was.
LEMMA WithoutKeeps ==
  ASSUME NEW S, NEW images \in Seq(S), NEW id
  PROVE  /\ Without(images, id) \in Seq(S)
         /\ \E at \in [DOMAIN Without(images, id) -> DOMAIN images] :
              Selects(at, Without(images, id), images, id)
<1> DEFINE N == Len(images)
<1>1. N \in Nat /\ DOMAIN images = 1..N /\ (\A i \in 1..N : images[i] \in S)
      /\ N = Len(images)
  OBVIOUS
<1> HIDE DEF N
<1> DEFINE Next1(n, kept) == IF images[n].id = id THEN kept ELSE Append(kept, images[n])
           Good(n, kept) ==
             /\ kept \in Seq(S)
             /\ \E at \in [1..Len(kept) -> 1..n] :
                  \A k \in 1..Len(kept) :
                    /\ kept[k] = images[at[k]] /\ images[at[k]].id # id
                    /\ \A l \in 1..Len(kept) : k # l => at[k] # at[l]
<1>2. Good(0, <<>>)
  <2> DEFINE none == [k \in 1..0 |-> k]
  <2>1. none \in [1..Len(<<>>) -> 1..0] /\ 1..Len(<<>>) = {} /\ <<>> \in Seq(S)
    OBVIOUS
  <2> HIDE DEF none
  <2> QED
    BY <2>1
<1>3. ASSUME NEW n \in 1..N, NEW kept, Good(n - 1, kept)
      PROVE  Good(n, Next1(n, kept))
  <2>1. PICK at \in [1..Len(kept) -> 1..(n - 1)] :
          \A k \in 1..Len(kept) :
            /\ kept[k] = images[at[k]] /\ images[at[k]].id # id
            /\ \A l \in 1..Len(kept) : k # l => at[k] # at[l]
    BY <1>3
  <2>2. kept \in Seq(S) /\ Len(kept) \in Nat /\ images[n] \in S /\ n \in Nat
        /\ 1..(n - 1) \subseteq 1..n
    BY <1>1, <1>3
  <2>3. CASE images[n].id = id
    <3>1. at \in [1..Len(kept) -> 1..n]
      BY <2>2
    <3>2. Next1(n, kept) = kept
      BY <2>3
    <3> QED
      BY <2>1, <2>2, <3>1, <3>2
  <2>4. CASE images[n].id # id
    <3> DEFINE m == Len(kept)
               longer == Append(kept, images[n])
               up == [k \in 1..(m + 1) |-> IF k <= m THEN at[k] ELSE n]
    <3>0. m = Len(kept) /\ m \in Nat /\ n \in 1..n
      BY <2>2, <1>3
    <3>1. /\ longer \in Seq(S) /\ Len(longer) = m + 1 /\ m \in Nat
          /\ \A k \in 1..m : longer[k] = kept[k]
          /\ longer[m + 1] = images[n]
      BY <2>2, AppendProperties
    <3>3. Next1(n, kept) = longer
      BY <2>4
    <3> HIDE DEF longer, m
    <3>4. at \in [1..m -> 1..(n - 1)]
      BY <3>0
    <3>2. /\ up \in [1..(m + 1) -> 1..n] /\ up[m + 1] = n
          /\ \A k \in 1..m : up[k] = at[k] /\ up[k] # n
      <4>1. \A k \in 1..m : at[k] \in 1..n /\ at[k] # n
        <5>1. \A j \in 1..(n - 1) : j \in 1..n /\ j # n
          BY <2>2
        <5>2. \A k \in 1..m : at[k] \in 1..(n - 1)
          BY <3>4
        <5> QED
          BY <5>1, <5>2
      <4>2. \A k \in 1..m : k <= m /\ k \in 1..(m + 1)
        BY <3>0
      <4>3. up[m + 1] = n
        BY <3>0
      <4> QED
        BY <3>0, <4>1, <4>2, <4>3
    <3> HIDE DEF up
    <3>5. ASSUME NEW k \in 1..(m + 1)
          PROVE  /\ longer[k] = images[up[k]] /\ images[up[k]].id # id
                 /\ \A l \in 1..(m + 1) : k # l => up[k] # up[l]
      <4>1. CASE k = m + 1
        <5>1. longer[k] = images[up[k]] /\ images[up[k]].id # id
          BY <2>4, <3>1, <3>2, <4>1
        <5>2. \A l \in 1..(m + 1) : k # l => l \in 1..m
          BY <3>0, <4>1
        <5> QED
          BY <3>2, <4>1, <5>1, <5>2
      <4>2. CASE k \in 1..m
        <5>1. longer[k] = images[up[k]] /\ images[up[k]].id # id
          BY <2>1, <3>0, <3>1, <3>2, <4>2
        <5>2. \A l \in 1..m : k # l => up[k] # up[l]
          BY <2>1, <3>0, <3>2, <4>2
        <5>3. \A l \in 1..(m + 1) : l \in 1..m \/ l = m + 1
          BY <3>0
        <5> QED
          BY <3>2, <4>2, <5>1, <5>2, <5>3
      <4>3. k = m + 1 \/ k \in 1..m
        BY <3>0
      <4> QED
        BY <4>1, <4>2, <4>3
    <3>6. Good(n, longer)
      <4>1. /\ longer \in Seq(S) /\ Len(longer) = m + 1
            /\ up \in [1..(m + 1) -> 1..n]
        BY <3>1, <3>2
      <4> QED
        BY <3>5, <4>1
    <3> HIDE DEF Good, Next1
    <3> QED
      BY <3>3, <3>6
  <2> QED
    BY <2>3, <2>4
<1> DEFINE Step(f) == [n \in 0..N |-> IF n = 0 THEN <<>> ELSE Next1(n, f[n - 1])]
           F == CHOOSE f : f = Step(f)
<1> HIDE DEF Good, Next1
<1> DEFINE Up(n, f) == f[0] = <<>> /\ \A i \in 1..n : f[i] = Next1(i, f[i - 1])
           G == {n \in Nat : n <= N => \E f : f = [i \in 0..n |-> f[i]] /\ Up(n, f)}
<1>4. 0 \in G
  <2> DEFINE f == [i \in 0..0 |-> <<>>]
  <2>1. f = [i \in 0..0 |-> f[i]] /\ f[0] = <<>>
    OBVIOUS
  <2> HIDE DEF f
  <2>2. Up(0, f)
    BY <2>1
  <2> HIDE DEF Up
  <2> QED
    BY <2>1, <2>2
<1>5. ASSUME NEW n \in Nat, n \in G PROVE n + 1 \in G
  <2>1. CASE n + 1 <= N
    <3>1. PICK f : f = [i \in 0..n |-> f[i]] /\ Up(n, f)
      <4>1. n <= N
        BY <1>1, <2>1
      <4> HIDE DEF Up
      <4> QED
        BY <1>5, <4>1
    <3> DEFINE last == Next1(n + 1, f[n])
    <3> HIDE DEF last
    <3> DEFINE g == [i \in 0..(n + 1) |-> IF i <= n THEN f[i] ELSE last]
    <3>2. /\ g = [i \in 0..(n + 1) |-> g[i]] /\ g[n + 1] = last
          /\ \A i \in 0..n : g[i] = f[i]
      OBVIOUS
    <3> HIDE DEF g
    <3>3. ASSUME NEW i \in 1..(n + 1) PROVE g[i] = Next1(i, g[i - 1])
      <4>1. CASE i <= n
        <5>1. i \in 1..n /\ i \in 0..n /\ i - 1 \in 0..n
          BY <4>1
        <5>2. g[i] = f[i] /\ g[i - 1] = f[i - 1]
          BY <3>2, <5>1
        <5> QED
          BY <3>1, <5>1, <5>2
      <4>2. CASE i = n + 1
        <5>1. g[i] = last /\ g[i - 1] = f[n]
          BY <3>2, <4>2
        <5> QED
          BY <4>2, <5>1 DEF last
      <4> QED
        BY <4>1, <4>2
    <3>4. Up(n + 1, g)
      <4>1. g[0] = <<>>
        BY <3>1, <3>2
      <4> QED
        BY <3>3, <4>1
    <3> HIDE DEF Up
    <3> QED
      BY <3>2, <3>4
  <2>2. CASE ~(n + 1 <= N)
    <3> HIDE DEF Up
    <3> QED
      BY <2>2
  <2> HIDE DEF G
  <2> QED
    BY <2>1, <2>2
<1>6. N \in G
  <2> HIDE DEF G
  <2> QED
    BY <1>1, <1>4, <1>5, Induction
<1>7. PICK g : g = [i \in 0..N |-> g[i]] /\ Up(N, g)
  <2> HIDE DEF Up
  <2> QED
    BY <1>1, <1>6
<1>8. g = Step(g)
  <2>1. ASSUME NEW i \in 0..N PROVE g[i] = Step(g)[i]
    BY <1>1, <1>7
  <2>2. Step(g) = [i \in 0..N |-> Step(g)[i]]
    OBVIOUS
  <2> HIDE DEF Step, Up
  <2> QED
    BY <1>7, <2>1, <2>2
<1>9. F = Step(F)
  <2> HIDE DEF Step
  <2> QED
    BY <1>8
<1>10. Without(images, id) = F[N]
  BY <1>1 DEF Without, Next1
<1> HIDE DEF F
<1>11. F[0] = <<>> /\ \A n \in 1..N : F[n] = Next1(n, F[n - 1])
  BY <1>1, <1>9
<1> HIDE DEF Step, Up
<1> DEFINE H == {n \in Nat : n <= N => Good(n, F[n])}
<1>12. 0 \in H
  BY <1>2, <1>11
<1>13. ASSUME NEW n \in Nat, n \in H PROVE n + 1 \in H
  <2>1. CASE n + 1 <= N
    <3>1. n + 1 \in 1..N /\ n + 1 - 1 = n /\ n <= N
      BY <1>1, <2>1
    <3>2. F[n + 1] = Next1(n + 1, F[n])
      BY <1>11, <3>1
    <3> QED
      BY <1>3, <1>13, <3>1, <3>2
  <2> QED
    BY <2>1
<1>14. Good(N, F[N])
  <2>1. N \in H
    <3> HIDE DEF H
    <3> QED
      BY <1>1, <1>12, <1>13, Induction
  <2> QED
    BY <1>1, <2>1
<1>15. ASSUME NEW kept, Good(N, kept)
       PROVE  /\ kept \in Seq(S)
              /\ \E at \in [DOMAIN kept -> DOMAIN images] : Selects(at, kept, images, id)
  <2>1. kept \in Seq(S) /\ DOMAIN kept = 1..Len(kept) /\ DOMAIN images = 1..N
    BY <1>1, <1>15 DEF Good
  <2>2. PICK at \in [1..Len(kept) -> 1..N] :
          \A k \in 1..Len(kept) :
            /\ kept[k] = images[at[k]] /\ images[at[k]].id # id
            /\ \A l \in 1..Len(kept) : k # l => at[k] # at[l]
    BY <1>15, Zenon DEF Good
  <2>3. Selects(at, kept, images, id)
    BY <2>1, <2>2, Zenon DEF Selects
  <2> QED
    BY <2>1, <2>2, <2>3, Zenon
<1> QED
  BY <1>10, <1>14, <1>15, Zenon

------------------------------------------------------------------------------
(* The names of the files of an image. *)

\* The spans that are accepted have the numbers from 1, each once, so that as many
\* come before one as its number says.
SpansBefore(primary, names, span) ==
  {m \in Candidates(primary, names) : Sequence(primary, m) < Sequence(primary, span)}

LEMMA EachNumberOnce ==
  ASSUME NEW primary, NEW names, IsFiniteSet(names), GhostSpansAccepted(primary, names)
  PROVE  LET C == Candidates(primary, names)
         IN  /\ IsFiniteSet(C) /\ Cardinality(C) \in Nat
             /\ \A n \in C : /\ Sequence(primary, n) \in 1..Cardinality(C)
                             /\ Cardinality(SpansBefore(primary, names, n)) =
                                  Sequence(primary, n) - 1
             /\ \A k \in 1..Cardinality(C) : \E n \in C : Sequence(primary, n) = k
             /\ \A m, n \in C : Sequence(primary, m) = Sequence(primary, n) => m = n
<1> DEFINE C == Candidates(primary, names)
           N == Cardinality(C)
           Before(n) == {m \in C : Sequence(primary, m) < Sequence(primary, n)}
<1>1. C \in SUBSET names
  BY DEF Candidates
<1>2. IsFiniteSet(C) /\ N \in Nat
  BY <1>1, FS_Subset, FS_CardinalityType
<1>3. CASE C = {}
  <2>1. N = 0
    BY <1>3, FS_EmptySet
  <2> QED
    BY <1>2, <1>3, <2>1
<1>4. CASE C # {}
  <2>1. {Sequence(primary, n) : n \in C} = 1..N
    BY <1>4 DEF GhostSpansAccepted, SequenceIsComplete
  <2> DEFINE f == [n \in C |-> Sequence(primary, n)]
  <2>2. f \in Surjection(C, 1..N)
    <3>1. f \in [C -> 1..N]
      BY <2>1
    <3>2. \A k \in 1..N : \E n \in C : f[n] = k
      BY <2>1
    <3> HIDE DEF f
    <3> QED
      BY <3>1, <3>2 DEF Surjection
  <2>3. Cardinality(1..N) = Cardinality(C)
    BY <1>2, FS_Interval
  <2>4. f \in Injection(C, 1..N)
    <3> HIDE DEF f
    <3> QED
      BY <1>2, <2>2, <2>3, FS_SurjSameCardinalityImpliesInj
  <2>5. \A m, n \in C : Sequence(primary, m) = Sequence(primary, n) => m = n
    BY <2>4 DEF Injection, IsInjective
  <2>6. ASSUME NEW n \in C
        PROVE  Sequence(primary, n) \in 1..N
               /\ Cardinality(Before(n)) = Sequence(primary, n) - 1
    <3>1. PICK k \in 1..N : Sequence(primary, n) = k
      BY <2>1
    <3> DEFINE g == [m \in Before(n) |-> Sequence(primary, m)]
    <3>2. \A m \in Before(n) : m \in C /\ Sequence(primary, m) \in 1..(k - 1)
      <4> TAKE m \in Before(n)
      <4>1. m \in C /\ Sequence(primary, m) < k
        BY <3>1
      <4>2. Sequence(primary, m) \in 1..N
        BY <2>1, <4>1
      <4> QED
        BY <1>2, <4>1, <4>2
    <3>3. \A j \in 1..(k - 1) : \E m \in Before(n) : Sequence(primary, m) = j
      <4> TAKE j \in 1..(k - 1)
      <4>1. j \in 1..N /\ j < k
        BY <1>2
      <4>2. PICK m \in C : Sequence(primary, m) = j
        BY <2>1, <4>1
      <4> QED
        BY <3>1, <4>1, <4>2
    <3>4. \A m, q \in Before(n) : Sequence(primary, m) = Sequence(primary, q) => m = q
      BY <2>5
    <3>5. Before(n) \in SUBSET C
      OBVIOUS
    <3> HIDE DEF Before
    <3>6. g \in [Before(n) -> 1..(k - 1)]
      BY <3>2
    <3>7. /\ \A j \in 1..(k - 1) : \E m \in Before(n) : g[m] = j
          /\ \A m, q \in Before(n) : g[m] = g[q] => m = q
      BY <3>3, <3>4
    <3> HIDE DEF g
    <3>8. g \in Surjection(Before(n), 1..(k - 1)) /\ g \in Injection(Before(n), 1..(k - 1))
      BY <3>6, <3>7 DEF Surjection, Injection, IsInjective
    <3>9. ExistsBijection(Before(n), 1..(k - 1))
      BY <3>8 DEF Bijection, ExistsBijection
    <3>10. IsFiniteSet(Before(n))
      BY <1>2, <3>5, FS_Subset
    <3>11. Cardinality(1..(k - 1)) = Cardinality(Before(n))
      BY <3>9, <3>10, FS_Bijection
    <3>12. Cardinality(1..(k - 1)) = k - 1
      BY <1>2, FS_Interval
    <3> QED
      BY <3>1, <3>11, <3>12
  <2>7. \A k \in 1..N : \E n \in C : Sequence(primary, n) = k
    BY <2>1
  <2>8. \A n \in C : SpansBefore(primary, names, n) = Before(n)
    BY DEF SpansBefore
  <2> HIDE DEF Before, C
  <2> QED
    BY <1>2, <2>5, <2>6, <2>7, <2>8 DEF C
<1> QED
  BY <1>3, <1>4

LEMMA GhostSpansInOrder ==
  ASSUME NEW primary, NEW names, IsFiniteSet(names), GhostSpansAccepted(primary, names)
  PROVE  LET C == Candidates(primary, names)
         IN  /\ Cardinality(C) \in Nat
             /\ GhostSpans(primary, names) \in [1..Cardinality(C) -> C]
             /\ \A k \in 1..Cardinality(C) : Sequence(primary, GhostSpans(primary, names)[k]) = k
<1> DEFINE C == Candidates(primary, names)
           N == Cardinality(C)
           Before(n) == {m \in C : Sequence(primary, m) < Sequence(primary, n)}
           Spot(k) == CHOOSE n \in C : Cardinality(Before(n)) = k - 1
<1>1. /\ N \in Nat
      /\ \A n \in C : /\ Sequence(primary, n) \in 1..N
                      /\ Cardinality(Before(n)) = Sequence(primary, n) - 1
      /\ \A k \in 1..N : \E n \in C : Sequence(primary, n) = k
  BY EachNumberOnce DEF SpansBefore
<1>2. GhostSpans(primary, names) = [k \in 1..N |-> Spot(k)]
  BY DEF GhostSpans
<1> HIDE DEF Before, C, N
<1>3. ASSUME NEW k \in 1..N PROVE Spot(k) \in C /\ Sequence(primary, Spot(k)) = k
  <2>1. \E n \in C : Cardinality(Before(n)) = k - 1
    BY <1>1
  <2>2. Spot(k) \in C /\ Cardinality(Before(Spot(k))) = k - 1
    BY <2>1
  <2> HIDE DEF Spot
  <2>3. Sequence(primary, Spot(k)) \in 1..N /\ Sequence(primary, Spot(k)) - 1 = k - 1
    BY <1>1, <2>2
  <2> QED
    BY <1>1, <2>2, <2>3
<1> HIDE DEF Spot
<1>4. GhostSpans(primary, names) \in [1..N -> C]
  BY <1>2, <1>3
<1>5. \A k \in 1..N : Sequence(primary, GhostSpans(primary, names)[k]) = k
  BY <1>2, <1>3
<1> QED
  BY <1>1, <1>4, <1>5 DEF C, N

LEMMA GhostSpansAreNames ==
  ASSUME NEW primary, NEW names, IsFiniteSet(names), GhostSpansAccepted(primary, names)
  PROVE  GhostSpans(primary, names) \in Seq(Candidates(primary, names))
BY GhostSpansInOrder

LEMMA SequenceOfSet ==
  ASSUME NEW T, IsFiniteSet(T)
  PROVE  SetToSeq(T) \in Seq(T)
<1> DEFINE N == Cardinality(T)
<1>1. N \in Nat /\ ExistsBijection(1..N, T)
  BY FS_CardinalityType
<1>2. PICK f \in Bijection(1..N, T) : TRUE
  BY <1>1 DEF ExistsBijection
<1>3. f \in [1..N -> T] /\ IsInjective(f)
  BY <1>2 DEF Bijection, Injection, IsInjective
<1>4. SetToSeq(T) \in [1..N -> T]
  BY <1>3 DEF SetToSeq
<1> QED
  BY <1>1, <1>4

\* What belongs to the name of an image: never the name of an extracted asset.
LEMMA ImageNames ==
  ASSUME NEW primary, NEW names, IsFiniteSet(names), primary \in names,
         primary.ext \in KnownFormats, SpansAccepted(primary, names)
  PROVE  LET files == <<primary>> \o Spans(primary, names)
         IN  /\ files \in Seq({n \in names : n.ext # <<>>})
             /\ Len(files) >= 1 /\ files[1] = primary
             /\ primary.ext = Iso => Len(files) = 1
<1> DEFINE T == {n \in names : n.ext # <<>>}
<1>1. Gho # <<>> /\ Ghs # <<>> /\ Wim # <<>> /\ Swm # <<>> /\ Iso # <<>>
  BY DEF Gho, Ghs, Wim, Swm, Iso
<1>2. /\ Gho # Wim /\ Gho # Swm /\ Gho # Iso /\ Swm # Iso
  BY DEF Gho, Wim, Swm, Iso
<1>3. primary \in T
  BY <1>1 DEF KnownFormats
<1>4. Spans(primary, names) \in Seq(T) /\ (primary.ext = Iso => Spans(primary, names) = <<>>)
  <2>1. CASE primary.ext = Gho
    <3>1. Spans(primary, names) = GhostSpans(primary, names)
      BY <1>2, <2>1 DEF Spans
    <3>2. GhostSpansAccepted(primary, names)
      BY <1>2, <2>1 DEF SpansAccepted
    <3>3. ASSUME NEW n \in Candidates(primary, names) PROVE n \in T
      <4>1. n \in names /\ (n.ext = Ghs \/ Len(n.ext) = 3)
        BY DEF Candidates, IsGhs, IsCns
      <4>2. Len(<<>>) = 0 /\ Len(<<>>) # 3
        OBVIOUS
      <4>3. n.ext # <<>>
        BY <1>1, <4>1, <4>2, Zenon
      <4> QED
        BY <4>1, <4>3
    <3>4. Candidates(primary, names) \subseteq T
      BY <3>3
    <3> HIDE DEF T
    <3>5. Spans(primary, names) \in Seq(Candidates(primary, names))
      BY <3>1, <3>2, GhostSpansAreNames
    <3>6. Spans(primary, names) \in Seq(T)
      BY <3>4, <3>5, SeqMonotonic
    <3> QED
      BY <1>2, <2>1, <3>6
  <2>2. CASE primary.ext = Swm
    <3>1. Spans(primary, names) = SetToSeq(SwmSpans(primary, names))
      BY <1>2, <2>2 DEF Spans
    <3>2. SwmSpans(primary, names) \in SUBSET names
      BY DEF SwmSpans
    <3>3. IsFiniteSet(SwmSpans(primary, names))
      BY <3>2, FS_Subset
    <3>4. SwmSpans(primary, names) \subseteq T
      BY <1>1 DEF SwmSpans
    <3> HIDE DEF T
    <3>5. Spans(primary, names) \in Seq(SwmSpans(primary, names))
      BY <3>1, <3>3, SequenceOfSet
    <3>6. Spans(primary, names) \in Seq(T)
      BY <3>4, <3>5, SeqMonotonic
    <3> QED
      BY <1>2, <2>2, <3>6
  <2>3. CASE primary.ext # Gho /\ primary.ext # Swm
    BY <2>3 DEF Spans
  <2> QED
    BY <2>1, <2>2, <2>3
<1> DEFINE spans == Spans(primary, names)
<1>5. <<primary>> \in Seq(T) /\ Len(<<primary>>) = 1 /\ <<primary>>[1] = primary
  BY <1>3
<1> HIDE DEF T
<1>6. spans \in Seq(T) /\ Len(spans) \in Nat
  BY <1>4
<1> HIDE DEF spans
<1>7. /\ <<primary>> \o spans \in Seq(T)
      /\ Len(<<primary>> \o spans) = 1 + Len(spans)
      /\ (<<primary>> \o spans)[1] = primary
  BY <1>5, <1>6, ConcatProperties
<1>8. primary.ext = Iso => Len(spans) = 0
  BY <1>4 DEF spans
<1>9. Len(<<primary>> \o spans) >= 1 /\ (primary.ext = Iso => Len(<<primary>> \o spans) = 1)
  BY <1>6, <1>7, <1>8
<1> QED
  BY <1>7, <1>9 DEF spans, T

------------------------------------------------------------------------------
(* The invariant.  Its parts take the variables they are about as           *)
(* parameters, so that they can be carried over a step that leaves those    *)
(* alone.                                                                   *)

Dirs(images) == {images[i].dir : i \in DOMAIN images}

ImageFields == {"format", "dir", "names", "hash", "partitions", "assets", "verified"}

\* A record made of files of the folder.
Recorded(image, f) ==
  /\ ImageFields \subseteq DOMAIN image
  /\ image.dir \in Dir
  /\ image.names \in Seq({n \in DOMAIN f : n.ext # <<>>}) /\ Len(image.names) >= 1
  /\ image.format = image.names[1].ext
  /\ image.format = Iso => Len(image.names) = 1
  /\ image.hash = Concatenated(Content(f, image.names))

\* The partitions a record names are those of the operator's files.
PartitionsFound(image, f) ==
  image.format = Gho => image.partitions = NtfsPartitions(Content(f, image.names))

HasId(image) == "id" \in DOMAIN image /\ image.id \in Id

Listed(image, f, r) ==
  /\ Recorded(image, f) /\ HasId(image)
  /\ image.id \notin r => PartitionsFound(image, f)

ListInv(images, f, r) ==
  /\ images \in Seq(ToSet(images))
  /\ \A i \in DOMAIN images : Listed(images[i], f, r)
  /\ \A i, j \in DOMAIN images : i # j =>
       /\ images[i].id # images[j].id /\ images[i].dir # images[j].dir
       /\ ~SameFiles(images[i], images[j])

\* What is left of a file that lost its end, so many times.
Shortened(file, original) ==
  /\ file \in Seq(Tokens) /\ Len(file) <= Len(original)
  /\ \A k \in 1..Len(file) : file[k] = original[k]

DirectoryInv(directory, f) ==
  \A n \in DOMAIN directory :
    n.ext # <<>> => n \in DOMAIN f /\ Shortened(directory[n], f[n])

\* The directory a call has for itself: no other call's, and no listed image's.
Loose(call) ==
  IF call.step = "staged" THEN {call.image.dir}
  ELSE IF call.step = "writing" THEN call.made
  ELSE IF call.step = "cleaning" THEN call.drop ELSE {}

\* The copy is complete, and nothing reaches it before the image is listed.
Staged(call, o, f) ==
  LET image == call.image
  IN  /\ Recorded(image, f) /\ PartitionsFound(image, f)
      /\ \A n \in ToSet(image.names) :
           n \in DOMAIN o[image.dir] /\ o[image.dir][n] = f[n]

Writes(call, lib, f, r) ==
  /\ ListInv(call.next, f, r)
  /\ Dirs(call.next) \subseteq Dirs(lib) \cup call.made
  /\ call.drop \subseteq Dirs(lib) \ Dirs(call.next)

\* An id is not given to other files while a call knows it.
SameImage(image, images) ==
  \A i \in DOMAIN images :
    images[i].id = image.id =>
      images[i].names = image.names /\ images[i].format = image.format

IsPrepared(call, f, r) ==
  LET original == Content(f, call.image.names)
  IN  IF call.image.format = Gho
      THEN \/ call.image.id \in r
           \/ \E p \in NtfsPartitions(call.files) \cap NtfsPartitions(original) :
                p.source = call.index
      ELSE call.files = original

IsServed(call, f) ==
  LET original == f[call.image.names[1]]
  IN  /\ call.range[1] \in 0..call.range[2]
      /\ Len(call.bytes) = call.range[2] - call.range[1] + 1
      /\ call.bytes = SubSeq(original, call.range[1] + 1, call.range[2] + 1)

Prepares(call) == call.step \in {"cloned", "ready", "prepared", "served"}

Knows(call) == call.step \in {"cloned", "ready"}

Preparing(call, lib, f, r) ==
  /\ {"step", "image", "index"} \subseteq DOMAIN call \/ ~Knows(call)
  /\ Recorded(call.image, f) /\ HasId(call.image)
  /\ Knows(call) => SameImage(call.image, lib)
  /\ call.step = "ready" => call.image.format = Gho
  /\ call.step = "prepared" => IsPrepared(call, f, r)
  /\ call.step = "served" => IsServed(call, f)

CallInv(call, lib, o, f, r) ==
  /\ call.step \in {"idle", "staged", "writing", "cleaning", "cloned", "ready",
                    "prepared", "served"}
  /\ call.step = "staged" => Staged(call, o, f)
  /\ call.step = "writing" => Writes(call, lib, f, r)
  /\ Prepares(call) => Preparing(call, lib, f, r)

TypesInv ==
  /\ FolderInit
  /\ op = [c \in Caller |-> op[c]]
  /\ {"torn", "images"} \subseteq DOMAIN manifest
  /\ manifest.torn \in BOOLEAN /\ running \in BOOLEAN

ListsInv ==
  /\ ListInv(library, folder, reverified) /\ ListInv(manifest.images, folder, reverified)
  /\ running => manifest.torn \/ manifest.images = library
  /\ manifest.torn => manifest.images = <<>>
  /\ running \/ (library = <<>> /\ \A c \in Caller : op[c] = NoCall)

OwnInv ==
  /\ DOMAIN objects \subseteq Dir
  /\ Dirs(library) \subseteq DOMAIN objects /\ Dirs(manifest.images) \subseteq DOMAIN objects
  /\ \A c \in Caller : /\ Loose(op[c]) \subseteq DOMAIN objects
                       /\ Loose(op[c]) \cap Dirs(library) = {}
                       /\ Loose(op[c]) \cap Dirs(manifest.images) = {}
  /\ \A c, d \in Caller : c # d => Loose(op[c]) \cap Loose(op[d]) = {}

FilesInv ==
  \A d \in DOMAIN objects : DirectoryInv(objects[d], folder)

CallsInv ==
  /\ \A c \in Caller : CallInv(op[c], library, objects, folder, reverified)
  /\ \A c, d \in Caller :
       /\ op[c].step = "writing" /\ op[d].step = "writing" => c = d
       /\ op[c].step = "writing" /\ Knows(op[d]) => SameImage(op[d].image, op[c].next)

LibraryInv == TypesInv /\ ListsInv /\ OwnInv /\ FilesInv /\ CallsInv

------------------------------------------------------------------------------
(* Lists of images. *)

\* A list that has no image.
LEMMA NoImages ==
  ASSUME NEW f, NEW r
  PROVE  ListInv(<<>>, f, r) /\ Dirs(<<>>) = {}
<1>1. <<>> \in Seq(ToSet(<<>>)) /\ DOMAIN <<>> = {}
  OBVIOUS
<1> QED
  BY <1>1 DEF ListInv, Dirs

\* More images verified again.
LEMMA MoreReverified ==
  ASSUME NEW images, NEW f, NEW r, NEW q, r \subseteq q, ListInv(images, f, r)
  PROVE  ListInv(images, f, q)
BY DEF ListInv, Listed

\* The image of an id.
LEMMA NamedImage ==
  ASSUME NEW images, NEW id \in Ids(images)
  PROVE  \E i \in DOMAIN images : ImageNamed(images, id) = images[i] /\ images[i].id = id
<1>1. \E i \in DOMAIN images : images[i].id = id
  BY DEF Ids
<1> QED
  BY <1>1 DEF ImageNamed

\* A list without one of its images.
KeptFrom(kept, images, id) ==
  \A k \in DOMAIN kept : \E i \in DOMAIN images :
    kept[k] = images[i] /\ images[i].id # id

LEMMA WithoutListed ==
  ASSUME NEW images, NEW id, NEW f, NEW r, ListInv(images, f, r)
  PROVE  ListInv(Without(images, id), f, r) /\ KeptFrom(Without(images, id), images, id)
<1> DEFINE kept == Without(images, id)
<1>1. images \in Seq(ToSet(images))
  BY DEF ListInv
<1>2. /\ kept \in Seq(ToSet(images))
      /\ \E at \in [DOMAIN kept -> DOMAIN images] : Selects(at, kept, images, id)
  BY <1>1, WithoutKeeps, Zenon
<1> HIDE DEF kept
<1>3. PICK at \in [DOMAIN kept -> DOMAIN images] :
        \A k \in DOMAIN kept :
          /\ kept[k] = images[at[k]] /\ images[at[k]].id # id
          /\ \A l \in DOMAIN kept : k # l => at[k] # at[l]
  BY <1>2, Zenon DEF Selects
<1>4. kept \in Seq(ToSet(kept))
  <2>1. \A k \in 1..Len(kept) : kept[k] \in ToSet(kept)
    BY <1>2 DEF ToSet
  <2>2. Len(kept) \in Nat /\ kept = [k \in 1..Len(kept) |-> kept[k]]
    BY <1>2
  <2>3. kept \in [1..Len(kept) -> ToSet(kept)]
    BY <2>1, <2>2
  <2> QED
    BY <2>2, <2>3
<1>5. ASSUME NEW k \in DOMAIN kept PROVE Listed(kept[k], f, r)
  BY <1>3 DEF ListInv
<1>6. ASSUME NEW k \in DOMAIN kept, NEW l \in DOMAIN kept, k # l
      PROVE  /\ kept[k].id # kept[l].id /\ kept[k].dir # kept[l].dir
             /\ ~SameFiles(kept[k], kept[l])
  <2>1. at[k] # at[l] /\ at[k] \in DOMAIN images /\ at[l] \in DOMAIN images
    BY <1>3, <1>6
  <2>2. kept[k] = images[at[k]] /\ kept[l] = images[at[l]]
    BY <1>3
  <2> QED
    BY <2>1, <2>2 DEF ListInv
<1>7. ListInv(kept, f, r)
  BY <1>4, <1>5, <1>6 DEF ListInv
<1>8. KeptFrom(kept, images, id)
  BY <1>3 DEF KeptFrom
<1> QED
  BY <1>7, <1>8 DEF kept

\* A list with one image more.
LEMMA WithOneMore ==
  ASSUME NEW images, NEW image, NEW f, NEW r, ListInv(images, f, r), Listed(image, f, r),
         \A i \in DOMAIN images :
           /\ images[i].id # image.id /\ images[i].dir # image.dir
           /\ ~SameFiles(images[i], image)
  PROVE  /\ ListInv(Append(images, image), f, r)
         /\ \A k \in DOMAIN Append(images, image) :
              \/ Append(images, image)[k] = image
              \/ \E i \in DOMAIN images : Append(images, image)[k] = images[i]
<1> DEFINE S == ToSet(images) \cup {image}
           N == Len(images)
           longer == Append(images, image)
<1>1. images \in Seq(S) /\ image \in S
  <2>1. images \in Seq(ToSet(images))
    BY DEF ListInv
  <2> QED
    BY <2>1, SeqMonotonic
<1>2. /\ N \in Nat /\ DOMAIN images = 1..N
      /\ longer \in Seq(S) /\ Len(longer) = N + 1
      /\ \A k \in 1..N : longer[k] = images[k]
      /\ longer[N + 1] = image
  BY <1>1, AppendProperties
<1> HIDE DEF S, N, longer
<1>3. DOMAIN longer = 1..(N + 1)
  BY <1>2
<1>4. \A k \in DOMAIN longer : \/ k = N + 1 /\ longer[k] = image
                               \/ k \in DOMAIN images /\ longer[k] = images[k]
  <2> TAKE k \in DOMAIN longer
  <2>1. k = N + 1 \/ k \in 1..N
    BY <1>2, <1>3
  <2> QED
    BY <1>2, <2>1
<1>5. longer \in Seq(ToSet(longer))
  <2>1. \A k \in 1..(N + 1) : longer[k] \in ToSet(longer)
    BY <1>3 DEF ToSet
  <2>2. longer = [k \in 1..(N + 1) |-> longer[k]]
    BY <1>2, <1>3
  <2>3. longer \in [1..(N + 1) -> ToSet(longer)]
    BY <2>1, <2>2
  <2> QED
    BY <1>2, <2>3
<1>6. \A k \in DOMAIN longer : Listed(longer[k], f, r)
  BY <1>4 DEF ListInv
<1>7. \A i \in DOMAIN images : ~SameFiles(image, images[i])
  BY DEF SameFiles
<1>8. ASSUME NEW k \in DOMAIN longer, NEW l \in DOMAIN longer, k # l
      PROVE  /\ longer[k].id # longer[l].id /\ longer[k].dir # longer[l].dir
             /\ ~SameFiles(longer[k], longer[l])
  <2>1. CASE k \in DOMAIN images /\ l \in DOMAIN images
    <3>1. longer[k] = images[k] /\ longer[l] = images[l]
      BY <1>2, <2>1
    <3> QED
      BY <1>8, <2>1, <3>1 DEF ListInv
  <2>2. CASE k \in DOMAIN images /\ l = N + 1
    BY <1>2, <2>2
  <2>3. CASE k = N + 1 /\ l \in DOMAIN images
    BY <1>2, <1>7, <2>3
  <2> QED
    BY <1>4, <1>8, <2>1, <2>2, <2>3
<1>9. ListInv(longer, f, r)
  BY <1>5, <1>6, <1>8 DEF ListInv
<1>10. \A k \in DOMAIN longer :
         longer[k] = image \/ \E i \in DOMAIN images : longer[k] = images[i]
  BY <1>4
<1> QED
  BY <1>9, <1>10 DEF longer

\* A list whose images keep what they are known by.
LEMMA ListChanged ==
  ASSUME NEW images, NEW new, NEW f, NEW r, ListInv(images, f, r),
         new = [i \in DOMAIN images |-> new[i]],
         \A i \in DOMAIN images :
           /\ Listed(new[i], f, r)
           /\ new[i].id = images[i].id /\ new[i].dir = images[i].dir
           /\ new[i].names = images[i].names /\ new[i].format = images[i].format
           /\ new[i].hash = images[i].hash
  PROVE  ListInv(new, f, r) /\ Dirs(new) = Dirs(images) /\ DOMAIN new = DOMAIN images
<1>1. DOMAIN new = DOMAIN images
  OBVIOUS
<1>2. new \in Seq(ToSet(new))
  <2>1. Len(images) \in Nat /\ DOMAIN images = 1..Len(images)
    BY DEF ListInv
  <2>2. \A i \in DOMAIN images : new[i] \in ToSet(new)
    BY <1>1 DEF ToSet
  <2>3. new \in [1..Len(images) -> ToSet(new)]
    BY <2>1, <2>2
  <2> QED
    BY <2>1, <2>3
<1>3. ASSUME NEW i \in DOMAIN new, NEW j \in DOMAIN new, i # j
      PROVE  /\ new[i].id # new[j].id /\ new[i].dir # new[j].dir
             /\ ~SameFiles(new[i], new[j])
  <2>1. /\ images[i].id # images[j].id /\ images[i].dir # images[j].dir
        /\ ~SameFiles(images[i], images[j])
    BY <1>1, <1>3 DEF ListInv
  <2> QED
    BY <1>1, <2>1 DEF SameFiles
<1>4. \A i \in DOMAIN new : Listed(new[i], f, r)
  BY <1>1
<1>5. ListInv(new, f, r)
  BY <1>2, <1>3, <1>4 DEF ListInv
<1>6. Dirs(new) = Dirs(images)
  BY <1>1 DEF Dirs
<1> QED
  BY <1>1, <1>5, <1>6

------------------------------------------------------------------------------
(* The files of an image. *)

\* A function on the numbers up to another is a sequence.
LEMMA IsSequence ==
  ASSUME NEW S, NEW N \in Nat, NEW s \in [1..N -> S]
  PROVE  s \in Seq(S) /\ Len(s) = N
OBVIOUS

\* A file of the same length has lost nothing.
LEMMA SameLength ==
  ASSUME NEW file, NEW original \in Seq(Tokens), Shortened(file, original),
         Len(file) = Len(original)
  PROVE  file = original
<1>1. file \in Seq(Tokens) /\ \A k \in 1..Len(file) : file[k] = original[k]
  BY DEF Shortened
<1> QED
  BY <1>1

\* The names of a record are names of the folder, and each has its place.
LEMMA NamesOfFolder ==
  ASSUME NEW f, NEW image, Recorded(image, f)
  PROVE  /\ \A n \in ToSet(image.names) : n \in DOMAIN f /\ n.ext # <<>>
         /\ \A i \in DOMAIN image.names : image.names[i] \in ToSet(image.names)
         /\ 1 \in DOMAIN image.names
         /\ Len(image.names) \in Nat /\ DOMAIN image.names = 1..Len(image.names)
<1>1. image.names \in Seq({n \in DOMAIN f : n.ext # <<>>}) /\ Len(image.names) >= 1
  BY DEF Recorded
<1>2. Len(image.names) \in Nat /\ DOMAIN image.names = 1..Len(image.names)
  BY <1>1
<1>3. \A i \in DOMAIN image.names : image.names[i] \in {n \in DOMAIN f : n.ext # <<>>}
  BY <1>1
<1> QED
  BY <1>1, <1>2, <1>3 DEF ToSet

\* Files that lost their ends, and have the hash of the image, are complete: the
\* hash is as long as all of them together.
LEMMA IntactFiles ==
  ASSUME NEW f, \A n \in DOMAIN f : f[n] \in Seq(Tokens),
         NEW image, Recorded(image, f),
         NEW directory, DirectoryInv(directory, f), ToSet(image.names) \subseteq DOMAIN directory,
         Concatenated(Content(directory, image.names)) = image.hash
  PROVE  /\ Content(directory, image.names) = Content(f, image.names)
         /\ \A n \in ToSet(image.names) : directory[n] = f[n]
<1> DEFINE N == Len(image.names)
           s == Content(directory, image.names)
           t == Content(f, image.names)
<1>1. /\ N \in Nat /\ DOMAIN image.names = 1..N
      /\ \A i \in 1..N : /\ image.names[i] \in ToSet(image.names)
                         /\ image.names[i] \in DOMAIN f /\ image.names[i].ext # <<>>
  BY NamesOfFolder
<1>2. s = [i \in 1..N |-> directory[image.names[i]]] /\ t = [i \in 1..N |-> f[image.names[i]]]
  BY <1>1 DEF Content
<1>3. \A i \in 1..N : Shortened(directory[image.names[i]], f[image.names[i]])
  BY <1>1 DEF DirectoryInv
<1>4. FlattenSeq(s) = FlattenSeq(t)
  BY DEF Recorded, Concatenated
<1> HIDE DEF N, s, t
<1>5. \A i \in 1..N : s[i] \in Seq(Tokens) /\ t[i] \in Seq(Tokens) /\ Shortened(s[i], t[i])
  BY <1>1, <1>2, <1>3 DEF Shortened
<1>6. s \in Seq(Seq(Tokens)) /\ t \in Seq(Seq(Tokens)) /\ Len(s) = N /\ Len(t) = N
  <2>1. s \in [1..N -> Seq(Tokens)] /\ t \in [1..N -> Seq(Tokens)]
    BY <1>2, <1>5
  <2>2. N \in Nat
    BY <1>1
  <2> QED
    BY <2>1, <2>2, IsSequence
<1>7. \A i \in 1..N : Len(s[i]) <= Len(t[i])
  BY <1>5 DEF Shortened
<1>8. \A i \in 1..N : Len(s[i]) = Len(t[i])
  <2>1. Len(FlattenSeq(s)) = Len(FlattenSeq(t)) /\ Len(s) = Len(t)
    BY <1>4, <1>6
  <2>2. \A i \in 1..Len(s) : Len(s[i]) <= Len(t[i])
    BY <1>6, <1>7
  <2>3. \A i \in 1..Len(s) : Len(s[i]) = Len(t[i])
    BY <1>6, <2>1, <2>2, FlattenedLengths
  <2> QED
    BY <1>6, <2>3
<1>9. \A i \in 1..N : s[i] = t[i]
  BY <1>5, <1>8, SameLength
<1>10. s = t
  BY <1>2, <1>9
<1>11. ASSUME NEW n \in ToSet(image.names) PROVE directory[n] = f[n]
  <2>1. PICK i \in 1..N : image.names[i] = n
    BY <1>1 DEF ToSet
  <2>2. s[i] = directory[n] /\ t[i] = f[n]
    BY <1>2, <2>1
  <2> QED
    BY <1>9, <2>2
<1> QED
  BY <1>10, <1>11 DEF s, t

\* The directory of an intact image has the operator's files.
LEMMA IntactImage ==
  ASSUME TypesInv, FilesInv, NEW image, Recorded(image, folder), IsIntact(image)
  PROVE  /\ Managed(image) /\ Files(image) = Content(folder, image.names)
         /\ \A n \in ToSet(image.names) : objects[image.dir][n] = folder[n]
<1>1. /\ image.dir \in DOMAIN objects /\ ToSet(image.names) \subseteq DOMAIN objects[image.dir]
      /\ Concatenated(Content(objects[image.dir], image.names)) = image.hash
  BY DEF IsIntact, Managed, Files
<1>2. DirectoryInv(objects[image.dir], folder)
  BY <1>1 DEF FilesInv
<1>3. \A n \in DOMAIN folder : folder[n] \in Seq(Tokens)
  BY DEF TypesInv, FolderInit
<1>4. /\ Content(objects[image.dir], image.names) = Content(folder, image.names)
      /\ \A n \in ToSet(image.names) : objects[image.dir][n] = folder[n]
  BY <1>1, <1>2, <1>3, IntactFiles
<1> QED
  BY <1>1, <1>4 DEF Managed, Files

------------------------------------------------------------------------------
(* The invariant holds initially, and survives what a call may do.         *)

\* A caller in no call.
LEMMA IdleCall ==
  ASSUME NEW lib, NEW o, NEW f, NEW r
  PROVE  CallInv(NoCall, lib, o, f, r) /\ Loose(NoCall) = {} /\ NoCall.step = "idle"
BY DEF NoCall, CallInv, Loose, Prepares

LEMMA InitInv ==
  ASSUME LibraryInit, FolderInit
  PROVE  LibraryInv
<1>1. op = [c \in Caller |-> NoCall] /\ \A c \in Caller : op[c] = NoCall
  BY DEF LibraryInit
<1>2. /\ library = <<>> /\ manifest = [torn |-> FALSE, images |-> <<>>]
      /\ objects = <<>> /\ running = TRUE
  BY DEF LibraryInit
<1>3. /\ manifest.images = <<>> /\ manifest.torn = FALSE
      /\ {"torn", "images"} \subseteq DOMAIN manifest
  BY <1>2
<1>4. TypesInv
  BY <1>1, <1>2, <1>3 DEF TypesInv
<1>5. ListsInv
  BY <1>2, <1>3, NoImages DEF ListsInv
<1>6. DOMAIN objects = {}
  BY <1>2
<1>7. OwnInv
  BY <1>1, <1>2, <1>3, <1>6, NoImages, IdleCall DEF OwnInv
<1>8. FilesInv
  BY <1>6 DEF FilesInv
<1>9. CallsInv
  <2>1. \A c \in Caller : op[c].step = "idle"
    BY <1>1, IdleCall
  <2>2. \A c \in Caller : CallInv(op[c], library, objects, folder, reverified)
    BY <1>1, IdleCall
  <2> QED
    BY <2>1, <2>2 DEF CallsInv
<1> QED
  BY <1>4, <1>5, <1>7, <1>8, <1>9 DEF LibraryInv

\* What a call relies on, over a step of another.
LEMMA CallCarried ==
  ASSUME NEW call, NEW lib, NEW o, NEW f, NEW r, NEW lib2, NEW o2, NEW q,
         CallInv(call, lib, o, f, r), r \subseteq q,
         call.step = "staged" => o2[call.image.dir] = o[call.image.dir],
         call.step = "writing" => Dirs(lib2) = Dirs(lib),
         Knows(call) => SameImage(call.image, lib2)
  PROVE  CallInv(call, lib2, o2, f, q)
<1>1. call.step = "staged" => Staged(call, o2, f)
  BY DEF CallInv, Staged
<1>2. call.step = "writing" => Writes(call, lib2, f, q)
  BY MoreReverified DEF CallInv, Writes
<1>3. Prepares(call) => Preparing(call, lib2, f, q)
  BY DEF CallInv, Preparing, IsPrepared
<1> QED
  BY <1>1, <1>2, <1>3 DEF CallInv

\* A step that only goes on with a call, and gives it no directory it did not have.
LEMMA CallChanges ==
  ASSUME LibraryInv, running, NEW c \in Caller, NEW call, Goes(c, call),
         UNCHANGED <<folder, library, manifest, objects, running>>,
         reverified \subseteq reverified', ListInv(library, folder, reverified'),
         CallInv(call, library, objects, folder, reverified'),
         Loose(call) \subseteq Loose(op[c]),
         call.step = "writing" =>
           \A d \in Caller \ {c} :
             op[d].step # "writing" /\ (Knows(op[d]) => SameImage(op[d].image, call.next)),
         Knows(call) =>
           \A d \in Caller \ {c} : op[d].step = "writing" => SameImage(call.image, op[d].next)
  PROVE  LibraryInv'
<1>1. /\ op' = [d \in Caller |-> op'[d]] /\ op'[c] = call
      /\ \A d \in Caller \ {c} : op'[d] = op[d]
  BY DEF Goes, LibraryInv, TypesInv
<1>2. TypesInv'
  BY <1>1 DEF LibraryInv, TypesInv, FolderInit
<1>3. ListsInv'
  <2>1. ListInv(manifest.images, folder, reverified')
    BY MoreReverified DEF LibraryInv, ListsInv
  <2> QED
    BY <2>1 DEF LibraryInv, ListsInv
<1>4. \A d \in Caller : Loose(op'[d]) \subseteq Loose(op[d])
  BY <1>1
<1>5. OwnInv'
  BY <1>4 DEF LibraryInv, OwnInv
<1>6. FilesInv'
  BY DEF LibraryInv, FilesInv
<1>7. CallsInv'
  <2>1. ASSUME NEW d \in Caller
        PROVE  CallInv(op'[d], library', objects', folder', reverified')
    <3>1. CASE d = c
      BY <1>1, <3>1
    <3>2. CASE d # c
      <4>1. CallInv(op[d], library, objects, folder, reverified)
        BY DEF LibraryInv, CallsInv
      <4>2. Knows(op[d]) => SameImage(op[d].image, library)
        BY <4>1 DEF CallInv, Preparing, Prepares, Knows
      <4>3. CallInv(op[d], library, objects, folder, reverified')
        BY <4>1, <4>2, CallCarried
      <4> QED
        BY <1>1, <3>2, <4>3
    <3> QED
      BY <3>1, <3>2
  <2>2. ASSUME NEW d \in Caller, NEW e \in Caller
        PROVE  /\ op'[d].step = "writing" /\ op'[e].step = "writing" => d = e
               /\ op'[d].step = "writing" /\ Knows(op'[e]) => SameImage(op'[e].image, op'[d].next)
    <3>1. /\ op[d].step = "writing" /\ op[e].step = "writing" => d = e
          /\ op[d].step = "writing" /\ Knows(op[e]) => SameImage(op[e].image, op[d].next)
      BY DEF LibraryInv, CallsInv
    <3>2. ~(call.step = "writing" /\ Knows(call))
      BY DEF Knows
    <3>3. CASE d = c /\ e = c
      BY <1>1, <3>2, <3>3
    <3>4. CASE d = c /\ e # c
      BY <1>1, <3>4
    <3>5. CASE d # c /\ e = c
      BY <1>1, <3>5
    <3>6. CASE d # c /\ e # c
      BY <1>1, <3>1, <3>6
    <3> QED
      BY <3>3, <3>4, <3>5, <3>6
  <2> QED
    BY <2>1, <2>2 DEF CallsInv
<1> QED
  BY <1>2, <1>3, <1>5, <1>6, <1>7 DEF LibraryInv

------------------------------------------------------------------------------
(* The preparations: nothing but the call changes.                         *)

\* A call that ends, or is refused.
LEMMA CallEnds ==
  ASSUME LibraryInv, running, NEW c \in Caller, Goes(c, NoCall),
         UNCHANGED <<folder, library, manifest, objects, running, reverified>>
  PROVE  LibraryInv'
<1>1. CallInv(NoCall, library, objects, folder, reverified') /\ Loose(NoCall) = {}
  BY IdleCall
<1>2. NoCall.step # "writing" /\ ~Knows(NoCall)
  BY IdleCall DEF Knows
<1>3. ListInv(library, folder, reverified')
  BY DEF LibraryInv, ListsInv
<1> QED
  BY <1>1, <1>2, <1>3, CallChanges

\* A preparation that goes on.
LEMMA PreparationGoesOn ==
  ASSUME LibraryInv, running, NEW c \in Caller, NEW call, Goes(c, call), Prepares(call),
         UNCHANGED <<folder, library, manifest, objects, running, reverified>>,
         Preparing(call, library, folder, reverified),
         Knows(call) =>
           \A d \in Caller \ {c} : op[d].step = "writing" => SameImage(call.image, op[d].next)
  PROVE  LibraryInv'
<1>1. call.step # "writing" /\ call.step # "staged" /\ call.step # "cleaning"
  BY DEF Prepares
<1>2. CallInv(call, library, objects, folder, reverified')
  BY <1>1 DEF CallInv, Prepares
<1>3. Loose(call) = {}
  BY <1>1 DEF Loose
<1>4. ListInv(library, folder, reverified')
  BY DEF LibraryInv, ListsInv
<1> QED
  BY <1>1, <1>2, <1>3, <1>4, CallChanges

\* What is known of a call that prepares.
LEMMA PreparingCall ==
  ASSUME LibraryInv, NEW c \in Caller, Prepares(op[c])
  PROVE  /\ Preparing(op[c], library, folder, reverified)
         /\ Knows(op[c]) =>
              \A d \in Caller : op[d].step = "writing" => SameImage(op[c].image, op[d].next)
BY DEF LibraryInv, CallsInv, CallInv

LEMMA CloneKeeps ==
  ASSUME LibraryInv, NEW c \in Caller, NEW id \in Id, NEW index, Clone(c, id, index)
  PROVE  LibraryInv'
<1> DEFINE image == ImageNamed(library, id)
           call == [step |-> "cloned", image |-> image, index |-> index]
<1>1. PICK i \in DOMAIN library : image = library[i] /\ library[i].id = id
  BY NamedImage DEF Clone
<1>2. ListInv(library, folder, reverified)
  BY DEF LibraryInv, ListsInv
<1>3. Recorded(image, folder) /\ HasId(image) /\ image.id = id
  BY <1>1, <1>2 DEF ListInv, Listed
<1>4. SameImage(image, library)
  BY <1>1, <1>2 DEF ListInv, SameImage
<1>5. Goes(c, call) /\ running
  BY DEF Clone, Begins, Does
<1> HIDE DEF image
<1>6. /\ call.step = "cloned" /\ call.image = image
      /\ {"step", "image", "index"} \subseteq DOMAIN call
  OBVIOUS
<1> HIDE DEF call
<1>7. Prepares(call) /\ Preparing(call, library, folder, reverified)
  BY <1>3, <1>4, <1>6 DEF Prepares, Preparing, Knows
<1>8. \A d \in Caller : op[d].step # "writing"
  BY DEF Clone, Locked
<1>9. UNCHANGED <<folder, library, manifest, objects, running, reverified>>
  BY DEF Clone
<1> QED
  BY <1>5, <1>7, <1>8, <1>9, PreparationGoesOn

LEMMA CheckFilesKeeps ==
  ASSUME LibraryInv, NEW c \in Caller, CheckFiles(c)
  PROVE  LibraryInv'
<1> DEFINE image == op[c].image
           index == op[c].index
           call == CASE image.format = Wim /\ WimIsReady(image, index) -> Prepared(image, index)
                     [] image.format = Iso /\ IsoIsReady(image) -> Prepared(image, index)
                     [] image.format = Gho /\ GhoIsReady(image) -> [op[c] EXCEPT !.step = "ready"]
                     [] OTHER -> NoCall
<1>1. /\ Goes(c, call) /\ running /\ op[c].step = "cloned"
      /\ UNCHANGED <<folder, library, manifest, objects, running, reverified>>
  BY DEF CheckFiles, Does
<1>2. Prepares(op[c]) /\ Knows(op[c])
  BY <1>1 DEF Prepares, Knows
<1>3. /\ Preparing(op[c], library, folder, reverified)
      /\ \A d \in Caller : op[d].step = "writing" => SameImage(image, op[d].next)
  BY <1>2, PreparingCall
<1>4. Gho # Wim /\ Gho # Iso /\ Wim # Iso
  BY DEF Gho, Wim, Iso
<1>5. \/ call = Prepared(image, index) /\ image.format \in {Wim, Iso} /\ IsIntact(image)
      \/ call = [op[c] EXCEPT !.step = "ready"] /\ image.format = Gho
      \/ call = NoCall
  BY <1>4 DEF WimIsReady, IsoIsReady
<1>6. CASE call = Prepared(image, index) /\ image.format \in {Wim, Iso} /\ IsIntact(image)
  <2> HIDE DEF call
  <2>1. Files(image) = Content(folder, image.names)
    BY <1>3, <1>6, IntactImage DEF LibraryInv, Preparing
  <2> HIDE DEF image, index
  <2>2. call.step = "prepared" /\ call.image = image /\ call.files = Files(image)
    BY <1>6 DEF Prepared
  <2>3. Recorded(image, folder) /\ HasId(image)
    BY <1>3 DEF Preparing, image
  <2>4. IsPrepared(call, folder, reverified)
    BY <1>4, <1>6, <2>1, <2>2 DEF IsPrepared
  <2>5. Prepares(call) /\ Preparing(call, library, folder, reverified) /\ ~Knows(call)
    BY <2>2, <2>3, <2>4 DEF Prepares, Preparing, Knows
  <2> QED
    BY <1>1, <2>5, PreparationGoesOn
<1>7. CASE call = [op[c] EXCEPT !.step = "ready"] /\ image.format = Gho
  <2> HIDE DEF call
  <2>1. {"step", "image", "index"} \subseteq DOMAIN op[c]
    BY <1>2, <1>3 DEF Preparing
  <2>2. /\ call.step = "ready" /\ call.image = image
        /\ {"step", "image", "index"} \subseteq DOMAIN call
    BY <1>7, <2>1
  <2> HIDE DEF image
  <2>3. Recorded(image, folder) /\ HasId(image) /\ SameImage(image, library)
    BY <1>2, <1>3 DEF Preparing, image
  <2>4. Prepares(call) /\ Preparing(call, library, folder, reverified)
    BY <1>7, <2>2, <2>3 DEF Prepares, Preparing, Knows
  <2>5. \A d \in Caller : op[d].step = "writing" => SameImage(call.image, op[d].next)
    BY <1>3, <2>2
  <2> QED
    BY <1>1, <2>4, <2>5, PreparationGoesOn
<1>8. CASE call = NoCall
  BY <1>1, <1>8, CallEnds
<1> HIDE DEF call
<1> QED
  BY <1>5, <1>6, <1>7, <1>8

\* The partition that is handed out is one of the record and one of the files; the
\* record is of the operator's files, unless they were damaged and verified again.
LEMMA SelectPartitionKeeps ==
  ASSUME LibraryInv, NEW c \in Caller, SelectPartition(c)
  PROVE  LibraryInv'
<1> DEFINE image == op[c].image
           index == op[c].index
           found == IF Managed(image) THEN NtfsPartitions(Files(image)) ELSE {}
           Selected == /\ image.id \in Ids(library) /\ found # {}
                       /\ found = ImageNamed(library, image.id).partitions
                       /\ \E p \in found : p.source = index
           call == IF Selected THEN Prepared(image, index) ELSE NoCall
<1>1. /\ Goes(c, call) /\ running /\ op[c].step = "ready"
      /\ UNCHANGED <<folder, library, manifest, objects, running, reverified>>
  BY DEF SelectPartition, Does
<1>2. Prepares(op[c]) /\ Knows(op[c])
  BY <1>1 DEF Prepares, Knows
<1>3. /\ Recorded(image, folder) /\ HasId(image) /\ SameImage(image, library)
      /\ image.format = Gho
  BY <1>1, <1>2, PreparingCall DEF Preparing
<1>4. CASE Selected
  <2>1. call = Prepared(image, index)
    BY <1>4
  <2>2. found = NtfsPartitions(Files(image))
    BY <1>4
  <2>3. PICK i \in DOMAIN library :
          ImageNamed(library, image.id) = library[i] /\ library[i].id = image.id
    BY <1>4, NamedImage
  <2>4. library[i].names = image.names /\ library[i].format = image.format
    BY <1>3, <2>3 DEF SameImage
  <2>5. image.id \notin reverified =>
          library[i].partitions = NtfsPartitions(Content(folder, image.names))
    BY <1>3, <2>3, <2>4 DEF LibraryInv, ListsInv, ListInv, Listed, PartitionsFound
  <2>6. PICK p \in found : p.source = index
    BY <1>4
  <2>7. image.id \notin reverified => p \in NtfsPartitions(Content(folder, image.names))
    BY <1>4, <2>3, <2>5, <2>6
  <2>8. p \in NtfsPartitions(Files(image))
    BY <2>2, <2>6
  <2> HIDE DEF Selected, found, call, image, index
  <2>9. /\ call.step = "prepared" /\ call.image = image
        /\ call.index = index /\ call.files = Files(image)
    BY <2>1 DEF Prepared
  <2>10. IsPrepared(call, folder, reverified)
    <3>1. CASE image.id \in reverified
      BY <1>3, <2>9, <3>1 DEF IsPrepared
    <3>2. CASE image.id \notin reverified
      <4>1. p \in NtfsPartitions(call.files) \cap NtfsPartitions(Content(folder, call.image.names))
        BY <2>7, <2>8, <2>9, <3>2
      <4>2. p.source = call.index
        BY <2>6, <2>9
      <4> QED
        BY <1>3, <2>9, <4>1, <4>2 DEF IsPrepared
    <3> QED
      BY <3>1, <3>2
  <2>11. Prepares(call) /\ Preparing(call, library, folder, reverified) /\ ~Knows(call)
    BY <1>3, <2>9, <2>10 DEF Prepares, Preparing, Knows
  <2> QED
    BY <1>1, <2>11, PreparationGoesOn
<1>5. CASE ~Selected
  <2>1. call = NoCall
    BY <1>5
  <2> QED
    BY <1>1, <2>1, CallEnds
<1> QED
  BY <1>4, <1>5

\* A range that is accepted is a range of the file.
LEMMA RangeIsInside ==
  ASSUME NEW range \in Requested, NEW total \in Nat, RangeAccepted(range, total)
  PROVE  LET bytes == RangeOf(range, total)
         IN  bytes[1] \in 0..bytes[2] /\ bytes[2] \in Nat
<1>1. range[1] \in Nat \cup {-1} /\ range[2] \in Nat \cup {-1}
  BY RequestedAssumption
<1>2. CASE range[1] = -1
  <2>1. range[2] \in Nat /\ range[2] > 0 /\ total > 0
    BY <1>1, <1>2 DEF RangeAccepted
  <2>2. RangeOf(range, total) = <<total - Minimum(range[2], total), total - 1>>
    BY <1>2 DEF RangeOf
  <2>3. Minimum(range[2], total) \in 1..total
    BY <2>1 DEF Minimum
  <2> QED
    BY <2>1, <2>2, <2>3
<1>3. CASE range[1] # -1
  <2>1. range[1] \in Nat /\ range[1] < total
        /\ (range[2] = -1 \/ (range[2] \in Nat /\ range[1] <= range[2]))
    BY <1>1, <1>3 DEF RangeAccepted
  <2>2. RangeOf(range, total) =
          <<range[1], IF range[2] = -1 THEN total - 1 ELSE Minimum(range[2], total - 1)>>
    BY <1>3 DEF RangeOf
  <2>3. CASE range[2] = -1
    BY <2>1, <2>2, <2>3
  <2>4. CASE range[2] # -1
    <3>1. Minimum(range[2], total - 1) \in range[1]..(total - 1)
      BY <2>1, <2>4 DEF Minimum
    <3> QED
      BY <2>1, <2>2, <2>4, <3>1
  <2> QED
    BY <2>3, <2>4
<1> QED
  BY <1>2, <1>3

\* A medium of the size it had has lost nothing.
LEMMA ServeMediaKeeps ==
  ASSUME LibraryInv, NEW c \in Caller, NEW range \in Requested, ServeMedia(c, range)
  PROVE  LibraryInv'
<1> DEFINE image == op[c].image
           total == Len(op[c].files[1])
           bytes == RangeOf(range, total)
           first == Files(image)[1]
           Serves == /\ RangeAccepted(range, total) /\ Managed(image)
                     /\ Len(first) = total
           part == SubSeq(first, bytes[1] + 1, bytes[2] + 1)
           call == IF Serves
                   THEN [step |-> "served", image |-> image, range |-> bytes, bytes |-> part]
                   ELSE NoCall
<1>1. /\ Goes(c, call) /\ running /\ op[c].step = "prepared" /\ image.format = Iso
      /\ UNCHANGED <<folder, library, manifest, objects, running, reverified>>
  BY DEF ServeMedia, Does
<1>2. Prepares(op[c])
  BY <1>1 DEF Prepares
<1>3. /\ Recorded(image, folder) /\ HasId(image) /\ IsPrepared(op[c], folder, reverified)
  BY <1>1, <1>2, PreparingCall DEF Preparing
<1>4. CASE Serves
  <2> DEFINE name == image.names[1]
             original == folder[name]
  <2>1. 1 \in DOMAIN image.names /\ name \in ToSet(image.names)
        /\ name \in DOMAIN folder /\ name.ext # <<>>
    BY <1>3, NamesOfFolder
  <2>2. original \in Seq(Tokens)
    BY <2>1 DEF LibraryInv, TypesInv, FolderInit
  <2>3. Iso # Gho
    BY DEF Iso, Gho
  <2>4. op[c].files = Content(folder, image.names)
    BY <1>1, <1>3, <2>3 DEF IsPrepared
  <2>5. op[c].files[1] = original
    BY <2>1, <2>4 DEF Content
  <2>6. first = objects[image.dir][name] /\ image.dir \in DOMAIN objects
        /\ name \in DOMAIN objects[image.dir]
    BY <1>4, <2>1 DEF Files, Content, Managed
  <2>7. Shortened(first, original)
    BY <2>1, <2>6 DEF LibraryInv, FilesInv, DirectoryInv
  <2>8. Len(first) = Len(original) /\ total = Len(original)
    BY <1>4, <2>5
  <2> HIDE DEF first, original
  <2>9. first = original
    BY <2>2, <2>7, <2>8, SameLength
  <2>10. total \in Nat
    BY <2>2, <2>8
  <2>11. bytes[1] \in 0..bytes[2] /\ bytes[2] \in Nat
    <3> HIDE DEF total
    <3> QED
      BY <1>4, <2>10, RangeIsInside
  <2>12. part = SubSeq(original, bytes[1] + 1, bytes[2] + 1)
    BY <2>9
  <2>13. Len(part) = bytes[2] - bytes[1] + 1
    <3> HIDE DEF bytes
    <3> QED
      BY <2>11
  <2>14. call = [step |-> "served", image |-> image, range |-> bytes, bytes |-> part]
    BY <1>4
  <2> HIDE DEF Serves, call, image, bytes, part
  <2>15. call.step = "served" /\ call.image = image /\ call.range = bytes /\ call.bytes = part
    BY <2>14
  <2>16. IsServed(call, folder)
    BY <2>11, <2>12, <2>13, <2>15 DEF IsServed, original
  <2>17. Prepares(call) /\ Preparing(call, library, folder, reverified) /\ ~Knows(call)
    BY <1>3, <2>15, <2>16 DEF Prepares, Preparing, Knows
  <2> QED
    BY <1>1, <2>17, PreparationGoesOn
<1>5. CASE ~Serves
  <2>1. call = NoCall
    BY <1>5
  <2> QED
    BY <1>1, <2>1, CallEnds
<1> QED
  BY <1>4, <1>5

LEMMA FinishKeeps ==
  ASSUME LibraryInv, NEW c \in Caller, Finish(c)
  PROVE  LibraryInv'
BY CallEnds DEF Finish

------------------------------------------------------------------------------
(* A call begins to write.                                                 *)

\* A list made of records of the library, each as it is known, is known to every
\* call that prepares.
LEMMA SameImagesListed ==
  ASSUME LibraryInv, NEW c \in Caller, Knows(op[c]), NEW images,
         \A k \in DOMAIN images : \E i \in DOMAIN library :
           /\ images[k].id = library[i].id /\ images[k].names = library[i].names
           /\ images[k].format = library[i].format
  PROVE  SameImage(op[c].image, images)
<1>1. SameImage(op[c].image, library)
  BY PreparingCall DEF Knows, Prepares, Preparing
<1> QED
  BY <1>1 DEF SameImage

\* The fields of a call that writes.
LEMMA WritingCall ==
  ASSUME NEW next, NEW made, NEW drop
  PROVE  LET call == Writing(next, made, drop)
         IN  /\ call.step = "writing" /\ call.next = next /\ call.made = made
             /\ call.drop = drop /\ Loose(call) = made /\ ~Knows(call) /\ ~Prepares(call)
BY DEF Writing, Loose, Knows, Prepares

\* Nobody else writes: the lock was free.
LEMMA BeginsToWrite ==
  ASSUME LibraryInv, running, NEW c \in Caller, ~Locked, NEW next, NEW made, NEW drop,
         Goes(c, Writing(next, made, drop)),
         UNCHANGED <<folder, library, manifest, objects, running>>,
         reverified \subseteq reverified', ListInv(library, folder, reverified'),
         Writes(Writing(next, made, drop), library, folder, reverified'),
         made \subseteq Loose(op[c]),
         \A d \in Caller \ {c} : Knows(op[d]) => SameImage(op[d].image, next)
  PROVE  LibraryInv'
<1> DEFINE call == Writing(next, made, drop)
<1>1. /\ call.step = "writing" /\ call.next = next /\ Loose(call) = made
      /\ ~Knows(call) /\ ~Prepares(call)
  BY WritingCall
<1> HIDE DEF call
<1>2. CallInv(call, library, objects, folder, reverified')
  BY <1>1 DEF CallInv, call
<1>3. \A d \in Caller : op[d].step # "writing"
  BY DEF Locked
<1>4. Goes(c, call)
  BY DEF call
<1> QED
  BY <1>1, <1>2, <1>3, <1>4, CallChanges

LEMMA RemoveImageKeeps ==
  ASSUME LibraryInv, NEW c \in Caller, NEW id \in Id, RemoveImage(c, id)
  PROVE  LibraryInv'
<1> DEFINE next == Without(library, id)
           image == ImageNamed(library, id)
           drop == OwnDirectory(image, next) \cap DOMAIN objects
<1>1. /\ Goes(c, Writing(next, {}, drop)) /\ running /\ ~Locked /\ id \in Ids(library)
      /\ UNCHANGED <<folder, library, manifest, objects, running, reverified>>
  BY DEF RemoveImage, Begins, Does
<1>2. ListInv(library, folder, reverified)
  BY DEF LibraryInv, ListsInv
<1>3. /\ ListInv(next, folder, reverified)
      /\ \A k \in DOMAIN next : \E i \in DOMAIN library : next[k] = library[i]
  <2>1. ListInv(next, folder, reverified) /\ KeptFrom(next, library, id)
    BY <1>2, WithoutListed
  <2> HIDE DEF next
  <2> QED
    BY <2>1 DEF KeptFrom
<1>4. PICK i \in DOMAIN library : image = library[i]
  BY <1>1, NamedImage
<1>5. drop \subseteq Dirs(library) \ Dirs(next)
  BY <1>4 DEF OwnDirectory, Dirs
<1> HIDE DEF next, image, drop
<1>6. Dirs(next) \subseteq Dirs(library)
  BY <1>3 DEF Dirs
<1>7. Writes(Writing(next, {}, drop), library, folder, reverified)
  BY <1>3, <1>5, <1>6, WritingCall DEF Writes
<1>8. \A d \in Caller : Knows(op[d]) => SameImage(op[d].image, next)
  BY <1>3, SameImagesListed
<1>9. UNCHANGED <<folder, library, manifest, objects, running>> /\ reverified \subseteq reverified'
      /\ ListInv(library, folder, reverified')
      /\ Writes(Writing(next, {}, drop), library, folder, reverified')
  BY <1>1, <1>2, <1>7
<1> QED
  BY <1>1, <1>8, <1>9, BeginsToWrite

\* A record that is verified again is of the files as they are; what that leaves
\* out of an image whose files are damaged is on record.
LEMMA VerifyGhoKeeps ==
  ASSUME LibraryInv, NEW c \in Caller, NEW id \in Id, VerifyGho(c, id)
  PROVE  LibraryInv'
<1> DEFINE image == ImageNamed(library, id)
           found == IF Managed(image) THEN NtfsPartitions(Files(image)) ELSE {}
           Changed(i) == [image EXCEPT !.partitions = found, !.verified = found # {}]
           next == [i \in DOMAIN library |->
                      IF library[i].id = id
                      THEN [image EXCEPT !.partitions = found, !.verified = found # {}]
                      ELSE library[i]]
<1>1. /\ Goes(c, Writing(next, {}, {})) /\ running /\ ~Locked /\ id \in Ids(library)
      /\ image.format = Gho
      /\ UNCHANGED <<folder, library, manifest, objects, running>>
      /\ reverified' = IF IsIntact(image) THEN reverified ELSE reverified \cup {id}
  BY DEF VerifyGho, Begins, Does
<1>2. reverified \subseteq reverified'
  BY <1>1
<1>3. ListInv(library, folder, reverified) /\ ListInv(library, folder, reverified')
  BY <1>2, MoreReverified DEF LibraryInv, ListsInv
<1>4. PICK at \in DOMAIN library : image = library[at] /\ library[at].id = id
  BY <1>1, NamedImage
<1>5. Listed(image, folder, reverified')
  BY <1>3, <1>4 DEF ListInv
<1>6. id \notin reverified' => found = NtfsPartitions(Content(folder, image.names))
  <2> SUFFICES ASSUME id \notin reverified'
               PROVE  found = NtfsPartitions(Content(folder, image.names))
    OBVIOUS
  <2>1. IsIntact(image)
    BY <1>1
  <2>2. Recorded(image, folder)
    BY <1>5 DEF Listed
  <2>3. Managed(image) /\ Files(image) = Content(folder, image.names)
    BY <2>1, <2>2, IntactImage DEF LibraryInv
  <2> QED
    BY <2>3
<1> HIDE DEF image, found
<1> DEFINE new == [image EXCEPT !.partitions = found, !.verified = found # {}]
<1>7. /\ DOMAIN new = DOMAIN image /\ new.id = image.id /\ new.dir = image.dir
      /\ new.names = image.names /\ new.format = image.format /\ new.hash = image.hash
  OBVIOUS
<1>8. new.partitions = found
  BY <1>5 DEF Listed, Recorded, ImageFields
<1> HIDE DEF new
<1>9. Listed(new, folder, reverified')
  <2>1. Recorded(new, folder) /\ HasId(new)
    BY <1>5, <1>7 DEF Listed, Recorded, HasId
  <2>2. new.id \notin reverified' => PartitionsFound(new, folder)
    BY <1>4, <1>6, <1>7, <1>8 DEF PartitionsFound
  <2> QED
    BY <2>1, <2>2 DEF Listed
<1>10. next = [i \in DOMAIN library |-> IF library[i].id = id THEN new ELSE library[i]]
  BY DEF new
<1> HIDE DEF next
<1>11. ASSUME NEW i \in DOMAIN library
       PROVE  /\ Listed(next[i], folder, reverified')
              /\ next[i].id = library[i].id /\ next[i].dir = library[i].dir
              /\ next[i].names = library[i].names /\ next[i].format = library[i].format
              /\ next[i].hash = library[i].hash
  <2>1. CASE library[i].id = id
    <3>1. i = at /\ next[i] = new
      BY <1>3, <1>4, <1>10, <2>1 DEF ListInv
    <3> QED
      BY <1>4, <1>7, <1>9, <3>1
  <2>2. CASE library[i].id # id
    <3>1. next[i] = library[i]
      BY <1>10, <2>2
    <3> QED
      BY <1>3, <3>1 DEF ListInv
  <2> QED
    BY <2>1, <2>2
<1>12. next = [i \in DOMAIN library |-> next[i]]
  BY <1>10
<1>13. /\ ListInv(next, folder, reverified') /\ Dirs(next) = Dirs(library)
       /\ DOMAIN next = DOMAIN library
  BY <1>3, <1>11, <1>12, ListChanged
<1>14. Writes(Writing(next, {}, {}), library, folder, reverified')
  BY <1>13, WritingCall DEF Writes
<1>15. \A d \in Caller : Knows(op[d]) => SameImage(op[d].image, next)
  BY <1>11, <1>13, SameImagesListed
<1> QED
  BY <1>1, <1>2, <1>3, <1>14, <1>15, BeginsToWrite

\* A record that gets its id.
LEMMA WithItsId ==
  ASSUME NEW id \in Id, NEW image, NEW f, NEW r, Recorded(image, f), PartitionsFound(image, f)
  PROVE  LET new == WithId(id, image)
         IN  /\ Listed(new, f, r) /\ new.id = id /\ new.dir = image.dir
             /\ new.names = image.names /\ new.format = image.format /\ new.hash = image.hash
<1> DEFINE new == WithId(id, image)
<1>1. ImageFields \subseteq DOMAIN image
  BY DEF Recorded
<1>2. DOMAIN new = {"id"} \cup DOMAIN image /\ new.id = id
  BY DEF WithId
<1>3. \A x \in ImageFields : x # "id" /\ new[x] = image[x]
  BY <1>1 DEF WithId, ImageFields
<1> HIDE DEF new
<1>4. /\ new.dir = image.dir /\ new.names = image.names /\ new.format = image.format
      /\ new.hash = image.hash /\ new.partitions = image.partitions
  BY <1>3 DEF ImageFields
<1>5. Recorded(new, f)
  BY <1>1, <1>2, <1>4 DEF Recorded
<1>6. HasId(new)
  BY <1>2 DEF HasId
<1>7. PartitionsFound(new, f)
  BY <1>4 DEF PartitionsFound
<1>8. Listed(new, f, r)
  BY <1>5, <1>6, <1>7 DEF Listed
<1> QED
  BY <1>2, <1>4, <1>8 DEF new

\* An image with the files of a whole one is a duplicate of it: neither has lost
\* anything, so their files have the same lengths.
LEMMA TwinsAreDuplicates ==
  ASSUME LibraryInv, NEW c \in Caller, op[c].step = "staged",
         NEW i \in DOMAIN library, SameFiles(library[i], op[c].image)
  PROVE  i \in Duplicates(op[c].image)
<1> DEFINE image == op[c].image
<1> SUFFICES ASSUME IsWhole(library[i]) PROVE SameLengths(library[i], image)
  BY DEF Duplicates
<1>1. Recorded(library[i], folder)
  BY DEF LibraryInv, ListsInv, ListInv, Listed
<1>2. IsIntact(library[i])
  BY DEF IsWhole
<1>3. \A n \in ToSet(library[i].names) : objects[library[i].dir][n] = folder[n]
  BY <1>1, <1>2, IntactImage DEF LibraryInv
<1>4. \A n \in ToSet(image.names) : objects[image.dir][n] = folder[n]
  BY DEF LibraryInv, CallsInv, CallInv, Staged
<1>5. library[i].names = image.names
  BY DEF SameFiles
<1> QED
  BY <1>3, <1>4, <1>5 DEF SameLengths

\* What Commit writes.
LEMMA CommitWrites ==
  ASSUME LibraryInv, NEW c \in Caller, running, op[c].step = "staged", ~Locked,
         NEW id \in Id, NEW others,
         others = {i \in DOMAIN library : library[i].id # id},
         \A i \in others : ~SameFiles(library[i], op[c].image),
         \A i \in DOMAIN library \ others : SameFiles(library[i], op[c].image),
         others = DOMAIN library => id \notin KnownIds,
         Goes(c, Writing(Append(Without(library, id), WithId(id, op[c].image)),
                         {op[c].image.dir}, {})),
         UNCHANGED <<folder, library, manifest, objects, running, reverified>>
  PROVE  LibraryInv'
<1> DEFINE image == op[c].image
           new == WithId(id, image)
           kept == Without(library, id)
           next == Append(kept, new)
<1>1. Recorded(image, folder) /\ PartitionsFound(image, folder)
  BY DEF LibraryInv, CallsInv, CallInv, Staged
<1>2. /\ Listed(new, folder, reverified) /\ new.id = id /\ new.dir = image.dir
      /\ new.names = image.names /\ new.format = image.format /\ new.hash = image.hash
  BY <1>1, WithItsId
<1>3. ListInv(library, folder, reverified)
  BY DEF LibraryInv, ListsInv
<1>4. ListInv(kept, folder, reverified) /\ KeptFrom(kept, library, id)
  BY <1>3, WithoutListed
<1>5. Loose(op[c]) = {image.dir} /\ image.dir \notin Dirs(library)
  BY DEF Loose, LibraryInv, OwnInv
<1> HIDE DEF image, new, kept
<1>6. \A k \in DOMAIN kept : \E i \in others : kept[k] = library[i]
  BY <1>4 DEF KeptFrom
<1>7. ASSUME NEW k \in DOMAIN kept
      PROVE  /\ kept[k].id # new.id /\ kept[k].dir # new.dir /\ ~SameFiles(kept[k], new)
  <2>1. PICK i \in others : kept[k] = library[i]
    BY <1>6
  <2>2. library[i].id # id /\ library[i].dir \in Dirs(library)
    BY <2>1 DEF Dirs
  <2>3. ~SameFiles(library[i], image)
    BY DEF image
  <2>4. ~SameFiles(library[i], new)
    BY <1>2, <2>3 DEF SameFiles
  <2> QED
    BY <1>2, <1>5, <2>1, <2>2, <2>4
<1>8. /\ ListInv(next, folder, reverified)
      /\ \A k \in DOMAIN next : next[k] = new \/ \E i \in DOMAIN kept : next[k] = kept[i]
  BY <1>2, <1>4, <1>7, WithOneMore
<1> HIDE DEF next
<1>9. \A k \in DOMAIN next : next[k] = new \/ \E i \in DOMAIN library : next[k] = library[i]
  BY <1>6, <1>8
<1>10. Dirs(next) \subseteq Dirs(library) \cup {image.dir}
  BY <1>2, <1>9 DEF Dirs
<1>11. Writes(Writing(next, {image.dir}, {}), library, folder, reverified)
  BY <1>8, <1>10, WritingCall DEF Writes
<1>12. ASSUME NEW d \in Caller, Knows(op[d])
       PROVE  SameImage(op[d].image, next)
  <2>1. SameImage(op[d].image, library)
    BY <1>12, PreparingCall DEF Knows, Prepares, Preparing
  <2>2. new.id = op[d].image.id => new.names = op[d].image.names /\ new.format = op[d].image.format
    <3>1. CASE others = DOMAIN library
      <4>1. op[d].image.id \in KnownIds
        BY <1>12 DEF KnownIds, Knows
      <4> QED
        BY <1>2, <3>1, <4>1
    <3>2. CASE others # DOMAIN library
      <4>1. PICK i \in DOMAIN library : library[i].id = id /\ i \notin others
        BY <3>2
      <4>2. SameFiles(library[i], image)
        BY <4>1 DEF image
      <4> QED
        BY <1>2, <2>1, <4>1, <4>2 DEF SameImage, SameFiles
    <3> QED
      BY <3>1, <3>2
  <2>3. ASSUME NEW k \in DOMAIN next, next[k].id = op[d].image.id
        PROVE  next[k].names = op[d].image.names /\ next[k].format = op[d].image.format
    <3>1. CASE next[k] = new
      BY <2>2, <2>3, <3>1
    <3>2. CASE \E i \in DOMAIN library : next[k] = library[i]
      BY <2>1, <2>3, <3>2 DEF SameImage
    <3> QED
      BY <1>9, <3>1, <3>2
  <2> QED
    BY <2>3 DEF SameImage
<1>13. Goes(c, Writing(next, {image.dir}, {}))
  BY DEF next, kept, new, image
<1>14. ListInv(library, folder, reverified') /\ reverified \subseteq reverified'
       /\ Writes(Writing(next, {image.dir}, {}), library, folder, reverified')
  BY <1>3, <1>11
<1> QED
  BY <1>5, <1>12, <1>13, <1>14, BeginsToWrite

------------------------------------------------------------------------------
(* Directories that come and go.                                           *)

\* The calls of the others, over a step that changes directories that are not theirs
\* and ends the call of one, or begins to stage.
LEMMA OtherCalls ==
  ASSUME LibraryInv, NEW c \in Caller, NEW call,
         op' = [op EXCEPT ![c] = call], UNCHANGED <<folder, library, reverified>>,
         \A d \in Caller \ {c} : \A dir \in Loose(op[d]) : objects'[dir] = objects[dir],
         CallInv(call, library, objects', folder, reverified),
         call.step # "writing", ~Knows(call)
  PROVE  CallsInv'
<1>1. op'[c] = call /\ \A d \in Caller \ {c} : op'[d] = op[d]
  BY DEF LibraryInv, TypesInv
<1>2. ASSUME NEW d \in Caller
      PROVE  CallInv(op'[d], library', objects', folder', reverified')
  <2>1. CASE d = c
    BY <1>1, <2>1
  <2>2. CASE d # c
    <3>1. CallInv(op[d], library, objects, folder, reverified)
      BY DEF LibraryInv, CallsInv
    <3>2. Knows(op[d]) => SameImage(op[d].image, library)
      BY <3>1 DEF CallInv, Preparing, Prepares, Knows
    <3>3. op[d].step = "staged" => objects'[op[d].image.dir] = objects[op[d].image.dir]
      BY <2>2 DEF Loose
    <3>4. CallInv(op[d], library, objects', folder, reverified)
      BY <3>1, <3>2, <3>3, CallCarried
    <3> QED
      BY <1>1, <2>2, <3>4
  <2> QED
    BY <2>1, <2>2
<1>3. ASSUME NEW d \in Caller, NEW e \in Caller
      PROVE  /\ op'[d].step = "writing" /\ op'[e].step = "writing" => d = e
             /\ op'[d].step = "writing" /\ Knows(op'[e]) => SameImage(op'[e].image, op'[d].next)
  <2>1. /\ op[d].step = "writing" /\ op[e].step = "writing" => d = e
        /\ op[d].step = "writing" /\ Knows(op[e]) => SameImage(op[e].image, op[d].next)
    BY DEF LibraryInv, CallsInv
  <2>2. CASE d = c \/ e = c
    BY <1>1, <2>2
  <2>3. CASE d # c /\ e # c
    BY <1>1, <2>1, <2>3
  <2> QED
    BY <2>2, <2>3
<1> QED
  BY <1>2, <1>3 DEF CallsInv

LEMMA DirectoriesDropped ==
  ASSUME LibraryInv, running, NEW c \in Caller, Goes(c, NoCall),
         NEW dirs, dirs \subseteq Loose(op[c]), objects' = Dropped(dirs),
         UNCHANGED <<folder, library, running, reverified>>,
         manifest' = manifest \/ manifest' = [torn |-> TRUE, images |-> <<>>]
  PROVE  LibraryInv'
<1>1. /\ op' = [d \in Caller |-> op'[d]] /\ op'[c] = NoCall
      /\ \A d \in Caller \ {c} : op'[d] = op[d]
      /\ op' = [op EXCEPT ![c] = NoCall]
  BY DEF Goes, LibraryInv, TypesInv
<1>2. /\ DOMAIN objects' = DOMAIN objects \ dirs
      /\ \A d \in DOMAIN objects' : objects'[d] = objects[d]
  BY DEF Dropped
<1>3. /\ manifest'.torn \in BOOLEAN /\ {"torn", "images"} \subseteq DOMAIN manifest'
      /\ manifest'.images = manifest.images \/ manifest'.images = <<>>
      /\ manifest'.torn \/ manifest'.images = library
      /\ manifest'.torn => manifest'.images = <<>>
  <2>1. CASE manifest' = manifest
    BY <2>1 DEF LibraryInv, TypesInv, ListsInv
  <2>2. CASE manifest' = [torn |-> TRUE, images |-> <<>>]
    <3>1. /\ manifest'.torn = TRUE /\ manifest'.images = <<>>
          /\ {"torn", "images"} \subseteq DOMAIN manifest'
      BY <2>2
    <3> QED
      BY <3>1
  <2> QED
    BY <2>1, <2>2
<1>4. TypesInv'
  BY <1>1, <1>3 DEF LibraryInv, TypesInv, FolderInit
<1>5. ListsInv'
  <2>1. ListInv(manifest'.images, folder, reverified)
    BY <1>3, NoImages DEF LibraryInv, ListsInv
  <2> QED
    BY <1>3, <2>1 DEF LibraryInv, ListsInv
<1>6. \A d \in Caller : Loose(op'[d]) \subseteq Loose(op[d])
  BY <1>1, IdleCall
<1>7. OwnInv'
  <2>1. dirs \cap Dirs(library) = {} /\ dirs \cap Dirs(manifest.images) = {}
    BY DEF LibraryInv, OwnInv
  <2>2. Dirs(manifest'.images) \subseteq Dirs(manifest.images)
    BY <1>3, NoImages
  <2>3. Dirs(library') \subseteq DOMAIN objects' /\ Dirs(manifest'.images) \subseteq DOMAIN objects'
    BY <1>2, <2>1, <2>2 DEF LibraryInv, OwnInv
  <2>4. ASSUME NEW d \in Caller
        PROVE  /\ Loose(op'[d]) \subseteq DOMAIN objects'
               /\ Loose(op'[d]) \cap Dirs(library') = {}
               /\ Loose(op'[d]) \cap Dirs(manifest'.images) = {}
    <3>1. CASE d = c
      BY <1>1, <3>1, IdleCall
    <3>2. CASE d # c
      <4>1. Loose(op[d]) \cap Loose(op[c]) = {} /\ Loose(op[d]) \subseteq DOMAIN objects
            /\ Loose(op[d]) \cap Dirs(library) = {}
            /\ Loose(op[d]) \cap Dirs(manifest.images) = {}
        BY <3>2 DEF LibraryInv, OwnInv
      <4>2. Loose(op[d]) \subseteq DOMAIN objects'
        BY <1>2, <4>1
      <4> QED
        BY <1>6, <2>2, <4>1, <4>2
    <3> QED
      BY <3>1, <3>2
  <2>5. \A d, e \in Caller : d # e => Loose(op'[d]) \cap Loose(op'[e]) = {}
    BY <1>6 DEF LibraryInv, OwnInv
  <2>6. DOMAIN objects' \subseteq Dir
    BY <1>2 DEF LibraryInv, OwnInv
  <2> QED
    BY <2>3, <2>4, <2>5, <2>6 DEF OwnInv
<1>8. FilesInv'
  BY <1>2 DEF LibraryInv, FilesInv
<1>9. CallsInv'
  <2>1. ASSUME NEW d \in Caller \ {c}, NEW dir \in Loose(op[d])
        PROVE  objects'[dir] = objects[dir]
    <3>1. Loose(op[d]) \cap Loose(op[c]) = {} /\ Loose(op[d]) \subseteq DOMAIN objects
      BY DEF LibraryInv, OwnInv
    <3>2. dir \in DOMAIN objects'
      BY <1>2, <3>1
    <3> QED
      BY <1>2, <3>2
  <2>2. CallInv(NoCall, library, objects', folder, reverified)
    BY IdleCall
  <2>3. NoCall.step # "writing" /\ ~Knows(NoCall)
    BY IdleCall DEF Knows
  <2> QED
    BY <1>1, <2>1, <2>2, <2>3, OtherCalls
<1> QED
  BY <1>4, <1>5, <1>7, <1>8, <1>9 DEF LibraryInv

LEMMA CommitKeeps ==
  ASSUME LibraryInv, NEW c \in Caller, Commit(c)
  PROVE  LibraryInv'
<1> DEFINE image == op[c].image
           duplicates == Duplicates(image)
           first == library[CHOOSE i \in duplicates : \A j \in duplicates : i <= j]
<1>1. /\ running /\ op[c].step = "staged" /\ ~Locked
      /\ UNCHANGED <<folder, library, manifest, running, reverified>>
      /\ IF duplicates # {} /\ IsWhole(first)
         THEN objects' = Dropped({image.dir}) /\ Goes(c, NoCall)
         ELSE /\ \E id \in IF duplicates # {} THEN {first.id} ELSE Id \ KnownIds :
                   Goes(c, Writing(Append(Without(library, id), WithId(id, image)),
                                   {image.dir}, {}))
              /\ UNCHANGED objects
  BY DEF Commit, Does
<1>2. duplicates \subseteq DOMAIN library /\ \A i \in duplicates : SameFiles(library[i], image)
  BY DEF Duplicates
<1>3. \A i \in DOMAIN library : SameFiles(library[i], image) => i \in duplicates
  BY <1>1, TwinsAreDuplicates
<1>4. ListInv(library, folder, reverified)
  BY DEF LibraryInv, ListsInv
<1>5. CASE duplicates # {} /\ IsWhole(first)
  <2>1. {image.dir} \subseteq Loose(op[c])
    BY <1>1 DEF Loose
  <2> QED
    BY <1>1, <1>5, <2>1, DirectoriesDropped
<1>6. CASE duplicates # {} /\ ~IsWhole(first)
  <2>1. duplicates \subseteq Nat
    <3>1. DOMAIN library = 1..Len(library) /\ Len(library) \in Nat
      BY <1>4 DEF ListInv
    <3> QED
      BY <1>2, <3>1
  <2>2. \E i \in duplicates : \A j \in duplicates : i <= j
    BY <1>6, <2>1, LeastNumber
  <2>3. PICK i \in duplicates : first = library[i]
    BY <2>2
  <2> HIDE DEF first, duplicates
  <2> DEFINE id == library[i].id
             others == {j \in DOMAIN library : library[j].id # id}
  <2>4. id \in Id /\ i \in DOMAIN library /\ SameFiles(library[i], image)
    BY <1>2, <1>4, <2>3 DEF ListInv, Listed, HasId
  <2>5. \A j \in others : ~SameFiles(library[j], image)
    <3> SUFFICES ASSUME NEW j \in others, SameFiles(library[j], image) PROVE FALSE
      OBVIOUS
    <3>1. SameFiles(library[j], library[i]) /\ j # i
      BY <2>4 DEF SameFiles
    <3> QED
      BY <1>4, <2>4, <3>1 DEF ListInv
  <2>6. \A j \in DOMAIN library \ others : SameFiles(library[j], image)
    <3> SUFFICES ASSUME NEW j \in DOMAIN library \ others PROVE SameFiles(library[j], image)
      OBVIOUS
    <3>1. library[j].id = library[i].id
      OBVIOUS
    <3>2. j = i
      BY <1>4, <2>4, <3>1 DEF ListInv
    <3> QED
      BY <2>4, <3>2
  <2>7. others # DOMAIN library
    BY <2>4
  <2>8. Goes(c, Writing(Append(Without(library, id), WithId(id, image)), {image.dir}, {}))
    BY <1>1, <1>6, <2>3
  <2>9. UNCHANGED objects
    BY <1>1, <1>6
  <2> HIDE DEF id
  <2> QED
    BY <1>1, <2>4, <2>5, <2>6, <2>7, <2>8, <2>9, CommitWrites
<1>7. CASE duplicates = {}
  <2>1. PICK id \in Id \ KnownIds :
          Goes(c, Writing(Append(Without(library, id), WithId(id, image)), {image.dir}, {}))
    BY <1>1, <1>7
  <2>2. UNCHANGED objects
    BY <1>1, <1>7
  <2>3. \A i \in DOMAIN library : ~SameFiles(library[i], image)
    BY <1>3, <1>7
  <2> HIDE DEF first, duplicates
  <2> DEFINE others == {j \in DOMAIN library : library[j].id # id}
  <2>4. others = DOMAIN library
    BY <2>1 DEF KnownIds, Ids
  <2>5. \A i \in DOMAIN library \ others : SameFiles(library[i], image)
    BY <2>4
  <2>6. id \in Id /\ id \notin KnownIds
    BY <2>1
  <2> QED
    BY <1>1, <2>1, <2>2, <2>3, <2>4, <2>5, <2>6, CommitWrites
<1> HIDE DEF first, duplicates
<1> QED
  BY <1>5, <1>6, <1>7

LEMMA FailWriteKeeps ==
  ASSUME LibraryInv, NEW c \in Caller, FailWrite(c)
  PROVE  LibraryInv'
<1>1. op[c].made \subseteq Loose(op[c])
  BY DEF FailWrite, Does, Loose
<1> QED
  BY <1>1, DirectoriesDropped DEF FailWrite, Does

LEMMA CleanKeeps ==
  ASSUME LibraryInv, NEW c \in Caller, Clean(c)
  PROVE  LibraryInv'
<1>1. /\ running /\ Goes(c, NoCall) /\ op[c].step = "cleaning"
      /\ UNCHANGED <<folder, library, manifest, running, reverified>>
  BY DEF Clean, Does
<1>2. op[c].drop \subseteq Loose(op[c])
  BY <1>1 DEF Loose
<1>3. CASE objects' = Dropped(op[c].drop)
  BY <1>1, <1>2, <1>3, DirectoriesDropped
<1>4. CASE UNCHANGED objects
  BY <1>1, <1>4, CallEnds
<1> QED
  BY <1>3, <1>4 DEF Clean

LEMMA WriteManifestKeeps ==
  ASSUME LibraryInv, NEW c \in Caller, WriteManifest(c)
  PROVE  LibraryInv'
<1> DEFINE next == op[c].next
           drop == op[c].drop
           call == IF drop = {} THEN NoCall ELSE [step |-> "cleaning", drop |-> drop]
<1>1. /\ running /\ op[c].step = "writing" /\ Goes(c, call)
      /\ library' = next /\ manifest' = [torn |-> FALSE, images |-> next]
      /\ UNCHANGED <<folder, objects, running, reverified>>
  BY DEF WriteManifest, Does
<1>2. Writes(op[c], library, folder, reverified)
  BY <1>1 DEF LibraryInv, CallsInv, CallInv
<1>3. manifest'.torn = FALSE /\ manifest'.images = next
      /\ {"torn", "images"} \subseteq DOMAIN manifest'
  BY <1>1
<1>4. /\ op' = [d \in Caller |-> op'[d]] /\ op'[c] = call
      /\ \A d \in Caller \ {c} : op'[d] = op[d]
  BY <1>1 DEF Goes, LibraryInv, TypesInv
<1>5. Loose(call) \subseteq drop /\ (call = NoCall \/ call.step = "cleaning")
  BY IdleCall DEF Loose
<1>6. Loose(op[c]) = op[c].made
  BY <1>1 DEF Loose
<1> HIDE DEF call
<1>7. TypesInv'
  BY <1>1, <1>3, <1>4 DEF LibraryInv, TypesInv, FolderInit
<1>8. ListsInv'
  BY <1>1, <1>2, <1>3 DEF ListsInv, Writes
<1>9. OwnInv'
  <2>1. /\ Dirs(next) \subseteq Dirs(library) \cup op[c].made
        /\ drop \subseteq Dirs(library) \ Dirs(next)
    BY <1>2 DEF Writes
  <2>2. /\ Dirs(library) \subseteq DOMAIN objects /\ op[c].made \subseteq DOMAIN objects
    BY <1>6 DEF LibraryInv, OwnInv
  <2>3. Dirs(library') \subseteq DOMAIN objects' /\ Dirs(manifest'.images) \subseteq DOMAIN objects'
    BY <1>1, <1>3, <2>1, <2>2
  <2>4. ASSUME NEW d \in Caller, d # c
        PROVE  /\ Loose(op[d]) \subseteq DOMAIN objects
               /\ Loose(op[d]) \cap Dirs(next) = {} /\ Loose(op[d]) \cap drop = {}
    <3>1. /\ Loose(op[d]) \subseteq DOMAIN objects /\ Loose(op[d]) \cap Dirs(library) = {}
          /\ Loose(op[d]) \cap op[c].made = {}
      BY <1>6, <2>4 DEF LibraryInv, OwnInv
    <3> QED
      BY <2>1, <3>1
  <2>5. Loose(op'[c]) \subseteq drop /\ drop \subseteq DOMAIN objects /\ drop \cap Dirs(next) = {}
    BY <1>4, <1>5, <2>1, <2>2
  <2>6. ASSUME NEW d \in Caller
        PROVE  /\ Loose(op'[d]) \subseteq DOMAIN objects'
               /\ Loose(op'[d]) \cap Dirs(library') = {}
               /\ Loose(op'[d]) \cap Dirs(manifest'.images) = {}
    <3>1. CASE d = c
      BY <1>1, <1>3, <2>5, <3>1
    <3>2. CASE d # c
      BY <1>1, <1>3, <1>4, <2>4, <3>2
    <3> QED
      BY <3>1, <3>2
  <2>7. ASSUME NEW d \in Caller, NEW e \in Caller, d # e
        PROVE  Loose(op'[d]) \cap Loose(op'[e]) = {}
    <3>1. CASE d = c
      BY <1>4, <2>4, <2>5, <2>7, <3>1
    <3>2. CASE e = c
      BY <1>4, <2>4, <2>5, <2>7, <3>2
    <3>3. CASE d # c /\ e # c
      BY <1>4, <2>7, <3>3 DEF LibraryInv, OwnInv
    <3> QED
      BY <3>1, <3>2, <3>3
  <2>8. DOMAIN objects' \subseteq Dir
    BY <1>1 DEF LibraryInv, OwnInv
  <2> QED
    BY <2>3, <2>6, <2>7, <2>8 DEF OwnInv
<1>10. FilesInv'
  BY <1>1 DEF LibraryInv, FilesInv
<1>11. CallsInv'
  <2>1. \A d \in Caller : d # c => op'[d].step # "writing"
    BY <1>1, <1>4 DEF LibraryInv, CallsInv
  <2>2. op'[c].step # "writing"
    BY <1>4, <1>5, IdleCall
  <2>3. ASSUME NEW d \in Caller
        PROVE  CallInv(op'[d], library', objects', folder', reverified')
    <3>1. CASE d = c
      <4>1. CallInv(call, library', objects', folder', reverified')
        BY <1>5, IdleCall DEF CallInv, Prepares
      <4> QED
        BY <1>4, <3>1, <4>1
    <3>2. CASE d # c
      <4>1. /\ CallInv(op[d], library, objects, folder, reverified)
            /\ Knows(op[d]) => SameImage(op[d].image, next)
            /\ op[d].step # "writing"
        BY <1>1, <3>2 DEF LibraryInv, CallsInv
      <4>2. CallInv(op[d], next, objects, folder, reverified)
        BY <4>1, CallCarried
      <4> QED
        BY <1>1, <1>4, <3>2, <4>2
    <3> QED
      BY <3>1, <3>2
  <2> QED
    BY <2>1, <2>2, <2>3 DEF CallsInv
<1> QED
  BY <1>7, <1>8, <1>9, <1>10, <1>11 DEF LibraryInv

\* The record of a new copy, and the copy.
IsRecordOf(image, f, dir, names) ==
  /\ Recorded(image, f) /\ PartitionsFound(image, f)
  /\ image.dir = dir /\ image.names = names
  /\ image.assets = IF names[1].ext = Iso THEN BootAssets(Content(f, names)[1]) ELSE <<>>

LEMMA InspectedRecord ==
  ASSUME NEW dir \in Dir, NEW names, NEW f,
         names \in Seq({n \in DOMAIN f : n.ext # <<>>}), Len(names) >= 1,
         names[1].ext = Iso => Len(names) = 1
  PROVE  IsRecordOf(Inspected(f, dir, names), f, dir, names)
<1> DEFINE image == Inspected(f, dir, names)
           verified == names[1].ext \in {Wim, Iso} \/
             (IF names[1].ext = Gho THEN NtfsPartitions(Content(f, names)) ELSE {}) # {}
           ntfs == IF names[1].ext = Gho THEN NtfsPartitions(Content(f, names)) ELSE {}
           assets == IF names[1].ext = Iso THEN BootAssets(Content(f, names)[1]) ELSE <<>>
           hash == Concatenated(Content(f, names))
<1>1. image = [format |-> names[1].ext, dir |-> dir, names |-> names, hash |-> hash,
               partitions |-> ntfs, assets |-> assets, verified |-> verified]
  BY DEF Inspected
<1> HIDE DEF image, verified, ntfs, assets, hash
<1>2. /\ image.format = names[1].ext /\ image.dir = dir /\ image.names = names
      /\ image.hash = hash /\ image.partitions = ntfs /\ image.assets = assets
      /\ ImageFields \subseteq DOMAIN image
  BY <1>1 DEF ImageFields
<1>3. Recorded(image, f)
  BY <1>2 DEF Recorded, hash
<1>4. PartitionsFound(image, f)
  BY <1>2 DEF PartitionsFound, ntfs
<1> QED
  BY <1>2, <1>3, <1>4 DEF IsRecordOf, image, assets

\* The directory of a new copy has the operator's files, and beside them the assets
\* of the medium, whose names are never those of a file of the operator.
LEMMA StageKeeps ==
  ASSUME LibraryInv, NEW c \in Caller, NEW primary \in DOMAIN folder, Stage(c, primary)
  PROVE  LibraryInv'
<1> DEFINE names == <<primary>> \o Spans(primary, DOMAIN folder)
<1>1. /\ running /\ op[c].step = "idle"
      /\ UNCHANGED <<folder, library, manifest, running, reverified>>
      /\ primary.ext \in KnownFormats /\ SpansAccepted(primary, DOMAIN folder)
  BY DEF Stage, Begins, Does
<1>2. PICK dir \in Dir \ KnownDirs :
        LET image == Inspected(folder, dir, names)
            copies == [n \in ToSet(names) |-> folder[n]]
            assets == [n \in DOMAIN image.assets |-> image.assets[n]]
        IN  /\ objects' = Put(dir, [n \in DOMAIN copies \cup DOMAIN assets |->
                                      IF n \in DOMAIN copies THEN copies[n] ELSE assets[n]])
            /\ Goes(c, [step |-> "staged", image |-> image])
  BY DEF Stage
<1> DEFINE image == Inspected(folder, dir, names)
           files == [n \in ToSet(names) \cup DOMAIN image.assets |->
                       IF n \in ToSet(names) THEN folder[n] ELSE image.assets[n]]
           call == [step |-> "staged", image |-> image]
<1>3. objects' = Put(dir, files) /\ Goes(c, call)
  BY <1>2
<1>4. IsFiniteSet(DOMAIN folder) /\ \A n \in DOMAIN folder : folder[n] \in Seq(Tokens)
  BY DEF LibraryInv, TypesInv, FolderInit
<1>5. /\ names \in Seq({n \in DOMAIN folder : n.ext # <<>>}) /\ Len(names) >= 1
      /\ names[1].ext = Iso => Len(names) = 1
  BY <1>1, <1>4, ImageNames
<1> HIDE DEF names
<1>6. /\ Recorded(image, folder) /\ PartitionsFound(image, folder)
      /\ image.dir = dir /\ image.names = names
      /\ image.assets = IF names[1].ext = Iso THEN BootAssets(Content(folder, names)[1]) ELSE <<>>
  <2>1. dir \in Dir
    OBVIOUS
  <2>2. IsRecordOf(image, folder, dir, names)
    BY <1>5, <2>1, InspectedRecord
  <2> HIDE DEF image
  <2> QED
    BY <2>2 DEF IsRecordOf
<1> HIDE DEF image
<1>7. \A n \in ToSet(names) : n \in DOMAIN folder /\ n.ext # <<>>
  BY <1>6, NamesOfFolder
<1>8. \A n \in DOMAIN image.assets : n.ext = <<>>
  <2>1. InstallerKernel.ext = <<>> /\ InstallerInitrd.ext = <<>>
    BY DEF InstallerKernel, InstallerInitrd
  <2>2. CASE names[1].ext = Iso
    <3>1. DOMAIN image.assets = {InstallerKernel, InstallerInitrd}
      BY <1>6, <2>2 DEF BootAssets
    <3> QED
      BY <2>1, <3>1
  <2>3. CASE names[1].ext # Iso
    <3>1. image.assets = <<>> /\ DOMAIN <<>> = {}
      BY <1>6, <2>3
    <3> QED
      BY <3>1
  <2> QED
    BY <2>2, <2>3
<1>9. /\ DirectoryInv(files, folder)
      /\ \A n \in ToSet(names) : n \in DOMAIN files /\ files[n] = folder[n]
  <2>1. \A n \in ToSet(names) : n \in DOMAIN files /\ files[n] = folder[n]
    OBVIOUS
  <2>2. ASSUME NEW n \in DOMAIN files, n.ext # <<>>
        PROVE  n \in DOMAIN folder /\ Shortened(files[n], folder[n])
    <3>1. n \in ToSet(names)
      BY <1>8, <2>2
    <3>2. n \in DOMAIN folder /\ folder[n] \in Seq(Tokens) /\ files[n] = folder[n]
      BY <1>4, <1>7, <2>1, <3>1
    <3>3. Shortened(folder[n], folder[n])
      BY <3>2 DEF Shortened
    <3> QED
      BY <3>2, <3>3
  <2> QED
    BY <2>1, <2>2 DEF DirectoryInv
<1> HIDE DEF files
<1>10. call.step = "staged" /\ call.image = image
  OBVIOUS
<1> HIDE DEF call
<1>11. Loose(call) = {dir} /\ ~Knows(call) /\ ~Prepares(call)
  BY <1>6, <1>10 DEF Loose, Knows, Prepares
<1>12. /\ dir \in Dir /\ dir \notin DOMAIN objects /\ dir \notin Dirs(library)
       /\ dir \notin Dirs(manifest.images)
  <2>1. dir \notin DOMAIN objects /\ dir \in Dir
    BY <1>2 DEF KnownDirs
  <2> QED
    BY <2>1 DEF LibraryInv, OwnInv
<1>13. /\ DOMAIN objects' = {dir} \cup DOMAIN objects /\ objects'[dir] = files
       /\ \A d \in DOMAIN objects : objects'[d] = objects[d]
  BY <1>3, <1>12 DEF Put
<1>14. /\ op' = [d \in Caller |-> op'[d]] /\ op'[c] = call
       /\ \A d \in Caller \ {c} : op'[d] = op[d]
       /\ op' = [op EXCEPT ![c] = call]
  BY <1>3 DEF Goes, LibraryInv, TypesInv
<1>15. TypesInv'
  BY <1>1, <1>14 DEF LibraryInv, TypesInv, FolderInit
<1>16. ListsInv'
  BY <1>1 DEF LibraryInv, ListsInv
<1>17. OwnInv'
  <2>1. ASSUME NEW d \in Caller
        PROVE  /\ Loose(op'[d]) \subseteq DOMAIN objects'
               /\ Loose(op'[d]) \cap Dirs(library') = {}
               /\ Loose(op'[d]) \cap Dirs(manifest'.images) = {}
    <3>1. CASE d = c
      BY <1>1, <1>11, <1>12, <1>13, <1>14, <3>1
    <3>2. CASE d # c
      BY <1>1, <1>13, <1>14, <3>2 DEF LibraryInv, OwnInv
    <3> QED
      BY <3>1, <3>2
  <2>2. ASSUME NEW d \in Caller, NEW e \in Caller, d # e
        PROVE  Loose(op'[d]) \cap Loose(op'[e]) = {}
    <3>1. \A b \in Caller \ {c} : dir \notin Loose(op'[b])
      BY <1>12, <1>14 DEF LibraryInv, OwnInv
    <3>2. CASE d = c
      BY <1>11, <1>14, <2>2, <3>1, <3>2
    <3>3. CASE e = c
      BY <1>11, <1>14, <2>2, <3>1, <3>3
    <3>4. CASE d # c /\ e # c
      BY <1>14, <2>2, <3>4 DEF LibraryInv, OwnInv
    <3> QED
      BY <3>2, <3>3, <3>4
  <2>3. DOMAIN objects' \subseteq Dir
    BY <1>12, <1>13 DEF LibraryInv, OwnInv
  <2>4. Dirs(library') \subseteq DOMAIN objects' /\ Dirs(manifest'.images) \subseteq DOMAIN objects'
    BY <1>1, <1>13 DEF LibraryInv, OwnInv
  <2> QED
    BY <2>1, <2>2, <2>3, <2>4 DEF OwnInv
<1>18. FilesInv'
  BY <1>1, <1>9, <1>13 DEF LibraryInv, FilesInv
<1>19. CallsInv'
  <2>1. Staged(call, objects', folder)
    BY <1>6, <1>9, <1>10, <1>13 DEF Staged
  <2>2. CallInv(call, library, objects', folder, reverified)
    BY <1>10, <1>11, <2>1 DEF CallInv
  <2>3. \A d \in Caller \ {c} : \A at \in Loose(op[d]) : objects'[at] = objects[at]
    BY <1>13 DEF LibraryInv, OwnInv
  <2> QED
    BY <1>1, <1>10, <1>11, <1>14, <2>2, <2>3, OtherCalls
<1> QED
  BY <1>15, <1>16, <1>17, <1>18, <1>19 DEF LibraryInv

------------------------------------------------------------------------------
(* Faults and restarts.                                                    *)

\* A shortened file that loses its end is shortened.
LEMMA ShorterStill ==
  ASSUME NEW file, NEW original \in Seq(Tokens), Shortened(file, original), file # <<>>
  PROVE  Shortened(Front(file), original) /\ Len(Front(file)) < Len(original)
<1>1. /\ file \in Seq(Tokens) /\ Len(file) \in Nat /\ Len(file) <= Len(original)
      /\ Len(original) \in Nat
      /\ \A k \in 1..Len(file) : file[k] = original[k]
  BY DEF Shortened
<1>2. Len(file) # 0
  BY <1>1
<1> DEFINE n == Len(file) - 1
<1>3. /\ Front(file) \in Seq(Tokens) /\ Len(Front(file)) = n
      /\ \A k \in 1..n : Front(file)[k] = file[k]
  <2>1. n \in Nat /\ 1 \in Int /\ n \in Int
    BY <1>1, <1>2
  <2>2. \A k \in 1..n : k \in 1..Len(file) /\ file[k] \in Tokens
    BY <1>1
  <2>3. Front(file) = SubSeq(file, 1, n)
    BY DEF Front
  <2> HIDE DEF n
  <2>4. /\ SubSeq(file, 1, n) \in Seq(Tokens)
        /\ Len(SubSeq(file, 1, n)) = IF 1 <= n THEN n - 1 + 1 ELSE 0
        /\ \A k \in 1..(n - 1 + 1) : SubSeq(file, 1, n)[k] = file[1 + k - 1]
    BY <2>1, <2>2, SubSeqProperties
  <2>5. \A k \in 1..n : k \in 1..(n - 1 + 1) /\ 1 + k - 1 = k
    BY <2>1
  <2>6. (IF 1 <= n THEN n - 1 + 1 ELSE 0) = n
    BY <2>1
  <2> QED
    BY <2>3, <2>4, <2>5, <2>6
<1>4. n < Len(original) /\ n <= Len(original) /\ \A k \in 1..n : k \in 1..Len(file)
  BY <1>1, <1>2
<1> HIDE DEF n
<1> QED
  BY <1>1, <1>3, <1>4 DEF Shortened

LEMMA RotKeeps ==
  ASSUME LibraryInv, NEW dir \in DOMAIN objects, NEW name \in DOMAIN objects[dir],
         Rot(dir, name)
  PROVE  LibraryInv'
<1>1. /\ UNCHANGED <<folder, library, manifest, op, running, reverified>>
      /\ dir \in Dirs(manifest.images)
  BY DEF Rot, Dirs
<1>2. DirectoryInv(objects[dir], folder)
  BY DEF LibraryInv, FilesInv
<1>3. /\ DOMAIN objects' = DOMAIN objects
      /\ \A d \in DOMAIN objects : d # dir => objects'[d] = objects[d]
  BY DEF Rot
<1>4. DirectoryInv(objects'[dir], folder)
  <2>1. CASE objects[dir][name] # <<>> /\ objects' = [objects EXCEPT ![dir][name] = Front(@)]
    <3>1. /\ DOMAIN objects'[dir] = DOMAIN objects[dir]
          /\ objects'[dir][name] = Front(objects[dir][name])
          /\ \A n \in DOMAIN objects[dir] : n # name => objects'[dir][n] = objects[dir][n]
      BY <2>1
    <3>2. ASSUME NEW n \in DOMAIN objects[dir], n.ext # <<>>
          PROVE  n \in DOMAIN folder /\ Shortened(objects'[dir][n], folder[n])
      <4>1. n \in DOMAIN folder /\ Shortened(objects[dir][n], folder[n])
        BY <1>2, <3>2 DEF DirectoryInv
      <4>2. folder[n] \in Seq(Tokens)
        BY <4>1 DEF LibraryInv, TypesInv, FolderInit
      <4>3. CASE n = name
        BY <2>1, <3>1, <4>1, <4>2, <4>3, ShorterStill
      <4>4. CASE n # name
        BY <3>1, <4>1, <4>4
      <4> QED
        BY <4>3, <4>4
    <3> QED
      BY <3>1, <3>2 DEF DirectoryInv
  <2>2. CASE objects' = [objects EXCEPT ![dir] =
                           [n \in DOMAIN objects[dir] \ {name} |-> objects[dir][n]]]
    <3>1. objects'[dir] = [n \in DOMAIN objects[dir] \ {name} |-> objects[dir][n]]
      BY <2>2
    <3> QED
      BY <1>2, <3>1 DEF DirectoryInv
  <2> QED
    BY <2>1, <2>2 DEF Rot
<1>5. TypesInv'
  BY <1>1 DEF LibraryInv, TypesInv, FolderInit
<1>6. ListsInv'
  BY <1>1 DEF LibraryInv, ListsInv
<1>7. OwnInv'
  BY <1>1, <1>3 DEF LibraryInv, OwnInv
<1>8. FilesInv'
  BY <1>1, <1>3, <1>4 DEF LibraryInv, FilesInv
<1>9. CallsInv'
  <2>1. ASSUME NEW d \in Caller
        PROVE  CallInv(op'[d], library', objects', folder', reverified')
    <3>1. CallInv(op[d], library, objects, folder, reverified)
      BY DEF LibraryInv, CallsInv
    <3>2. Knows(op[d]) => SameImage(op[d].image, library)
      BY <3>1 DEF CallInv, Preparing, Prepares, Knows
    <3>3. op[d].step = "staged" => objects'[op[d].image.dir] = objects[op[d].image.dir]
      <4> SUFFICES ASSUME op[d].step = "staged"
                   PROVE  objects'[op[d].image.dir] = objects[op[d].image.dir]
        OBVIOUS
      <4>1. op[d].image.dir \in Loose(op[d])
        BY DEF Loose
      <4>2. op[d].image.dir # dir /\ op[d].image.dir \in DOMAIN objects
        BY <1>1, <4>1 DEF LibraryInv, OwnInv
      <4> QED
        BY <1>3, <4>2
    <3>4. CallInv(op[d], library, objects', folder, reverified)
      BY <3>1, <3>2, <3>3, CallCarried
    <3> QED
      BY <1>1, <3>4
  <2>2. /\ op' = op
        /\ \A d, e \in Caller :
             /\ op[d].step = "writing" /\ op[e].step = "writing" => d = e
             /\ op[d].step = "writing" /\ Knows(op[e]) => SameImage(op[e].image, op[d].next)
    BY <1>1 DEF LibraryInv, CallsInv
  <2> QED
    BY <2>1, <2>2 DEF CallsInv
<1> QED
  BY <1>5, <1>6, <1>7, <1>8, <1>9 DEF LibraryInv

LEMMA CrashKeeps ==
  ASSUME LibraryInv, Crash
  PROVE  LibraryInv'
<1>1. /\ running' = FALSE /\ library' = <<>> /\ op' = [c \in Caller |-> NoCall]
      /\ UNCHANGED <<folder, objects, reverified>>
  BY DEF Crash
<1>2. op' = [c \in Caller |-> op'[c]] /\ \A c \in Caller : op'[c] = NoCall
  BY <1>1
<1>3. /\ {"torn", "images"} \subseteq DOMAIN manifest' /\ manifest'.torn \in BOOLEAN
      /\ manifest'.torn => manifest'.images = <<>>
      /\ ListInv(manifest'.images, folder, reverified)
      /\ Dirs(manifest'.images) \subseteq DOMAIN objects
  <2>1. CASE manifest' = manifest
    BY <2>1 DEF LibraryInv, TypesInv, ListsInv, OwnInv
  <2>2. CASE manifest' = [torn |-> TRUE, images |-> <<>>]
    <3>1. /\ manifest'.torn = TRUE /\ manifest'.images = <<>>
          /\ {"torn", "images"} \subseteq DOMAIN manifest'
      BY <2>2
    <3> QED
      BY <3>1, NoImages
  <2>3. CASE \E c \in Caller : op[c].step = "writing"
               /\ manifest' = [torn |-> FALSE, images |-> op[c].next]
    <3>1. PICK c \in Caller : op[c].step = "writing"
            /\ manifest' = [torn |-> FALSE, images |-> op[c].next]
      BY <2>3
    <3>2. /\ manifest'.torn = FALSE /\ manifest'.images = op[c].next
          /\ {"torn", "images"} \subseteq DOMAIN manifest'
      BY <3>1
    <3>3. Writes(op[c], library, folder, reverified)
      BY <3>1 DEF LibraryInv, CallsInv, CallInv
    <3>4. Dirs(op[c].next) \subseteq Dirs(library) \cup Loose(op[c])
      BY <3>1, <3>3 DEF Writes, Loose
    <3>5. Dirs(op[c].next) \subseteq DOMAIN objects
      BY <3>4 DEF LibraryInv, OwnInv
    <3> QED
      BY <3>2, <3>3, <3>5 DEF Writes
  <2> QED
    BY <2>1, <2>2, <2>3 DEF Crash
<1>4. TypesInv'
  BY <1>1, <1>2, <1>3 DEF LibraryInv, TypesInv, FolderInit
<1>5. ListsInv'
  BY <1>1, <1>2, <1>3, NoImages DEF ListsInv
<1>6. OwnInv'
  <2>1. \A c \in Caller : Loose(op'[c]) = {}
    BY <1>2, IdleCall
  <2>2. Dirs(library') = {} /\ DOMAIN objects' \subseteq Dir
    BY <1>1, NoImages DEF LibraryInv, OwnInv
  <2> QED
    BY <1>1, <1>3, <2>1, <2>2 DEF OwnInv
<1>7. FilesInv'
  BY <1>1 DEF LibraryInv, FilesInv
<1>8. CallsInv'
  <2>1. \A c \in Caller : op'[c].step = "idle"
    BY <1>2, IdleCall
  <2>2. \A c \in Caller : CallInv(op'[c], library', objects', folder', reverified')
    BY <1>2, IdleCall
  <2> QED
    BY <2>1, <2>2 DEF CallsInv
<1> QED
  BY <1>4, <1>5, <1>6, <1>7, <1>8 DEF LibraryInv

LEMMA OpenKeeps ==
  ASSUME LibraryInv, NEW updated \in BOOLEAN, Open(updated)
  PROVE  LibraryInv'
<1> DEFINE old == manifest.images
           images == [i \in DOMAIN old |->
                        [old[i] EXCEPT !.verified = StillVerified(old[i], updated)]]
<1>1. /\ ~running /\ ~manifest.torn /\ running' = TRUE
      /\ library' = images /\ manifest' = [manifest EXCEPT !.images = images]
      /\ UNCHANGED <<folder, objects, op, reverified>>
  BY DEF Open
<1>2. ListInv(old, folder, reverified)
  BY DEF LibraryInv, ListsInv
<1>3. ASSUME NEW i \in DOMAIN old
      PROVE  /\ Listed(images[i], folder, reverified)
             /\ images[i].id = old[i].id /\ images[i].dir = old[i].dir
             /\ images[i].names = old[i].names /\ images[i].format = old[i].format
             /\ images[i].hash = old[i].hash
  <2> DEFINE image == old[i]
             still == StillVerified(image, updated)
             new == [image EXCEPT !.verified = still]
  <2>1. images[i] = new
    OBVIOUS
  <2>2. Listed(image, folder, reverified)
    BY <1>2 DEF ListInv
  <2> HIDE DEF still, image, images
  <2>3. /\ DOMAIN new = DOMAIN image /\ new.id = image.id /\ new.dir = image.dir
        /\ new.names = image.names /\ new.format = image.format /\ new.hash = image.hash
        /\ new.partitions = image.partitions
    OBVIOUS
  <2> HIDE DEF new
  <2>4. Recorded(new, folder) /\ HasId(new)
    BY <2>2, <2>3 DEF Listed, Recorded, HasId
  <2>5. new.id \notin reverified => PartitionsFound(new, folder)
    BY <2>2, <2>3 DEF Listed, PartitionsFound
  <2>6. Listed(new, folder, reverified)
    BY <2>4, <2>5 DEF Listed
  <2> QED
    BY <2>1, <2>3, <2>6 DEF image
<1>4. images = [i \in DOMAIN old |-> images[i]]
  OBVIOUS
<1> HIDE DEF images
<1>5. ListInv(images, folder, reverified) /\ Dirs(images) = Dirs(old)
  BY <1>2, <1>3, <1>4, ListChanged
<1>6. /\ manifest'.images = images /\ manifest'.torn = manifest.torn
      /\ {"torn", "images"} \subseteq DOMAIN manifest'
  BY <1>1 DEF LibraryInv, TypesInv
<1>7. \A c \in Caller : op'[c] = NoCall
  BY <1>1 DEF LibraryInv, ListsInv
<1>8. TypesInv'
  BY <1>1, <1>6 DEF LibraryInv, TypesInv, FolderInit
<1>9. ListsInv'
  BY <1>1, <1>5, <1>6 DEF ListsInv
<1>10. OwnInv'
  <2>1. \A c \in Caller : Loose(op'[c]) = {}
    BY <1>7, IdleCall
  <2>2. Dirs(old) \subseteq DOMAIN objects /\ DOMAIN objects \subseteq Dir
    BY DEF LibraryInv, OwnInv
  <2> QED
    BY <1>1, <1>5, <1>6, <2>1, <2>2 DEF OwnInv
<1>11. FilesInv'
  BY <1>1 DEF LibraryInv, FilesInv
<1>12. CallsInv'
  <2>1. \A c \in Caller : op'[c].step = "idle"
    BY <1>7, IdleCall
  <2>2. \A c \in Caller : CallInv(op'[c], library', objects', folder', reverified')
    BY <1>7, IdleCall
  <2> QED
    BY <2>1, <2>2 DEF CallsInv, Knows
<1> QED
  BY <1>8, <1>9, <1>10, <1>11, <1>12 DEF LibraryInv

LEMMA FailOpenKeeps ==
  ASSUME LibraryInv, NEW updated \in BOOLEAN, FailOpen(updated)
  PROVE  LibraryInv'
<1>1. ~running /\ UNCHANGED <<folder, library, objects, op, running, reverified>>
  BY DEF FailOpen
<1>2. /\ {"torn", "images"} \subseteq DOMAIN manifest' /\ manifest'.torn \in BOOLEAN
      /\ manifest'.torn => manifest'.images = <<>>
      /\ ListInv(manifest'.images, folder, reverified)
      /\ Dirs(manifest'.images) \subseteq Dirs(manifest.images)
  <2>1. CASE manifest' = manifest
    BY <2>1 DEF LibraryInv, TypesInv, ListsInv
  <2>2. CASE manifest' = [torn |-> TRUE, images |-> <<>>]
    <3>1. /\ manifest'.torn = TRUE /\ manifest'.images = <<>>
          /\ {"torn", "images"} \subseteq DOMAIN manifest'
      BY <2>2
    <3> QED
      BY <3>1, NoImages
  <2> QED
    BY <2>1, <2>2 DEF FailOpen
<1>3. TypesInv'
  BY <1>1, <1>2 DEF LibraryInv, TypesInv, FolderInit
<1>4. ListsInv'
  BY <1>1, <1>2 DEF LibraryInv, ListsInv
<1>5. OwnInv'
  BY <1>1, <1>2 DEF LibraryInv, OwnInv
<1>6. FilesInv' /\ CallsInv'
  BY <1>1 DEF LibraryInv, FilesInv, CallsInv
<1> QED
  BY <1>3, <1>4, <1>5, <1>6 DEF LibraryInv

LEMMA StepInv ==
  ASSUME LibraryInv, [LibraryNext]_libraryVars
  PROVE  LibraryInv'
<1>1. ASSUME NEW c \in Caller, CallStep(c) PROVE LibraryInv'
  BY <1>1, CommitKeeps, WriteManifestKeeps, FailWriteKeeps, CleanKeeps, CheckFilesKeeps,
     SelectPartitionKeeps, FinishKeeps, ServeMediaKeeps DEF CallStep
<1>2. ASSUME NEW c \in Caller, NEW name \in DOMAIN folder, Stage(c, name) PROVE LibraryInv'
  BY <1>2, StageKeeps
<1>3. ASSUME NEW c \in Caller, NEW id \in Id,
             RemoveImage(c, id) \/ VerifyGho(c, id) \/ \E index \in Index : Clone(c, id, index)
      PROVE  LibraryInv'
  BY <1>3, RemoveImageKeeps, VerifyGhoKeeps, CloneKeeps
<1>4. ASSUME NEW dir \in DOMAIN objects, NEW name \in DOMAIN objects[dir], Rot(dir, name)
      PROVE  LibraryInv'
  BY <1>4, RotKeeps
<1>5. CASE Crash
  BY <1>5, CrashKeeps
<1>6. ASSUME NEW updated \in BOOLEAN, Open(updated) PROVE LibraryInv'
  BY <1>6, OpenKeeps
<1>7. ASSUME NEW updated \in BOOLEAN, FailOpen(updated) PROVE LibraryInv'
  BY <1>7, FailOpenKeeps
<1>8. CASE UNCHANGED libraryVars
  BY <1>8 DEF libraryVars, LibraryInv, TypesInv, FolderInit, ListsInv, OwnInv, FilesInv, CallsInv
<1> QED
  BY <1>1, <1>2, <1>3, <1>4, <1>5, <1>6, <1>7, <1>8 DEF LibraryNext

------------------------------------------------------------------------------
(* Deployable images.  A second invariant, of every record the lists and    *)
(* the calls hold: the names of a Ghost image are those of all its spans,   *)
(* and if it is verified and its files are complete, they were decoded.     *)

OfCall(call) ==
  IF call.step = "writing" THEN ToSet(call.next)
  ELSE IF call.step = "staged" THEN {call.image} ELSE {}

RecordsHeld ==
  ToSet(library) \cup ToSet(manifest.images) \cup UNION {OfCall(op[c]) : c \in Caller}

\* The directory of an image has its files as the operator has them.
HasAllOf(image, o, f) ==
  /\ image.dir \in DOMAIN o
  /\ \A n \in ToSet(image.names) : n \in DOMAIN o[image.dir] /\ o[image.dir][n] = f[n]

Discovered(image, o, f) ==
  image.format = Gho =>
    LET primary == image.names[1]
    IN  /\ GhostSpansAccepted(primary, DOMAIN f)
        /\ image.names = <<primary>> \o GhostSpans(primary, DOMAIN f)
        /\ image.verified /\ HasAllOf(image, o, f) =>
             NtfsPartitions(Content(f, image.names)) # {}

DiscoveryInv == \A image \in RecordsHeld : Discovered(image, objects, folder)

\* A file that has lost something never gets it back.
NothingRecovers(o, o2, f) ==
  \A d \in DOMAIN o : \A n \in DOMAIN f :
    d \in DOMAIN o2 /\ n.ext # <<>> /\ n \in DOMAIN o2[d] /\ o2[d][n] = f[n] =>
      n \in DOMAIN o[d] /\ o[d][n] = f[n]

\* A record that is held is of files of the folder, in a directory that is there.
LEMMA HeldRecord ==
  ASSUME LibraryInv, NEW image \in RecordsHeld
  PROVE  Recorded(image, folder) /\ image.dir \in DOMAIN objects
<1>1. CASE image \in ToSet(library)
  BY <1>1 DEF ToSet, LibraryInv, ListsInv, ListInv, Listed, OwnInv, Dirs
<1>2. CASE image \in ToSet(manifest.images)
  BY <1>2 DEF ToSet, LibraryInv, ListsInv, ListInv, Listed, OwnInv, Dirs
<1>3. ASSUME NEW c \in Caller, image \in OfCall(op[c])
      PROVE  Recorded(image, folder) /\ image.dir \in DOMAIN objects
  <2>1. CASE op[c].step = "writing"
    <3>1. Writes(op[c], library, folder, reverified)
      BY <2>1 DEF LibraryInv, CallsInv, CallInv
    <3>2. Loose(op[c]) = op[c].made
      BY <2>1 DEF Loose
    <3>3. Dirs(library) \subseteq DOMAIN objects /\ op[c].made \subseteq DOMAIN objects
      BY <3>2 DEF LibraryInv, OwnInv
    <3>4. PICK i \in DOMAIN op[c].next : image = op[c].next[i]
      BY <1>3, <2>1 DEF OfCall, ToSet
    <3>5. image.dir \in Dirs(op[c].next)
      BY <3>4 DEF Dirs
    <3> QED
      BY <3>1, <3>3, <3>4, <3>5 DEF Writes, ListInv, Listed
  <2>2. CASE op[c].step = "staged"
    <3>1. image = op[c].image
      BY <1>3, <2>2 DEF OfCall
    <3>2. Staged(op[c], objects, folder)
      BY <2>2 DEF LibraryInv, CallsInv, CallInv
    <3>3. image.dir \in Loose(op[c])
      BY <2>2, <3>1 DEF Loose
    <3>4. image.dir \in DOMAIN objects
      BY <3>3 DEF LibraryInv, OwnInv
    <3> QED
      BY <3>1, <3>2, <3>4 DEF Staged
  <2> QED
    BY <1>3, <2>1, <2>2 DEF OfCall
<1> QED
  BY <1>1, <1>2, <1>3 DEF RecordsHeld

\* A record that was held, over a step of the files.
LEMMA StillDiscovered ==
  ASSUME LibraryInv, DiscoveryInv, NEW image \in RecordsHeld, NEW o,
         NothingRecovers(objects, o, folder)
  PROVE  Discovered(image, o, folder)
<1>1. Recorded(image, folder) /\ image.dir \in DOMAIN objects
  BY HeldRecord
<1>2. \A n \in ToSet(image.names) : n \in DOMAIN folder /\ n.ext # <<>>
  BY <1>1, NamesOfFolder
<1>3. HasAllOf(image, o, folder) => HasAllOf(image, objects, folder)
  BY <1>1, <1>2 DEF HasAllOf, NothingRecovers
<1>4. Discovered(image, objects, folder)
  BY DEF DiscoveryInv
<1> QED
  BY <1>3, <1>4 DEF Discovered

\* A step that brings in no record, but what one call takes up.
LEMMA RecordsOfStep ==
  ASSUME LibraryInv, DiscoveryInv, NEW c \in Caller, NEW call, Goes(c, call),
         UNCHANGED folder,
         ToSet(library') \subseteq RecordsHeld, ToSet(manifest'.images) \subseteq RecordsHeld,
         NothingRecovers(objects, objects', folder),
         \A image \in OfCall(call) :
           image \in RecordsHeld \/ Discovered(image, objects', folder)
  PROVE  DiscoveryInv'
<1>1. op'[c] = call /\ \A d \in Caller \ {c} : op'[d] = op[d]
  BY DEF Goes, LibraryInv, TypesInv
<1>2. ASSUME NEW image \in RecordsHeld' PROVE Discovered(image, objects', folder)
  <2>1. image \in RecordsHeld \/ image \in OfCall(call)
    <3>1. CASE image \in ToSet(library') \cup ToSet(manifest'.images)
      BY <3>1
    <3>2. ASSUME NEW d \in Caller, image \in OfCall(op'[d])
          PROVE  image \in RecordsHeld \/ image \in OfCall(call)
      <4>1. CASE d = c
        BY <1>1, <3>2, <4>1
      <4>2. CASE d # c
        <5>1. image \in OfCall(op[d])
          BY <1>1, <3>2, <4>2
        <5> QED
          BY <5>1 DEF RecordsHeld
      <4> QED
        BY <4>1, <4>2
    <3>3. \/ image \in ToSet(library') \cup ToSet(manifest'.images)
          \/ \E d \in Caller : image \in OfCall(op'[d])
      BY DEF RecordsHeld
    <3> QED
      BY <3>1, <3>2, <3>3
  <2>2. image \in RecordsHeld => Discovered(image, objects', folder)
    BY StillDiscovered
  <2> QED
    BY <2>1, <2>2
<1> QED
  BY <1>2 DEF DiscoveryInv

\* Nothing recovers when directories come and go.
LEMMA NoFileChanges ==
  ASSUME NEW o, NEW o2, NEW f, \A d \in DOMAIN o : d \in DOMAIN o2 => o2[d] = o[d]
  PROVE  NothingRecovers(o, o2, f)
BY DEF NothingRecovers

\* The lists are held, and what a call writes.
LEMMA ListsAreHeld ==
  /\ ToSet(library) \subseteq RecordsHeld /\ ToSet(manifest.images) \subseteq RecordsHeld
  /\ \A c \in Caller : OfCall(op[c]) \subseteq RecordsHeld
BY DEF RecordsHeld

\* A step of a call that brings in no record, and only removes directories.
LEMMA NoNewRecord ==
  ASSUME LibraryInv, DiscoveryInv, NEW c \in Caller, NEW call, Goes(c, call),
         UNCHANGED <<folder, library>>,
         manifest' = manifest \/ manifest' = [torn |-> TRUE, images |-> <<>>],
         objects' = objects \/ \E dirs : objects' = Dropped(dirs),
         OfCall(call) \subseteq RecordsHeld
  PROVE  DiscoveryInv'
<1>1. NothingRecovers(objects, objects', folder)
  BY NoFileChanges DEF Dropped
<1>2. ToSet(manifest'.images) \subseteq RecordsHeld
  <2>1. ToSet(<<>>) = {}
    BY DEF ToSet
  <2>2. manifest'.images = manifest.images \/ manifest'.images = <<>>
    OBVIOUS
  <2> QED
    BY <2>1, <2>2, ListsAreHeld
<1>3. ToSet(library') \subseteq RecordsHeld
  BY ListsAreHeld
<1> QED
  BY <1>1, <1>2, <1>3, RecordsOfStep

\* Calls that write and stage nothing hold no record.
LEMMA HoldsNone ==
  ASSUME NEW call, call.step # "writing", call.step # "staged"
  PROVE  OfCall(call) = {}
BY DEF OfCall

LEMMA ReadingDiscovery ==
  ASSUME LibraryInv, DiscoveryInv, NEW c \in Caller,
         \/ CheckFiles(c) \/ SelectPartition(c) \/ Finish(c) \/ Clean(c) \/ FailWrite(c)
         \/ (\E range \in Requested : ServeMedia(c, range))
         \/ (\E id \in Id, index \in Index : Clone(c, id, index))
  PROVE  DiscoveryInv'
<1>1. NoCall.step = "idle"
  BY DEF NoCall
<1>2. \E call : /\ Goes(c, call) /\ call.step # "writing" /\ call.step # "staged"
                /\ UNCHANGED <<folder, library>>
                /\ manifest' = manifest \/ manifest' = [torn |-> TRUE, images |-> <<>>]
                /\ objects' = objects \/ \E dirs : objects' = Dropped(dirs)
  <2>1. CASE CheckFiles(c)
    <3> DEFINE image == op[c].image
               index == op[c].index
               call == CASE image.format = Wim /\ WimIsReady(image, index) -> Prepared(image, index)
                         [] image.format = Iso /\ IsoIsReady(image) -> Prepared(image, index)
                         [] image.format = Gho /\ GhoIsReady(image) -> [op[c] EXCEPT !.step = "ready"]
                         [] OTHER -> NoCall
    <3>1. Goes(c, call) /\ UNCHANGED <<folder, library, manifest, objects>>
          /\ op[c].step = "cloned"
      BY <2>1 DEF CheckFiles, Does
    <3>2. \/ call = Prepared(image, index)
          \/ call = [op[c] EXCEPT !.step = "ready"]
          \/ call = NoCall
      OBVIOUS
    <3>3. Prepared(image, index).step = "prepared"
      BY DEF Prepared
    <3>4. "step" \in DOMAIN op[c]
      <4>1. Prepares(op[c]) /\ Knows(op[c])
        BY <3>1 DEF Prepares, Knows
      <4> QED
        BY <4>1, PreparingCall DEF Preparing
    <3>5. [op[c] EXCEPT !.step = "ready"].step = "ready"
      BY <3>4
    <3> HIDE DEF call
    <3> QED
      BY <1>1, <3>1, <3>2, <3>3, <3>5
  <2>2. CASE SelectPartition(c)
    <3>1. Prepared(op[c].image, op[c].index).step = "prepared"
      BY DEF Prepared
    <3>2. \E call \in {NoCall, Prepared(op[c].image, op[c].index)} : Goes(c, call)
      BY <2>2 DEF SelectPartition
    <3> QED
      BY <1>1, <2>2, <3>1, <3>2 DEF SelectPartition
  <2>3. CASE Finish(c) \/ FailWrite(c)
    BY <1>1, <2>3 DEF Finish, FailWrite
  <2>4. CASE Clean(c)
    BY <1>1, <2>4 DEF Clean
  <2>5. ASSUME NEW range \in Requested, ServeMedia(c, range)
        PROVE  \E call : /\ Goes(c, call) /\ call.step # "writing" /\ call.step # "staged"
                         /\ UNCHANGED <<folder, library, manifest, objects>>
    <3> DEFINE bytes == RangeOf(range, Len(op[c].files[1]))
               served == [step |-> "served", image |-> op[c].image, range |-> bytes,
                          bytes |-> SubSeq(Files(op[c].image)[1], bytes[1] + 1, bytes[2] + 1)]
    <3>1. served.step = "served"
      OBVIOUS
    <3>2. \E call \in {NoCall, served} : Goes(c, call)
      BY <2>5 DEF ServeMedia
    <3> HIDE DEF served
    <3> QED
      BY <1>1, <2>5, <3>1, <3>2 DEF ServeMedia
  <2>6. ASSUME NEW id \in Id, NEW index \in Index, Clone(c, id, index)
        PROVE  \E call : /\ Goes(c, call) /\ call.step # "writing" /\ call.step # "staged"
                         /\ UNCHANGED <<folder, library, manifest, objects>>
    BY <2>6 DEF Clone
  <2> QED
    BY <2>1, <2>2, <2>3, <2>4, <2>5, <2>6
<1>3. PICK call : /\ Goes(c, call) /\ call.step # "writing" /\ call.step # "staged"
                  /\ UNCHANGED <<folder, library>>
                  /\ manifest' = manifest \/ manifest' = [torn |-> TRUE, images |-> <<>>]
                  /\ objects' = objects \/ \E dirs : objects' = Dropped(dirs)
  BY <1>2
<1>4. OfCall(call) \subseteq RecordsHeld
  BY <1>3, HoldsNone
<1> QED
  BY <1>3, <1>4, NoNewRecord

\* What is kept of the list without an image was in the list.
LEMMA KeptAreHeld ==
  ASSUME LibraryInv, NEW id
  PROVE  ToSet(Without(library, id)) \subseteq ToSet(library)
<1> DEFINE kept == Without(library, id)
<1>1. ListInv(library, folder, reverified)
  BY DEF LibraryInv, ListsInv
<1>2. KeptFrom(kept, library, id)
  BY <1>1, WithoutListed
<1> HIDE DEF kept
<1>3. ToSet(kept) \subseteq ToSet(library)
  BY <1>2 DEF KeptFrom, ToSet
<1> QED
  BY <1>3 DEF kept

LEMMA RemoveImageDiscovery ==
  ASSUME LibraryInv, DiscoveryInv, NEW c \in Caller, NEW id \in Id, RemoveImage(c, id)
  PROVE  DiscoveryInv'
<1> DEFINE next == Without(library, id)
           drop == OwnDirectory(ImageNamed(library, id), next) \cap DOMAIN objects
           call == Writing(next, {}, drop)
<1>1. Goes(c, call) /\ UNCHANGED <<folder, library, manifest, objects>>
  BY DEF RemoveImage
<1>2. call.step = "writing" /\ call.next = next
  BY WritingCall
<1>3. OfCall(call) = ToSet(next)
  BY <1>2 DEF OfCall
<1>4. OfCall(call) \subseteq RecordsHeld
  BY <1>3, KeptAreHeld, ListsAreHeld
<1> HIDE DEF call
<1> QED
  BY <1>1, <1>4, NoNewRecord

LEMMA WriteManifestDiscovery ==
  ASSUME LibraryInv, DiscoveryInv, NEW c \in Caller, WriteManifest(c)
  PROVE  DiscoveryInv'
<1> DEFINE drop == op[c].drop
           call == IF drop = {} THEN NoCall ELSE [step |-> "cleaning", drop |-> drop]
<1>1. /\ op[c].step = "writing" /\ Goes(c, call)
      /\ library' = op[c].next /\ manifest' = [torn |-> FALSE, images |-> op[c].next]
      /\ UNCHANGED <<folder, objects>>
  BY DEF WriteManifest, Does
<1>2. call.step # "writing" /\ call.step # "staged"
  BY DEF NoCall
<1> HIDE DEF call
<1>3. OfCall(call) = {}
  BY <1>2, HoldsNone
<1>4. ToSet(op[c].next) \subseteq RecordsHeld
  BY <1>1, ListsAreHeld DEF OfCall
<1>5. ToSet(library') \subseteq RecordsHeld /\ ToSet(manifest'.images) \subseteq RecordsHeld
  BY <1>1, <1>4
<1>6. NothingRecovers(objects, objects', folder)
  BY <1>1, NoFileChanges
<1> QED
  BY <1>1, <1>3, <1>5, <1>6, RecordsOfStep

\* A verification decodes the files as they are: if nothing is missing, those of the
\* operator.
LEMMA VerifyGhoDiscovery ==
  ASSUME LibraryInv, DiscoveryInv, NEW c \in Caller, NEW id \in Id, VerifyGho(c, id)
  PROVE  DiscoveryInv'
<1> DEFINE image == ImageNamed(library, id)
           found == IF Managed(image) THEN NtfsPartitions(Files(image)) ELSE {}
           next == [i \in DOMAIN library |->
                      IF library[i].id = id
                      THEN [image EXCEPT !.partitions = found, !.verified = found # {}]
                      ELSE library[i]]
<1>1. /\ Goes(c, Writing(next, {}, {})) /\ id \in Ids(library)
      /\ UNCHANGED <<folder, library, manifest, objects>>
  BY DEF VerifyGho, Begins, Does
<1>2. PICK at \in DOMAIN library : image = library[at] /\ library[at].id = id
  BY <1>1, NamedImage
<1>3. image \in RecordsHeld
  <2> HIDE DEF image
  <2> QED
    BY <1>2, ListsAreHeld DEF ToSet
<1>4. Recorded(image, folder) /\ Discovered(image, objects, folder)
  BY <1>3, HeldRecord DEF DiscoveryInv
<1>5. HasAllOf(image, objects, folder) =>
        found = NtfsPartitions(Content(folder, image.names))
  <2> SUFFICES ASSUME HasAllOf(image, objects, folder)
               PROVE  found = NtfsPartitions(Content(folder, image.names))
    OBVIOUS
  <2>1. Managed(image)
    BY DEF Managed, HasAllOf
  <2>2. \A i \in DOMAIN image.names : image.names[i] \in ToSet(image.names)
    BY DEF ToSet
  <2>3. Files(image) = Content(folder, image.names)
    BY <2>2 DEF HasAllOf, Files, Content
  <2> QED
    BY <2>1, <2>3
<1> HIDE DEF image, found
<1> DEFINE new == [image EXCEPT !.partitions = found, !.verified = found # {}]
           call == Writing(next, {}, {})
<1>6. /\ new.dir = image.dir /\ new.names = image.names /\ new.format = image.format
      /\ new.verified = (found # {})
  BY <1>4 DEF Recorded, ImageFields
<1>7. next = [i \in DOMAIN library |-> IF library[i].id = id THEN new ELSE library[i]]
  OBVIOUS
<1> HIDE DEF new, next
<1>8. Discovered(new, objects, folder)
  BY <1>4, <1>5, <1>6 DEF Discovered, HasAllOf
<1>9. \A record \in ToSet(next) : record \in ToSet(library) \/ record = new
  BY <1>7 DEF ToSet
<1>10. OfCall(call) = ToSet(next) /\ Goes(c, call)
  BY <1>1, WritingCall DEF OfCall
<1> HIDE DEF call
<1>11. \A record \in OfCall(call) :
         record \in RecordsHeld \/ Discovered(record, objects', folder)
  BY <1>1, <1>8, <1>9, <1>10, ListsAreHeld
<1>12. NothingRecovers(objects, objects', folder)
  BY <1>1, NoFileChanges
<1>13. ToSet(library') \subseteq RecordsHeld /\ ToSet(manifest'.images) \subseteq RecordsHeld
  BY <1>1, ListsAreHeld
<1> QED
  BY <1>1, <1>10, <1>11, <1>12, <1>13, RecordsOfStep

LEMMA CommitDiscovery ==
  ASSUME LibraryInv, DiscoveryInv, NEW c \in Caller, Commit(c)
  PROVE  DiscoveryInv'
<1> DEFINE image == op[c].image
<1>1. op[c].step = "staged" /\ UNCHANGED <<folder, library, manifest>>
  BY DEF Commit, Does
<1>2. image \in RecordsHeld
  BY <1>1, ListsAreHeld DEF OfCall
<1>3. \/ Goes(c, NoCall) /\ objects' = Dropped({image.dir})
      \/ \E id : /\ Goes(c, Writing(Append(Without(library, id), WithId(id, image)),
                                    {image.dir}, {}))
                 /\ UNCHANGED objects
  BY DEF Commit
<1>4. CASE Goes(c, NoCall) /\ objects' = Dropped({image.dir})
  <2>1. OfCall(NoCall) = {}
    BY DEF OfCall, NoCall
  <2> QED
    BY <1>1, <1>4, <2>1, NoNewRecord
<1>5. ASSUME NEW id, UNCHANGED objects,
             Goes(c, Writing(Append(Without(library, id), WithId(id, image)), {image.dir}, {}))
      PROVE  DiscoveryInv'
  <2> DEFINE new == WithId(id, image)
             kept == Without(library, id)
             next == Append(kept, new)
             call == Writing(next, {image.dir}, {})
  <2>1. Recorded(image, folder) /\ Discovered(image, objects, folder)
    BY <1>2, HeldRecord DEF DiscoveryInv
  <2>2. /\ new.dir = image.dir /\ new.names = image.names /\ new.format = image.format
        /\ new.verified = image.verified
    <3>1. \A x \in ImageFields : x # "id" /\ x \in DOMAIN image
      BY <2>1 DEF Recorded, ImageFields
    <3>2. \A x \in ImageFields : new[x] = image[x]
      BY <3>1 DEF WithId
    <3> HIDE DEF new
    <3> QED
      BY <3>2 DEF ImageFields
  <2>3. Discovered(new, objects, folder)
    <3> HIDE DEF new
    <3> QED
      BY <2>1, <2>2 DEF Discovered, HasAllOf
  <2>4. ToSet(kept) \subseteq RecordsHeld /\ kept \in Seq(ToSet(kept))
    <3>1. ListInv(library, folder, reverified)
      BY DEF LibraryInv, ListsInv
    <3>2. ListInv(kept, folder, reverified)
      BY <3>1, WithoutListed
    <3> QED
      BY <3>2, KeptAreHeld, ListsAreHeld DEF ListInv
  <2> HIDE DEF kept, new
  <2>5. \A record \in ToSet(next) : record \in ToSet(kept) \/ record = new
    <3> DEFINE S == ToSet(kept) \cup {new}
    <3>1. kept \in Seq(S) /\ new \in S
      BY <2>4, SeqMonotonic
    <3> HIDE DEF S
    <3>2. next \in Seq(S)
      BY <3>1
    <3> HIDE DEF next
    <3>3. ToSet(next) \subseteq S
      BY <3>2 DEF ToSet
    <3> QED
      BY <3>3 DEF S
  <2> HIDE DEF next
  <2>6. OfCall(call) = ToSet(next)
    BY WritingCall DEF OfCall
  <2>7. Goes(c, call)
    BY <1>5 DEF next, kept, new
  <2> HIDE DEF call, image
  <2>8. \A record \in OfCall(call) :
          record \in RecordsHeld \/ Discovered(record, objects', folder)
    BY <1>5, <2>3, <2>4, <2>5, <2>6
  <2>9. NothingRecovers(objects, objects', folder)
    BY <1>5, NoFileChanges
  <2>10. ToSet(library') \subseteq RecordsHeld /\ ToSet(manifest'.images) \subseteq RecordsHeld
    BY <1>1, ListsAreHeld
  <2> QED
    BY <1>1, <2>7, <2>8, <2>9, <2>10, RecordsOfStep
<1> QED
  BY <1>3, <1>4, <1>5

\* An import takes the spans of the folder, and inspects a complete copy.
LEMMA StageDiscovery ==
  ASSUME LibraryInv, DiscoveryInv, NEW c \in Caller, NEW primary \in DOMAIN folder,
         Stage(c, primary)
  PROVE  DiscoveryInv'
<1> DEFINE names == <<primary>> \o Spans(primary, DOMAIN folder)
<1>1. /\ UNCHANGED <<folder, library, manifest>>
      /\ primary.ext \in KnownFormats /\ SpansAccepted(primary, DOMAIN folder)
      /\ \E dir \in Dir \ KnownDirs :
           /\ \E files : objects' = Put(dir, files)
           /\ Goes(c, [step |-> "staged", image |-> Inspected(folder, dir, names)])
  BY DEF Stage
<1>2. PICK dir \in Dir \ KnownDirs :
        /\ \E files : objects' = Put(dir, files)
        /\ Goes(c, [step |-> "staged", image |-> Inspected(folder, dir, names)])
  BY <1>1
<1> DEFINE image == Inspected(folder, dir, names)
           call == [step |-> "staged", image |-> image]
<1>3. dir \notin DOMAIN objects
  BY DEF KnownDirs
<1>4. NothingRecovers(objects, objects', folder)
  <2>1. \A d \in DOMAIN objects : objects'[d] = objects[d]
    BY <1>2, <1>3 DEF Put
  <2> QED
    BY <2>1, NoFileChanges
<1>5. names[1] = primary
  <2>1. IsFiniteSet(DOMAIN folder)
    BY DEF LibraryInv, TypesInv, FolderInit
  <2> QED
    BY <1>1, <2>1, ImageNames
<1>6. Gho # Wim /\ Gho # Swm /\ Gho # Iso
  BY DEF Gho, Wim, Swm, Iso
<1>7. /\ image.format = names[1].ext /\ image.names = names
      /\ image.verified <=>
           \/ names[1].ext \in {Wim, Iso}
           \/ (IF names[1].ext = Gho THEN NtfsPartitions(Content(folder, names)) ELSE {}) # {}
  <2> HIDE DEF names
  <2> QED
    BY DEF Inspected
<1>8. primary.ext = Gho =>
        GhostSpansAccepted(primary, DOMAIN folder)
          /\ names = <<primary>> \o GhostSpans(primary, DOMAIN folder)
  BY <1>1, <1>6 DEF SpansAccepted, Spans
<1> HIDE DEF names, image
<1>9. Discovered(image, objects', folder)
  BY <1>5, <1>6, <1>7, <1>8 DEF Discovered
<1>10. OfCall(call) = {image}
  BY DEF OfCall
<1>11. Goes(c, call)
  BY <1>2 DEF image
<1> HIDE DEF call
<1>12. ToSet(library') \subseteq RecordsHeld /\ ToSet(manifest'.images) \subseteq RecordsHeld
  BY <1>1, ListsAreHeld
<1> QED
  BY <1>1, <1>4, <1>9, <1>10, <1>11, <1>12, RecordsOfStep

\* What has lost its end is shorter than the operator's file.
LEMMA RotDiscovery ==
  ASSUME LibraryInv, DiscoveryInv, NEW dir \in DOMAIN objects, NEW name \in DOMAIN objects[dir],
         Rot(dir, name)
  PROVE  DiscoveryInv'
<1>1. UNCHANGED <<folder, library, manifest, op>>
  BY DEF Rot
<1>2. DirectoryInv(objects[dir], folder)
  BY DEF LibraryInv, FilesInv
<1>3. \A d \in DOMAIN objects : d # dir => objects'[d] = objects[d]
  BY DEF Rot
<1>4. ASSUME NEW n \in DOMAIN folder, n.ext # <<>>, n \in DOMAIN objects'[dir],
             objects'[dir][n] = folder[n]
      PROVE  n \in DOMAIN objects[dir] /\ objects[dir][n] = folder[n]
  <2>1. CASE objects[dir][name] # <<>> /\ objects' = [objects EXCEPT ![dir][name] = Front(@)]
    <3>1. /\ DOMAIN objects'[dir] = DOMAIN objects[dir]
          /\ objects'[dir][name] = Front(objects[dir][name])
          /\ n # name => objects'[dir][n] = objects[dir][n]
      BY <1>4, <2>1
    <3>2. CASE n = name
      <4>1. Shortened(objects[dir][name], folder[name])
        BY <1>2, <1>4, <3>1, <3>2 DEF DirectoryInv
      <4>2. folder[name] = Front(objects[dir][name])
        BY <1>4, <3>1, <3>2
      <4>3. folder[name] \in Seq(Tokens) /\ Len(folder[name]) \in Nat
        BY <1>4, <3>2 DEF LibraryInv, TypesInv, FolderInit
      <4>4. Len(Front(objects[dir][name])) < Len(folder[name])
        BY <2>1, <4>1, <4>3, ShorterStill
      <4> QED
        BY <4>2, <4>3, <4>4
    <3> QED
      BY <1>4, <3>1, <3>2
  <2>2. CASE objects' = [objects EXCEPT ![dir] =
                           [n2 \in DOMAIN objects[dir] \ {name} |-> objects[dir][n2]]]
    <3>1. objects'[dir] = [n2 \in DOMAIN objects[dir] \ {name} |-> objects[dir][n2]]
      BY <2>2
    <3> QED
      BY <1>4, <3>1
  <2> QED
    BY <2>1, <2>2 DEF Rot
<1>5. NothingRecovers(objects, objects', folder)
  BY <1>3, <1>4 DEF NothingRecovers
<1>6. RecordsHeld' = RecordsHeld
  BY <1>1 DEF RecordsHeld
<1>7. ASSUME NEW image \in RecordsHeld PROVE Discovered(image, objects', folder)
  BY <1>5, StillDiscovered
<1> QED
  BY <1>1, <1>6, <1>7 DEF DiscoveryInv

LEMMA CrashDiscovery ==
  ASSUME LibraryInv, DiscoveryInv, Crash
  PROVE  DiscoveryInv'
<1>1. library' = <<>> /\ op' = [c \in Caller |-> NoCall] /\ UNCHANGED <<folder, objects>>
  BY DEF Crash
<1>2. ToSet(library') = {} /\ \A c \in Caller : OfCall(op'[c]) = {}
  BY <1>1 DEF ToSet, OfCall, NoCall
<1>3. ToSet(manifest'.images) \subseteq RecordsHeld
  <2>1. CASE manifest' = manifest
    BY <2>1, ListsAreHeld
  <2>2. CASE manifest' = [torn |-> TRUE, images |-> <<>>]
    BY <2>2 DEF ToSet
  <2>3. ASSUME NEW c \in Caller, op[c].step = "writing",
               manifest' = [torn |-> FALSE, images |-> op[c].next]
        PROVE  ToSet(manifest'.images) \subseteq RecordsHeld
    <3>1. OfCall(op[c]) = ToSet(op[c].next)
      BY <2>3 DEF OfCall
    <3>2. manifest'.images = op[c].next
      BY <2>3
    <3> QED
      BY <3>1, <3>2, ListsAreHeld
  <2> QED
    BY <2>1, <2>2, <2>3 DEF Crash
<1>4. RecordsHeld' \subseteq RecordsHeld
  BY <1>2, <1>3 DEF RecordsHeld
<1> QED
  BY <1>1, <1>4 DEF DiscoveryInv

LEMMA OpenDiscovery ==
  ASSUME LibraryInv, DiscoveryInv, NEW updated \in BOOLEAN, Open(updated)
  PROVE  DiscoveryInv'
<1> DEFINE old == manifest.images
           images == [i \in DOMAIN old |->
                        [old[i] EXCEPT !.verified = StillVerified(old[i], updated)]]
<1>1. /\ ~running /\ library' = images /\ manifest' = [manifest EXCEPT !.images = images]
      /\ UNCHANGED <<folder, objects, op>>
  BY DEF Open
<1>2. manifest'.images = images
  BY <1>1 DEF LibraryInv, TypesInv
<1>3. ASSUME NEW i \in DOMAIN old PROVE Discovered(images[i], objects, folder)
  <2> DEFINE image == old[i]
             still == StillVerified(image, updated)
             new == [image EXCEPT !.verified = still]
  <2>1. images[i] = new /\ (still => image.verified)
    BY DEF StillVerified
  <2>2. image \in RecordsHeld
    BY ListsAreHeld DEF ToSet
  <2>3. Recorded(image, folder) /\ Discovered(image, objects, folder)
    BY <2>2, HeldRecord DEF DiscoveryInv
  <2> HIDE DEF still, image, images
  <2>4. /\ new.dir = image.dir /\ new.names = image.names /\ new.format = image.format
        /\ new.verified = still
    BY <2>3 DEF Recorded, ImageFields
  <2> HIDE DEF new
  <2>5. Discovered(new, objects, folder)
    BY <2>1, <2>3, <2>4 DEF Discovered, HasAllOf
  <2> QED
    BY <2>1, <2>5
<1>4. \A record \in ToSet(images) : Discovered(record, objects, folder)
  BY <1>3 DEF ToSet
<1> HIDE DEF images, old
<1>5. ASSUME NEW record \in RecordsHeld' PROVE Discovered(record, objects', folder')
  <2>1. record \in ToSet(images) \/ record \in RecordsHeld
    BY <1>1, <1>2 DEF RecordsHeld
  <2> QED
    BY <1>1, <1>4, <2>1 DEF DiscoveryInv
<1> QED
  BY <1>5 DEF DiscoveryInv

LEMMA InitDiscovery ==
  ASSUME LibraryInit
  PROVE  DiscoveryInv
<1>1. ToSet(library) = {} /\ ToSet(manifest.images) = {}
  BY DEF LibraryInit, ToSet
<1>2. \A c \in Caller : OfCall(op[c]) = {}
  BY DEF LibraryInit, OfCall, NoCall
<1>3. RecordsHeld = {}
  BY <1>1, <1>2 DEF RecordsHeld
<1> QED
  BY <1>3 DEF DiscoveryInv

LEMMA StepDiscovery ==
  ASSUME LibraryInv, DiscoveryInv, [LibraryNext]_libraryVars
  PROVE  DiscoveryInv'
<1>1. ASSUME NEW c \in Caller, CallStep(c) PROVE DiscoveryInv'
  BY <1>1, CommitDiscovery, WriteManifestDiscovery, ReadingDiscovery DEF CallStep
<1>2. ASSUME NEW c \in Caller, NEW name \in DOMAIN folder, Stage(c, name) PROVE DiscoveryInv'
  BY <1>2, StageDiscovery
<1>3. ASSUME NEW c \in Caller, NEW id \in Id,
             RemoveImage(c, id) \/ VerifyGho(c, id) \/ \E index \in Index : Clone(c, id, index)
      PROVE  DiscoveryInv'
  BY <1>3, RemoveImageDiscovery, VerifyGhoDiscovery, ReadingDiscovery
<1>4. ASSUME NEW dir \in DOMAIN objects, NEW name \in DOMAIN objects[dir], Rot(dir, name)
      PROVE  DiscoveryInv'
  BY <1>4, RotDiscovery
<1>5. CASE Crash
  BY <1>5, CrashDiscovery
<1>6. ASSUME NEW updated \in BOOLEAN, Open(updated) PROVE DiscoveryInv'
  BY <1>6, OpenDiscovery
<1>7. ASSUME NEW updated \in BOOLEAN, FailOpen(updated) PROVE DiscoveryInv'
  <2>1. UNCHANGED <<folder, library, objects, op>>
    BY <1>7 DEF FailOpen
  <2>2. ToSet(manifest'.images) \subseteq ToSet(manifest.images)
    <3>1. CASE manifest' = [torn |-> TRUE, images |-> <<>>]
      BY <3>1 DEF ToSet
    <3> QED
      BY <1>7, <3>1 DEF FailOpen
  <2>3. RecordsHeld' \subseteq RecordsHeld
    BY <2>1, <2>2 DEF RecordsHeld
  <2> QED
    BY <2>1, <2>3 DEF DiscoveryInv
<1>8. CASE UNCHANGED libraryVars
  <2>1. UNCHANGED <<library, manifest, op, objects, folder>>
    BY <1>8 DEF libraryVars
  <2>2. RecordsHeld' = RecordsHeld
    BY <2>1 DEF RecordsHeld
  <2> QED
    BY <2>1, <2>2 DEF DiscoveryInv
<1> QED
  BY <1>1, <1>2, <1>3, <1>4, <1>5, <1>6, <1>7, <1>8 DEF LibraryNext

------------------------------------------------------------------------------
(* The files of a Ghost image.                                             *)

LEMMA FlattenedIsSequence ==
  ASSUME NEW S, NEW s \in Seq(Seq(S))
  PROVE  FlattenSeq(s) \in Seq(S)
<1>1. CASE Len(s) = 0
  <2>1. s = <<>>
    BY <1>1
  <2>2. FlattenSeq(s) = s
    BY <1>1, <2>1, Zenon DEF FlattenSeq
  <2>3. <<>> \in Seq(S)
    OBVIOUS
  <2> QED
    BY <2>1, <2>2, <2>3, Zenon
<1>2. CASE Len(s) # 0
  <2>1. PICK f \in [1..Len(s) -> Seq(S)] :
          /\ FlattenSeq(s) = f[Len(s)] /\ f[1] = s[1]
          /\ \A i \in 2..Len(s) : f[i] = f[i - 1] \o s[i]
    BY <1>2, FlattenedInParts
  <2>2. Len(s) \in 1..Len(s)
    BY <1>2
  <2> QED
    BY <2>1, <2>2
<1> QED
  BY <1>1, <1>2

\* The stream begins with the header of the first file.
LEMMA StreamHeader ==
  ASSUME NEW files \in Seq(Seq(Tokens)), Len(files) >= 1,
         \A i \in 1..Len(files) : files[i] # <<>>
  PROVE  Stream(files) \in Seq(Tokens) /\ Stream(files)[1] = files[1][1]
<1>1. PICK m \in Nat : m = Len(files)
  OBVIOUS
<1>2. m >= 1 /\ \A i \in 1..m : files[i] \in Seq(Tokens) /\ files[i] # <<>>
  BY <1>1
<1> DEFINE r == [i \in 1..(m - 1) |-> Tail(files[i + 1])]
           h == files[1]
           R == FlattenSeq(r)
<1>3. r \in Seq(Seq(Tokens))
  <2>1. ASSUME NEW i \in 1..(m - 1) PROVE Tail(files[i + 1]) \in Seq(Tokens)
    <3>1. i + 1 \in 1..m
      BY <1>2
    <3>2. files[i + 1] \in Seq(Tokens) /\ files[i + 1] # <<>>
      BY <1>2, <3>1
    <3> QED
      BY <3>2, HeadTailProperties
  <2>2. r \in [1..(m - 1) -> Seq(Tokens)] /\ m - 1 \in Nat
    BY <1>2, <2>1
  <2> HIDE DEF r
  <2> QED
    BY <2>2, IsSequence
<1>4. Stream(files) = h \o R
  BY <1>1, Zenon DEF Stream
<1> HIDE DEF r
<1>5. R \in Seq(Tokens)
  BY <1>3, FlattenedIsSequence
<1>6. h \in Seq(Tokens) /\ Len(h) >= 1 /\ h[1] = files[1][1]
  <2>1. 1 \in 1..m
    BY <1>2
  <2>2. h \in Seq(Tokens) /\ h # <<>>
    BY <1>2, <2>1
  <2> HIDE DEF h
  <2>3. Len(h) >= 1
    BY <2>2
  <2> QED
    BY <2>2, <2>3 DEF h
<1> HIDE DEF h, R
<1>7. /\ h \o R \in Seq(Tokens)
      /\ \A i \in 1..(Len(h) + Len(R)) :
           (h \o R)[i] = IF i <= Len(h) THEN h[i] ELSE R[i - Len(h)]
  BY <1>5, <1>6, ConcatProperties
<1>8. PICK i \in 1..(Len(h) + Len(R)) : i = 1 /\ i <= Len(h)
  BY <1>5, <1>6
<1>9. (h \o R)[i] = h[i]
  BY <1>7, <1>8, Zenon
<1> QED
  BY <1>4, <1>6, <1>7, <1>8, <1>9, Zenon

\* The names of an image: its primary file, and then its spans.
LEMMA NamesInOrder ==
  ASSUME NEW names, IsFiniteSet(names), NEW primary \in names,
         GhostSpansAccepted(primary, names)
  PROVE  LET C   == Candidates(primary, names)
             all == <<primary>> \o GhostSpans(primary, names)
         IN  /\ Cardinality(C) \in Nat /\ all \in Seq(names) /\ Len(all) = Cardinality(C) + 1
             /\ all[1] = primary
             /\ \A k \in 1..Cardinality(C) : /\ all[k + 1] \in C
                                             /\ Sequence(primary, all[k + 1]) = k
<1> DEFINE C == Candidates(primary, names)
           N == Cardinality(C)
           g == GhostSpans(primary, names)
           h == <<primary>>
<1>1. N \in Nat /\ g \in [1..N -> C] /\ \A k \in 1..N : Sequence(primary, g[k]) = k
  BY GhostSpansInOrder
<1>2. C \subseteq names
  BY DEF Candidates
<1> HIDE DEF C, N, g
<1>3. h \in Seq(names) /\ Len(h) = 1 /\ h[1] = primary
  OBVIOUS
<1>4. g \in Seq(names) /\ Len(g) = N
  <2>1. g \in [1..N -> names]
    BY <1>1, <1>2
  <2> QED
    BY <1>1, <2>1, IsSequence
<1> HIDE DEF h
<1>5. /\ h \o g \in Seq(names) /\ Len(h \o g) = Len(h) + Len(g)
      /\ \A i \in 1..(Len(h) + Len(g)) :
           (h \o g)[i] = IF i <= Len(h) THEN h[i] ELSE g[i - Len(h)]
  BY <1>3, <1>4, ConcatProperties
<1> DEFINE all == h \o g
<1>6. /\ all \in Seq(names) /\ Len(all) = 1 + N
      /\ \A i \in 1..(1 + N) : all[i] = IF i <= 1 THEN h[i] ELSE g[i - 1]
  BY <1>3, <1>4, <1>5, Zenon
<1> HIDE DEF all
<1>7. all[1] = primary
  BY <1>1, <1>3, <1>6
<1>8. ASSUME NEW k \in 1..N PROVE all[k + 1] = g[k]
  <2>1. k + 1 \in 1..(1 + N) /\ ~(k + 1 <= 1) /\ k + 1 - 1 = k
    BY <1>1
  <2> QED
    BY <1>6, <2>1
<1>9. ASSUME NEW k \in 1..N PROVE all[k + 1] \in C /\ Sequence(primary, all[k + 1]) = k
  BY <1>1, <1>8
<1>10. Len(all) = N + 1
  BY <1>1, <1>6
<1> QED
  BY <1>1, <1>6, <1>7, <1>9, <1>10, Zenon DEF all, C, N, g, h

\* A name with a number of the five first letters of a primary file.
LEMMA NumberedName ==
  ASSUME NEW primary, primary.stem \in Seq(STRING), NEW name, name.stem \in Seq(STRING),
         IsGhs(primary, name)
  PROVE  \E P \in Nat, L \in Nat :
           /\ L = Len(name.stem) /\ P < L /\ Scheme(primary, name) = L - P
           /\ SameName(SubSeq(name.stem, 1, P), Prefix(primary.stem))
<1> DEFINE prefix == Prefix(primary.stem)
           stem == name.stem
<1>1. prefix \in Seq(STRING)
  BY DEF Prefix
<1>2. PICK P \in Nat, L \in Nat : P = Len(prefix) /\ L = Len(stem)
  BY <1>1
<1> DEFINE start == SubSeq(stem, 1, IF L < P THEN L ELSE P)
<1>3. SameName(start, prefix)
  BY <1>2 DEF IsGhs, HasPrefix
<1>4. start \in Seq(STRING) /\ Len(start) = IF L < P THEN L ELSE P
  BY <1>2
<1> HIDE DEF start, prefix, stem
<1>5. DOMAIN start = DOMAIN prefix
  <2>1. DOMAIN Uppercase(start) = DOMAIN start /\ DOMAIN Uppercase(prefix) = DOMAIN prefix
    BY DEF Uppercase
  <2> QED
    BY <1>3, <2>1 DEF SameName
<1>6. Len(start) = P
  BY <1>1, <1>2, <1>4, <1>5
<1>7. P <= L
  BY <1>4, <1>6
<1>8. start = SubSeq(stem, 1, P)
  BY <1>7 DEF start
<1>9. Remainder(primary, stem) = SubSeq(stem, P + 1, L)
  BY <1>2 DEF Remainder, prefix
<1>10. Len(Remainder(primary, stem)) = L - P
  BY <1>2, <1>7, <1>9 DEF stem
<1>11. Remainder(primary, stem) # <<>> /\ Scheme(primary, name) = Len(Remainder(primary, stem))
  BY DEF IsGhs, IsNumber, Scheme, stem
<1>12. L - P # 0
  <2>1. Remainder(primary, stem) \in Seq(STRING)
    BY <1>2, <1>7, <1>9 DEF stem
  <2> QED
    BY <1>10, <1>11, <2>1
<1>13. P < L
  BY <1>7, <1>12
<1>14. Scheme(primary, name) = L - P
  BY <1>10, <1>11, Zenon
<1>15. SameName(SubSeq(stem, 1, P), prefix)
  BY <1>3, <1>8, Zenon
<1> QED
  BY <1>2, <1>13, <1>14, <1>15, Zenon DEF prefix, stem

\* Two primary files that could claim a name by a number written alike share spans.
LEMMA OneClaim ==
  ASSUME NEW primary, primary.stem \in Seq(STRING), NEW other, other.stem \in Seq(STRING),
         NEW name, name.stem \in Seq(STRING), NEW names,
         name \in Candidates(primary, names), name \in Candidates(other, names),
         Scheme(other, name) = Scheme(primary, name)
  PROVE  SharesSpans(primary, other, Scheme(primary, name))
<1>1. CASE IsGhs(primary, name)
  <2>1. PICK P \in Nat, L \in Nat :
          /\ L = Len(name.stem) /\ P < L /\ Scheme(primary, name) = L - P
          /\ SameName(SubSeq(name.stem, 1, P), Prefix(primary.stem))
    BY <1>1, NumberedName, Zenon
  <2>2. Scheme(primary, name) # 0
    <3>1. L - P # 0
      BY <2>1
    <3> QED
      BY <2>1, <3>1, Zenon
  <2>3. IsGhs(other, name)
    BY <2>2 DEF Scheme
  <2>4. PICK Q \in Nat, M \in Nat :
          /\ M = Len(name.stem) /\ Q < M /\ Scheme(other, name) = M - Q
          /\ SameName(SubSeq(name.stem, 1, Q), Prefix(other.stem))
    BY <2>3, NumberedName, Zenon
  <2>5. M = L /\ M - Q = L - P
    BY <2>1, <2>4, Zenon
  <2>6. P = Q
    BY <2>5
  <2>7. SameName(Prefix(other.stem), Prefix(primary.stem))
    BY <2>1, <2>4, <2>6 DEF SameName
  <2> QED
    BY <2>2, <2>7, Zenon DEF SharesSpans
<1>2. CASE ~IsGhs(primary, name)
  <2>1. IsCns(primary, name) /\ Scheme(primary, name) = 0
    BY <1>2 DEF Candidates, Scheme
  <2>2. ~IsGhs(other, name)
    <3>1. ASSUME IsGhs(other, name) PROVE FALSE
      <4>1. PICK Q \in Nat, M \in Nat : Q < M /\ Scheme(other, name) = M - Q
        BY <3>1, NumberedName, Zenon
      <4>2. M - Q = 0
        BY <2>1, <4>1, Zenon
      <4> QED
        BY <4>1, <4>2
    <3> QED
      BY <3>1
  <2>3. IsCns(other, name)
    BY <2>2 DEF Candidates
  <2> QED
    BY <2>1, <2>3 DEF IsCns, SameName, SharesSpans
<1> QED
  BY <1>1, <1>2

\* What DeployableImagesAreWhole says of an image with these names and files.
IsWholeIn(f, names, files) ==
  LET primary == names[1]
      spans   == Tail(names)
      stream  == Stream(files)
  IN  /\ ToSet(spans) = Candidates(primary, DOMAIN f)
      /\ \A k \in DOMAIN spans :
           /\ Sequence(primary, spans[k]) = k
           /\ \A other \in DOMAIN f \ {primary} :
                other.ext = Gho /\ spans[k] \in Candidates(other, DOMAIN f) =>
                  Scheme(other, spans[k]) # Scheme(primary, spans[k])
      /\ \A k \in DOMAIN files : files[k][1].arg = files[1][1].arg
      /\ \A start \in Starts(stream) : \A r \in RecordsOf(stream, start) :
           Len(stream) \in ReadOf(stream, r) => ~IsFirstHalf(stream, Len(stream))

\* The files of a folder that are taken for an image, and decode, are all that belong
\* to it, and only they.
LEMMA WholeImage ==
  ASSUME NEW f, IsFiniteSet(DOMAIN f),
         \A n \in DOMAIN f : n.stem \in Seq(STRING) /\ f[n] \in Seq(Tokens),
         NEW primary \in DOMAIN f, GhostSpansAccepted(primary, DOMAIN f),
         NEW names, names = <<primary>> \o GhostSpans(primary, DOMAIN f),
         NtfsPartitions(Content(f, names)) # {}
  PROVE  IsWholeIn(f, names, Content(f, names))
<1> DEFINE C == Candidates(primary, DOMAIN f)
           files == Content(f, names)
           p == Stream(files)
           spans == Tail(names)
<1>1. PICK K \in Nat : K = Cardinality(C)
  BY NamesInOrder
<1>2. /\ names \in Seq(DOMAIN f) /\ Len(names) = K + 1 /\ names[1] = primary
      /\ \A k \in 1..K : names[k + 1] \in C /\ Sequence(primary, names[k + 1]) = k
  BY <1>1, NamesInOrder
<1>3. DOMAIN names = 1..(K + 1) /\ \A i \in 1..(K + 1) : names[i] \in DOMAIN f
  BY <1>1, <1>2
<1>4. files = [i \in 1..(K + 1) |-> f[names[i]]]
  BY <1>3 DEF Content
<1>5. /\ StreamAccepted(files) /\ ParseAccepted(p)
      /\ \A q \in Starts(p), r \in Records(p) : r \in RecordsOf(p, q) => BlocksFit(p, r)
  BY DEF NtfsPartitions
<1>6. DOMAIN spans = 1..K /\ \A k \in 1..K : spans[k] = names[k + 1]
  BY <1>2
<1> HIDE DEF C, files, p, spans
<1>7. \A k \in 1..K : spans[k] \in C /\ Sequence(primary, spans[k]) = k
  BY <1>2, <1>6
<1>8. ToSet(spans) = C
  <2>1. ASSUME NEW n \in C PROVE n \in ToSet(spans)
    <3>1. /\ Sequence(primary, n) \in 1..K
          /\ \A m \in C : Sequence(primary, m) = Sequence(primary, n) => m = n
      BY <1>1, EachNumberOnce DEF C
    <3>2. PICK k \in 1..K : k = Sequence(primary, n)
      BY <3>1
    <3>3. spans[k] = n
      BY <1>7, <3>1, <3>2
    <3> QED
      BY <1>6, <3>3 DEF ToSet
  <2>2. ASSUME NEW n \in ToSet(spans) PROVE n \in C
    BY <1>6, <1>7 DEF ToSet
  <2> QED
    BY <2>1, <2>2
<1>9. ASSUME NEW k \in 1..K, NEW other \in DOMAIN f \ {primary}, other.ext = Gho,
             spans[k] \in Candidates(other, DOMAIN f)
      PROVE  Scheme(other, spans[k]) # Scheme(primary, spans[k])
  <2>1. spans[k] \in C /\ spans[k] \in DOMAIN f
    BY <1>7 DEF C, Candidates
  <2>2. ~SharesSpans(primary, other, Scheme(primary, spans[k]))
    BY <1>9, <2>1 DEF GhostSpansAccepted, C
  <2> QED
    BY <1>9, <2>1, <2>2, OneClaim DEF C
<1>10. \A i \in 2..(K + 1) : files[i][1].arg = files[1][1].arg
  <2>1. DOMAIN files = 1..(K + 1) /\ Len(files) = K + 1
    BY <1>4
  <2> QED
    BY <1>5, <2>1 DEF StreamAccepted, SpanMatches
<1>11. \A i \in DOMAIN files : files[i][1].arg = files[1][1].arg
  <2> SUFFICES ASSUME NEW i \in DOMAIN files PROVE files[i][1].arg = files[1][1].arg
    OBVIOUS
  <2>1. i = 1 \/ i \in 2..(K + 1)
    BY <1>4
  <2> QED
    BY <1>10, <2>1
<1>12. p \in Seq(Tokens)
  <2>1. files \in Seq(Seq(Tokens)) /\ Len(files) = K + 1
    <3>1. files \in [1..(K + 1) -> Seq(Tokens)] /\ K + 1 \in Nat
      BY <1>3, <1>4
    <3> QED
      BY <1>4, <3>1, IsSequence
  <2>2. \A i \in 1..Len(files) : files[i] # <<>>
    BY <1>5, <2>1 DEF StreamAccepted
  <2> QED
    BY <1>1, <2>1, <2>2, StreamHeader DEF p
<1>13. ASSUME NEW start \in Starts(p), NEW r \in RecordsOf(p, start), Len(p) \in ReadOf(p, r)
       PROVE  ~IsFirstHalf(p, Len(p))
  <2>1. BlocksFit(p, r)
    BY <1>5 DEF RecordsOf
  <2>2. Len(p) + 1 \notin DataOf(p, r)
    BY <1>12 DEF DataOf
  <2>3. ASSUME IsFirstHalf(p, Len(p))
        PROVE  p[Len(p)].kind # "byte" /\ p[Len(p)].kind # "rest"
    BY <2>3 DEF IsFirstHalf
  <2> QED
    BY <1>13, <2>1, <2>2, <2>3 DEF BlocksFit
<1> QED
  BY <1>2, <1>6, <1>7, <1>8, <1>9, <1>11, <1>13 DEF IsWholeIn, C, files, p, spans

------------------------------------------------------------------------------
(* The theorems.                                                           *)

\* Whatever is imported, removed, verified and prepared at the same time, and
\* wherever a write fails or the process dies, the invariant holds: the lists are of
\* images made of the operator's files, every directory has one owner, and what is
\* left of a file is its beginning.
THEOREM LibraryInvariant == LibrarySpec => []LibraryInv
<1>1. LibraryInit /\ FolderInit => LibraryInv
  BY InitInv
<1>2. LibraryInv /\ [LibraryNext]_libraryVars => LibraryInv'
  BY StepInv
<1> QED
  BY <1>1, <1>2, PTL DEF LibrarySpec

\* The library, the manifest, the managed directories and the calls have their types;
\* at most one call writes the manifest; and nothing is listed after a crash until
\* the manifest has been read again.
THEOREM LibraryTypes == LibrarySpec => []LibraryTypeOK
<1>1. LibraryInv => LibraryTypeOK
  <2> SUFFICES ASSUME LibraryInv PROVE LibraryTypeOK
    OBVIOUS
  <2>1. \A i \in DOMAIN library : library[i].id \in Id /\ library[i].dir \in Dir
    BY DEF LibraryInv, ListsInv, ListInv, Listed, HasId, Recorded
  <2>2. \A c \in Caller :
          op[c].step \in {"idle", "staged", "writing", "cleaning", "cloned", "ready",
                          "prepared", "served"}
    BY DEF LibraryInv, CallsInv, CallInv
  <2> DEFINE W == {c \in Caller : op[c].step = "writing"}
  <2>3. \A c, d \in W : c = d
    BY DEF LibraryInv, CallsInv
  <2> HIDE DEF W
  <2>4. Cardinality(W) <= 1
    <3>1. CASE W = {}
      BY <3>1, FS_EmptySet
    <3>2. CASE W # {}
      <4>1. PICK c \in W : TRUE
        BY <3>2
      <4>2. W = {c}
        BY <2>3, <4>1
      <4>3. Cardinality({c}) = 1
        BY FS_Singleton
      <4> QED
        BY <4>2, <4>3
    <3> QED
      BY <3>1, <3>2
  <2>5. /\ DOMAIN objects \subseteq Dir /\ manifest.torn \in BOOLEAN /\ running \in BOOLEAN
        /\ running \/ library = <<>>
    BY DEF LibraryInv, TypesInv, OwnInv, ListsInv
  <2> QED
    BY <2>1, <2>2, <2>4, <2>5 DEF LibraryTypeOK, W
<1> QED
  BY <1>1, LibraryInvariant, PTL

\* remove_image, import_image and their failures never take the directory of an image
\* that is listed, in memory or in images.json; and no image is listed twice, however
\* many callers import the same files at once.
THEOREM ImagesKeepTheirFiles == LibrarySpec => []ListedImagesKeepTheirFiles
<1>1. LibraryInv => ListedImagesKeepTheirFiles
  BY DEF LibraryInv, ListsInv, ListInv, OwnInv, Dirs, Lists, ListedImagesKeepTheirFiles
<1> QED
  BY <1>1, LibraryInvariant, PTL

\* What revalidate_for_deployment and prepare_gho_partition_deployment hand out, and
\* every range installer_media_response sends, is what was imported.
THEOREM DeploysWhatWasImported == LibrarySpec => []PreparedIsWhatWasImported
<1>1. LibraryInv => PreparedIsWhatWasImported
  <2> SUFFICES ASSUME LibraryInv, NEW c \in Caller
               PROVE  /\ op[c].step = "prepared" => IsPrepared(op[c], folder, reverified)
                      /\ op[c].step = "served" => IsServed(op[c], folder)
    BY DEF PreparedIsWhatWasImported, IsPrepared, IsServed
  <2> QED
    BY PreparingCall DEF Preparing, Prepares
<1> QED
  BY <1>1, LibraryInvariant, PTL

\* An image is shown as verified, and can be deployed, only with all the files of the
\* folder that discover_ghost_spans takes for its own, none of which could be another
\* image's, in their order, of one header and not cut inside a block: whatever the
\* folder holds, and whatever is imported, damaged, verified and read again after a
\* crash meanwhile.
THEOREM DeployableAreWhole == LibrarySpec => []DeployableImagesAreWhole
<1> DEFINE Inv == LibraryInv /\ DiscoveryInv
<1>1. LibraryInit /\ FolderInit => Inv
  BY InitInv, InitDiscovery
<1>2. Inv /\ [LibraryNext]_libraryVars => Inv'
  BY StepInv, StepDiscovery
<1>3. Inv => DeployableImagesAreWhole
  <2> SUFFICES ASSUME Inv, NEW i \in DOMAIN library, library[i].format = Gho,
                      library[i].verified, IsIntact(library[i])
               PROVE  IsWholeIn(folder, library[i].names, Files(library[i]))
    BY DEF DeployableImagesAreWhole, IsWholeIn
  <2> DEFINE image == library[i]
             primary == image.names[1]
  <2>1. image \in RecordsHeld
    BY DEF RecordsHeld, ToSet
  <2>2. Recorded(image, folder) /\ Discovered(image, objects, folder)
    BY <2>1, HeldRecord DEF DiscoveryInv
  <2>3. /\ Managed(image) /\ Files(image) = Content(folder, image.names)
        /\ \A n \in ToSet(image.names) : objects[image.dir][n] = folder[n]
    BY <2>2, IntactImage DEF LibraryInv
  <2>4. HasAllOf(image, objects, folder)
    BY <2>3 DEF HasAllOf, Managed
  <2>5. /\ GhostSpansAccepted(primary, DOMAIN folder)
        /\ image.names = <<primary>> \o GhostSpans(primary, DOMAIN folder)
        /\ NtfsPartitions(Content(folder, image.names)) # {}
    BY <2>2, <2>4 DEF Discovered
  <2>6. primary \in DOMAIN folder
    BY <2>2, NamesOfFolder
  <2>7. /\ IsFiniteSet(DOMAIN folder)
        /\ \A n \in DOMAIN folder : n.stem \in Seq(STRING) /\ folder[n] \in Seq(Tokens)
    BY DEF LibraryInv, TypesInv, FolderInit
  <2> HIDE DEF image, primary
  <2>8. IsWholeIn(folder, image.names, Content(folder, image.names))
    BY <2>5, <2>6, <2>7, WholeImage
  <2> QED
    BY <2>3, <2>8, Zenon DEF image
<1> QED
  BY <1>1, <1>2, <1>3, PTL DEF LibrarySpec
==============================================================================
