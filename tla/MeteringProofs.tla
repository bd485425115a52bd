--------------------------- MODULE MeteringProofs ---------------------------
(***************************************************************************)
(* Usage accounting, for any number of paths, any buffer, batch and bound, *)
(* and whatever is lost, resent, reordered or measured again.              *)
(*                                                                         *)
(* The model's loops are recursive functions and InOrder is a CHOOSE, so   *)
(* the first two parts show that what they name exists and satisfies its   *)
(* equations; every later fact about a sum, a tally or a selection is an   *)
(* induction over the places of one sequence.  The third part follows a    *)
(* report from the buffer, the fourth the books (BooksInv), which bound    *)
(* the ledger from above, the last the balance (StepInv), which bounds it  *)
(* from below.                                                             *)
(*                                                                         *)
(* The last part is the edge protection's, whose rules are walked the same *)
(* way: first what the generator writes (RulesOk), then a packet's way     *)
(* through it, one rule after the other (Way), then the invariants.        *)
(***************************************************************************)
EXTENDS Metering, Edge, WellFoundedInduction, FiniteSetTheorems, TLAPS

(* Induction, on a set of numbers.                                         *)
LEMMA Induction ==
    ASSUME NEW S \in SUBSET Nat, 0 \in S, \A n \in S : n + 1 \in S
    PROVE  S = Nat
<1>1. SUFFICES ASSUME Nat \ S # {} PROVE FALSE
  OBVIOUS
<1>2. PICK x \in Nat \ S : \A y \in Nat \ S : ~ (<<y, x>> \in OpToRel(<, Nat))
  BY <1>1, NatLessThanWellFounded, WFMin
<1>3. ASSUME NEW y \in Nat \ S PROVE x <= y
  <2>1. ~ (<<y, x>> \in {pair \in Nat \X Nat : pair[1] < pair[2]})
    BY <1>2 DEF OpToRel
  <2>2. x \in Nat /\ y \in Nat
    OBVIOUS
  <2> QED BY <2>1, <2>2
<1>4. x # 0 /\ x - 1 \in S
  BY <1>3
<1>5. (x - 1) + 1 \in S
  BY <1>4
<1>6. (x - 1) + 1 = x
  OBVIOUS
<1> QED BY <1>5, <1>6

(* A loop over the places 1..m of a sequence has a value at each of them.  *)
IsWalk(f, m, D, first, G) ==
    /\ f \in [0..m -> D] /\ f[0] = first
    /\ \A n \in 1..m : n - 1 \in 0..m /\ f[n - 1] \in D /\ f[n] = G[<<n, f[n - 1]>>]

LEMMA WalkExists ==
    ASSUME NEW m \in Nat, NEW D, NEW first \in D, NEW G \in [(1..m) \X D -> D]
    PROVE  \E f : IsWalk(f, m, D, first, G)
<1> DEFINE Run(h, n) == h[0] = first /\ \A i \in 1..n : h[i] = G[<<i, h[i - 1]>>]
           S == {n \in Nat : n <= m => \E h \in [0..n -> D] : Run(h, n)}
<1>1. 0 \in S
  <2>1. [i \in 0..0 |-> first] \in [0..0 -> D] /\ Run([i \in 0..0 |-> first], 0)
    OBVIOUS
  <2> QED BY <2>1
<1>2. ASSUME NEW n \in S PROVE n + 1 \in S
  <2> SUFFICES ASSUME n + 1 <= m PROVE \E h \in [0..(n + 1) -> D] : Run(h, n + 1)
    OBVIOUS
  <2>1. n \in Nat /\ n <= m /\ n + 1 \in 1..m
    OBVIOUS
  <2>2. PICK h \in [0..n -> D] : Run(h, n)
    BY <2>1
  <2> DEFINE h1 == [i \in 0..(n + 1) |-> IF i = n + 1 THEN G[<<n + 1, h[n]>>] ELSE h[i]]
  <2>3. h[n] \in D /\ G[<<n + 1, h[n]>>] \in D
    BY <2>1
  <2>4. h1 \in [0..(n + 1) -> D]
    BY <2>1, <2>3
  <2>5. Run(h1, n + 1)
    <3>1. h1[0] = first
      BY <2>1, <2>2
    <3>2. ASSUME NEW i \in 1..(n + 1) PROVE h1[i] = G[<<i, h1[i - 1]>>]
      <4>1. CASE i = n + 1
        <5>1. h1[i - 1] = h[n] /\ h1[i] = G[<<n + 1, h[n]>>]
          BY <2>1, <4>1
        <5> HIDE DEF h1
        <5> QED BY <4>1, <5>1
      <4>2. CASE i # n + 1
        <5>1. i \in 1..n /\ i - 1 \in 0..n
          BY <2>1, <4>2
        <5>2. h1[i] = h[i] /\ h1[i - 1] = h[i - 1]
          BY <2>1, <5>1
        <5>3. h[i] = G[<<i, h[i - 1]>>]
          BY <2>2, <5>1
        <5> HIDE DEF h1
        <5> QED BY <5>2, <5>3
      <4> QED BY <4>1, <4>2
    <3> HIDE DEF h1
    <3> QED BY <3>1, <3>2
  <2> HIDE DEF h1, Run
  <2> QED BY <2>4, <2>5
<1>3. S = Nat
  <2> HIDE DEF S
  <2>1. S \in SUBSET Nat
    BY DEF S
  <2> QED BY <1>1, <1>2, <2>1, Induction
<1>4. PICK f \in [0..m -> D] : Run(f, m)
  <2>1. m \in S
    BY <1>3
  <2> QED BY <2>1
<1>5. \A n \in 1..m : n - 1 \in 0..m
  OBVIOUS
<1>6. IsWalk(f, m, D, first, G)
  BY <1>4, <1>5 DEF IsWalk
<1> QED BY <1>6

(* The running sums behind BytesAbove.                                     *)
IsSum(f, s, p, w) ==
    /\ f \in [0..Len(s) -> Nat] /\ f[0] = 0
    /\ \A n \in 1..Len(s) : f[n] = IF s[n].path = p /\ s[n].seq > w
                                   THEN f[n - 1] + s[n].bytes ELSE f[n - 1]

LEMMA BytesAboveIs ==
    ASSUME NEW s \in Seq(Delta), NEW p, NEW w
    PROVE  \E f : IsSum(f, s, p, w) /\ BytesAbove(s, p, w) = f[Len(s)]
<1> DEFINE m == Len(s)
           Step(n, v) == IF s[n].path = p /\ s[n].seq > w THEN v + s[n].bytes ELSE v
           G == [x \in (1..m) \X Nat |-> Step(x[1], x[2])]
           Eq(f) == f = [n \in 0..m |-> IF n = 0 THEN 0 ELSE Step(n, f[n - 1])]
<1>1. m \in Nat /\ \A n \in 1..m : s[n].bytes \in Nat
  <2>1. \A n \in 1..m : s[n] \in Delta
    OBVIOUS
  <2> QED BY <2>1 DEF Delta
<1>2. \A n \in 1..m, v \in Nat : Step(n, v) \in Nat
  BY <1>1
<1>3. G \in [(1..m) \X Nat -> Nat] /\ \A n \in 1..m, v \in Nat : G[<<n, v>>] = Step(n, v)
  <2> HIDE DEF Step
  <2> QED BY <1>2
<1>4. PICK h : IsWalk(h, m, Nat, 0, G)
  <2> HIDE DEF G, m
  <2>1. 0 \in Nat
    OBVIOUS
  <2> QED BY <1>1, <1>3, <2>1, WalkExists, Zenon
<1> HIDE DEF G, m, Step
<1>5. Eq(h)
  <2>1. ASSUME NEW n \in 0..m PROVE h[n] = IF n = 0 THEN 0 ELSE Step(n, h[n - 1])
    <3>1. CASE n = 0
      BY <1>4, <3>1 DEF IsWalk
    <3>2. CASE n # 0
      <4>1. n \in 1..m
        BY <1>1, <3>2
      <4> QED BY <1>3, <1>4, <4>1 DEF IsWalk
    <3> QED BY <3>1, <3>2
  <2>2. h \in [0..m -> Nat]
    BY <1>4 DEF IsWalk
  <2> QED BY <2>1, <2>2
<1> DEFINE F == CHOOSE f : Eq(f)
<1>6. Eq(F)
  <2> HIDE DEF Eq
  <2> QED BY <1>5, Zenon
<1>7. BytesAbove(s, p, w) = F[Len(s)]
  BY DEF BytesAbove, Step, m
<1> HIDE DEF F
<1>8. F[0] = 0 /\ \A n \in 1..m : F[n] = Step(n, F[n - 1])
  <2>1. 0 \in 0..m /\ \A n \in 1..m : n \in 0..m /\ n # 0
    BY <1>1
  <2>2. \A n \in 0..m : F[n] = IF n = 0 THEN 0 ELSE Step(n, F[n - 1])
    BY <1>6
  <2> QED BY <2>1, <2>2
<1>9. \A n \in 0..m : F[n] \in Nat
  <2> DEFINE T == {n \in Nat : n <= m => F[n] \in Nat}
  <2>1. 0 \in T
    BY <1>8
  <2>2. ASSUME NEW n \in T PROVE n + 1 \in T
    <3> SUFFICES ASSUME n + 1 <= m PROVE F[n + 1] \in Nat
      OBVIOUS
    <3>1. n + 1 \in 1..m /\ (n + 1) - 1 = n /\ F[n] \in Nat
      BY <1>1
    <3>2. F[n + 1] = Step(n + 1, F[n])
      BY <1>8, <3>1
    <3> QED BY <1>2, <3>1, <3>2
  <2>3. T = Nat
    <3> HIDE DEF T
    <3>1. T \in SUBSET Nat
      BY DEF T
    <3> QED BY <2>1, <2>2, <3>1, Induction
  <2> QED BY <1>1, <2>3
<1>10. F \in [0..m -> Nat]
  BY <1>6, <1>9
<1>11. IsSum(F, s, p, w)
  BY <1>8, <1>10 DEF IsSum, Step, m
<1> QED BY <1>7, <1>11

(* The walk behind Taken: what has been seen and taken at each place.      *)
Tally == [seen : Nat, bytes : Nat]
IsTally(f, s, p, w) ==
    /\ f \in [0..Len(s) -> Tally] /\ f[0] = [seen |-> w, bytes |-> 0]
    /\ \A n \in 1..Len(s) :
          f[n] = IF \/ s[n].path # p \/ s[n].seq <= f[n - 1].seen
                    \/ s[n].seq - w > MaxSequenceJump
                 THEN f[n - 1]
                 ELSE [seen |-> s[n].seq, bytes |-> f[n - 1].bytes + s[n].bytes]

LEMMA TakenIs ==
    ASSUME NEW s \in Seq(Delta), NEW p, NEW w \in Nat
    PROVE  \E f : IsTally(f, s, p, w) /\ Taken(s, p, w) = f[Len(s)]
<1> DEFINE m == Len(s)
           Step(n, v) == IF \/ s[n].path # p \/ s[n].seq <= v.seen
                            \/ s[n].seq - w > MaxSequenceJump
                         THEN v ELSE [seen |-> s[n].seq, bytes |-> v.bytes + s[n].bytes]
           zero == [seen |-> w, bytes |-> 0]
           G == [x \in (1..m) \X Tally |-> Step(x[1], x[2])]
           Eq(f) == f = [n \in 0..m |-> IF n = 0 THEN zero ELSE Step(n, f[n - 1])]
<1>1. m \in Nat /\ \A n \in 1..m : s[n].bytes \in Nat /\ s[n].seq \in Nat
  <2>1. \A n \in 1..m : s[n] \in Delta
    OBVIOUS
  <2> QED BY <2>1 DEF Delta
<1>2. \A n \in 1..m, v \in Tally : Step(n, v) \in Tally
  BY <1>1 DEF Tally
<1>3. G \in [(1..m) \X Tally -> Tally] /\ \A n \in 1..m, v \in Tally : G[<<n, v>>] = Step(n, v)
  <2> HIDE DEF Step
  <2> QED BY <1>2
<1>4. PICK h : IsWalk(h, m, Tally, zero, G)
  <2> HIDE DEF G, m, zero
  <2>1. zero \in Tally
    BY DEF Tally, zero
  <2> QED BY <1>1, <1>3, <2>1, WalkExists, Zenon
<1> HIDE DEF G, m, Step, zero
<1>5. Eq(h)
  <2>1. ASSUME NEW n \in 0..m PROVE h[n] = IF n = 0 THEN zero ELSE Step(n, h[n - 1])
    <3>1. CASE n = 0
      BY <1>4, <3>1 DEF IsWalk
    <3>2. CASE n # 0
      <4>1. n \in 1..m
        BY <1>1, <3>2
      <4> QED BY <1>3, <1>4, <4>1 DEF IsWalk
    <3> QED BY <3>1, <3>2
  <2>2. h \in [0..m -> Tally]
    BY <1>4 DEF IsWalk
  <2> QED BY <2>1, <2>2
<1> DEFINE F == CHOOSE f : Eq(f)
<1>6. Eq(F)
  <2> HIDE DEF Eq
  <2> QED BY <1>5, Zenon
<1>7. Taken(s, p, w) = F[Len(s)]
  BY DEF Taken, Step, m, zero
<1> HIDE DEF F
<1>8. F[0] = zero /\ \A n \in 1..m : F[n] = Step(n, F[n - 1])
  <2>1. 0 \in 0..m /\ \A n \in 1..m : n \in 0..m /\ n # 0
    BY <1>1
  <2>2. \A n \in 0..m : F[n] = IF n = 0 THEN zero ELSE Step(n, F[n - 1])
    BY <1>6
  <2> QED BY <2>1, <2>2
<1>9. \A n \in 0..m : F[n] \in Tally
  <2> DEFINE T == {n \in Nat : n <= m => F[n] \in Tally}
  <2>1. 0 \in T
    BY <1>8 DEF Tally, zero
  <2>2. ASSUME NEW n \in T PROVE n + 1 \in T
    <3> SUFFICES ASSUME n + 1 <= m PROVE F[n + 1] \in Tally
      OBVIOUS
    <3>1. n + 1 \in 1..m /\ (n + 1) - 1 = n /\ F[n] \in Tally
      BY <1>1
    <3>2. F[n + 1] = Step(n + 1, F[n])
      BY <1>8, <3>1
    <3> QED BY <1>2, <3>1, <3>2
  <2>3. T = Nat
    <3> HIDE DEF T
    <3>1. T \in SUBSET Nat
      BY DEF T
    <3> QED BY <2>1, <2>2, <3>1, Induction
  <2> QED BY <1>1, <2>3
<1>10. F \in [0..m -> Tally]
  BY <1>6, <1>9
<1>11. IsTally(F, s, p, w)
  BY <1>8, <1>10 DEF IsTally, Step, m, zero
<1> QED BY <1>7, <1>11

(* What AckApplied has kept at each place.                                 *)
IsKept(f, s, a) ==
    /\ f \in [0..Len(s) -> Seq(Delta)] /\ f[0] = <<>>
    /\ \A n \in 1..Len(s) : f[n] = IF s[n].path \in DOMAIN a /\ s[n].seq <= a[s[n].path]
                                   THEN f[n - 1] ELSE Append(f[n - 1], s[n])

LEMMA UnackedIs ==
    ASSUME NEW s \in Seq(Delta), NEW a
    PROVE  \E f : IsKept(f, s, a) /\ Unacked(s, a) = f[Len(s)]
<1> DEFINE m == Len(s)
           Step(n, v) == IF s[n].path \in DOMAIN a /\ s[n].seq <= a[s[n].path]
                         THEN v ELSE Append(v, s[n])
           G == [x \in (1..m) \X Seq(Delta) |-> Step(x[1], x[2])]
           Eq(f) == f = [n \in 0..m |-> IF n = 0 THEN <<>> ELSE Step(n, f[n - 1])]
<1>1. m \in Nat /\ \A n \in 1..m : s[n] \in Delta
  OBVIOUS
<1>2. \A n \in 1..m, v \in Seq(Delta) : Step(n, v) \in Seq(Delta)
  BY <1>1
<1>3. G \in [(1..m) \X Seq(Delta) -> Seq(Delta)] /\ \A n \in 1..m, v \in Seq(Delta) : G[<<n, v>>] = Step(n, v)
  <2> HIDE DEF Step
  <2> QED BY <1>2
<1>4. PICK h : IsWalk(h, m, Seq(Delta), <<>>, G)
  <2> HIDE DEF G, m
  <2>1. <<>> \in Seq(Delta)
    OBVIOUS
  <2> QED BY <1>1, <1>3, <2>1, WalkExists, Zenon
<1> HIDE DEF G, m, Step
<1>5. Eq(h)
  <2>1. ASSUME NEW n \in 0..m PROVE h[n] = IF n = 0 THEN <<>> ELSE Step(n, h[n - 1])
    <3>1. CASE n = 0
      BY <1>4, <3>1 DEF IsWalk
    <3>2. CASE n # 0
      <4>1. n \in 1..m
        BY <1>1, <3>2
      <4> QED BY <1>3, <1>4, <4>1 DEF IsWalk
    <3> QED BY <3>1, <3>2
  <2>2. h \in [0..m -> Seq(Delta)]
    BY <1>4 DEF IsWalk
  <2> QED BY <2>1, <2>2
<1> DEFINE F == CHOOSE f : Eq(f)
<1>6. Eq(F)
  <2> HIDE DEF Eq
  <2> QED BY <1>5, Zenon
<1>7. Unacked(s, a) = F[Len(s)]
  BY DEF Unacked, Step, m
<1> HIDE DEF F
<1>8. F[0] = <<>> /\ \A n \in 1..m : F[n] = Step(n, F[n - 1])
  <2>1. 0 \in 0..m /\ \A n \in 1..m : n \in 0..m /\ n # 0
    BY <1>1
  <2>2. \A n \in 0..m : F[n] = IF n = 0 THEN <<>> ELSE Step(n, F[n - 1])
    BY <1>6
  <2> QED BY <2>1, <2>2
<1>9. \A n \in 0..m : F[n] \in Seq(Delta)
  <2> DEFINE T == {n \in Nat : n <= m => F[n] \in Seq(Delta)}
  <2>1. 0 \in T
    <3>1. F[0] \in Seq(Delta)
      <4>1. <<>> \in Seq(Delta)
        OBVIOUS
      <4> QED BY <1>8, <4>1, Zenon
    <3> QED BY <3>1
  <2>2. ASSUME NEW n \in T PROVE n + 1 \in T
    <3> SUFFICES ASSUME n + 1 <= m PROVE F[n + 1] \in Seq(Delta)
      OBVIOUS
    <3>1. n + 1 \in 1..m /\ (n + 1) - 1 = n /\ F[n] \in Seq(Delta)
      BY <1>1
    <3>2. F[n + 1] = Step(n + 1, F[n])
      BY <1>8, <3>1
    <3> QED BY <1>2, <3>1, <3>2
  <2>3. T = Nat
    <3> HIDE DEF T
    <3>1. T \in SUBSET Nat
      BY DEF T
    <3> QED BY <2>1, <2>2, <3>1, Induction
  <2> QED BY <1>1, <2>3
<1>10. F \in [0..m -> Seq(Delta)]
  BY <1>6, <1>9
<1>11. IsKept(F, s, a)
  BY <1>8, <1>10 DEF IsKept, Step, m
<1> QED BY <1>7, <1>11

-----------------------------------------------------------------------------
(* Sets of numbers in order.                                               *)

LEMMA Smallest ==
    ASSUME NEW S \in SUBSET Nat, S # {}
    PROVE  \E x \in S : \A y \in S : x <= y
<1>1. PICK x \in S : \A y \in S : ~ (<<y, x>> \in OpToRel(<, Nat))
  BY NatLessThanWellFounded, WFMin
<1>2. ASSUME NEW y \in S PROVE x <= y
  <2>1. ~ (<<y, x>> \in {pair \in Nat \X Nat : pair[1] < pair[2]})
    BY <1>1 DEF OpToRel
  <2>2. x \in Nat /\ y \in Nat
    OBVIOUS
  <2> QED BY <2>1, <2>2
<1> QED BY <1>2

Climbs(s, n, S) == s \in [1..n -> S] /\ \A i, j \in 1..n : i < j => s[i] < s[j]

LEMMA OrderExists ==
    ASSUME NEW S \in SUBSET Nat, IsFiniteSet(S)
    PROVE  \E s : Climbs(s, Cardinality(S), S)
<1> DEFINE Fits(R, n) == R \in SUBSET Nat /\ IsFiniteSet(R) /\ Cardinality(R) = n
           T == {n \in Nat : \A R \in SUBSET Nat : Fits(R, n) => \E s : Climbs(s, n, R)}
<1>1. 0 \in T
  <2> SUFFICES ASSUME NEW R \in SUBSET Nat, Fits(R, 0) PROVE \E s : Climbs(s, 0, R)
    OBVIOUS
  <2>1. Climbs([i \in 1..0 |-> 0], 0, R)
    BY DEF Climbs
  <2> QED BY <2>1
<1>2. ASSUME NEW n \in T PROVE n + 1 \in T
  <2> SUFFICES ASSUME NEW R \in SUBSET Nat, Fits(R, n + 1) PROVE \E s : Climbs(s, n + 1, R)
    OBVIOUS
  <2>1. n \in Nat /\ R # {}
    BY FS_EmptySet
  <2>2. PICK x \in R : \A y \in R : x <= y
    BY <2>1, Smallest
  <2>3. Fits(R \ {x}, n)
    <3>1. IsFiniteSet(R) /\ Cardinality(R) = n + 1
      OBVIOUS
    <3>2. IsFiniteSet(R \ {x}) /\ Cardinality(R \ {x}) = Cardinality(R) - 1
      BY <3>1, FS_RemoveElement
    <3> QED BY <2>1, <3>1, <3>2
  <2>4. PICK s : Climbs(s, n, R \ {x})
    BY <2>3
  <2> DEFINE t == [i \in 1..(n + 1) |-> IF i = 1 THEN x ELSE s[i - 1]]
  <2>5. ASSUME NEW i \in 1..(n + 1), i # 1
        PROVE  t[i] = s[i - 1] /\ i - 1 \in 1..n /\ s[i - 1] \in R /\ s[i - 1] \in Nat /\ s[i - 1] > x
    <3>1. i - 1 \in 1..n
      BY <2>1, <2>5
    <3>2. s[i - 1] \in R \ {x}
      BY <2>4, <3>1 DEF Climbs
    <3>3. s[i - 1] \in Nat /\ x \in Nat /\ x <= s[i - 1] /\ x # s[i - 1]
      BY <2>2, <3>2
    <3> QED BY <2>5, <3>1, <3>2, <3>3
  <2>6. t[1] = x /\ x \in Nat
    BY <2>1
  <2>7. t \in [1..(n + 1) -> R]
    <3>1. \A i \in 1..(n + 1) : (IF i = 1 THEN x ELSE s[i - 1]) \in R
      BY <2>5
    <3> QED BY <3>1
  <2> HIDE DEF t
  <2>8. ASSUME NEW i \in 1..(n + 1), NEW j \in 1..(n + 1), i < j PROVE t[i] < t[j]
    <3>1. j # 1 /\ j \in Nat /\ i \in Nat
      BY <2>1, <2>8
    <3>2. CASE i = 1
      BY <2>5, <2>6, <3>1, <3>2
    <3>3. CASE i # 1
      <4>1. i - 1 < j - 1
        BY <2>8, <3>1
      <4>2. s[i - 1] < s[j - 1]
        BY <2>4, <2>5, <3>1, <3>3, <4>1 DEF Climbs
      <4> QED BY <2>5, <3>1, <3>3, <4>2
    <3> QED BY <3>2, <3>3
  <2>9. Climbs(t, n + 1, R)
    BY <2>7, <2>8 DEF Climbs
  <2> QED BY <2>9
<1>3. T = Nat
  <2> HIDE DEF T
  <2>1. T \in SUBSET Nat
    BY DEF T
  <2> QED BY <1>1, <1>2, <2>1, Induction
<1>4. Cardinality(S) \in T
  BY <1>3, FS_CardinalityType
<1> QED BY <1>4

(* InOrder goes through the whole set, upwards.                            *)
LEMMA InOrderIs ==
    ASSUME NEW S \in SUBSET Nat, IsFiniteSet(S)
    PROVE  /\ Cardinality(S) \in Nat
           /\ Climbs(InOrder(S), Cardinality(S), S)
           /\ \A x \in S : \E i \in 1..Cardinality(S) : InOrder(S)[i] = x
<1> DEFINE n == Cardinality(S)
           s == InOrder(S)
<1>1. n \in Nat
  BY FS_CardinalityType
<1>2. Climbs(s, n, S)
  <2>1. PICK t : Climbs(t, n, S)
    BY OrderExists
  <2>2. t \in [1..n -> S] /\ \A i, j \in 1..n : i < j => t[i] < t[j]
    BY <2>1 DEF Climbs
  <2>3. InOrder(S) = CHOOSE u \in [1..n -> S] : \A i, j \in 1..n : i < j => u[i] < u[j]
    BY DEF InOrder
  <2> HIDE DEF n
  <2>4. InOrder(S) \in [1..n -> S] /\ \A i, j \in 1..n : i < j => InOrder(S)[i] < InOrder(S)[j]
    BY <2>2, <2>3, Zenon
  <2> QED BY <2>4 DEF Climbs
<1>3. s \in Injection(1..n, S)
  <2> HIDE DEF n, s
  <2>1. ASSUME NEW i \in 1..n, NEW j \in 1..n, s[i] = s[j] PROVE i = j
    <3>1. i \in Nat /\ j \in Nat /\ s[i] \in Nat /\ s[j] \in Nat
      <4>1. s[i] \in S /\ s[j] \in S
        BY <1>2 DEF Climbs
      <4>2. \A x \in S : x \in Nat
        OBVIOUS
      <4>3. i \in Nat /\ j \in Nat
        BY <1>1
      <4> QED BY <4>1, <4>2, <4>3
    <3>2. ~(i < j) /\ ~(j < i)
      BY <1>2, <2>1, <3>1 DEF Climbs
    <3> QED BY <3>1, <3>2
  <2>2. s \in [1..n -> S]
    BY <1>2 DEF Climbs
  <2> QED BY <2>1, <2>2 DEF Injection, IsInjective
<1>4. s \in Surjection(1..n, S)
  <2>1. Cardinality(1..n) = n
    <3> HIDE DEF n
    <3> QED BY <1>1, FS_Interval
  <2> QED BY <1>3, <2>1, FS_Injection
<1>5. \A x \in S : \E i \in 1..n : s[i] = x
  BY <1>4 DEF Surjection
<1> QED BY <1>1, <1>2, <1>5

-----------------------------------------------------------------------------
(* What the operations of the meter do to the deltas.                      *)

Entries(s) == {s[i] : i \in 1..Len(s)}

LEMMA DeltaIs ==
    ASSUME NEW d \in Delta
    PROVE  /\ d.path \in Paths /\ d.seq \in Nat /\ d.seq > 0 /\ d.bytes \in Nat /\ d.bytes > 0
           /\ d = [path |-> d.path, seq |-> d.seq, bytes |-> d.bytes]
BY DEF Delta

LEMMA TypeFacts ==
    ASSUME MeteringTypes
    PROVE  /\ counter \in [Paths -> Nat] /\ carried \in [Paths -> Nat] /\ missed \in [Paths -> Nat]
           /\ nextSeq \in [Paths -> Nat] /\ watermark \in [Paths -> Nat]
           /\ ledger \in [Paths -> Nat] /\ last \in [Paths -> Reading]
           /\ stateFile.last \in [Paths -> Reading] /\ stateFile.nextSeq \in [Paths -> Nat]
           /\ writeFails \in Nat /\ crashes \in Nat /\ resets \in Nat
BY DEF MeteringTypes

LEMMA ConstantFacts ==
    /\ Paths \in SUBSET Nat /\ IsFiniteSet(Paths) /\ None \notin Nat
    /\ MaxBuffered \in Nat /\ BatchSize \in Nat /\ BatchSize > 0 /\ MaxBuffered > 0
    /\ MaxSequenceJump \in Nat
BY MeteringAssumption

(* The two ends of a sequence that is cut behind its k-th entry.           *)
LEMMA Halves ==
    ASSUME NEW s \in Seq(Delta), NEW k \in 0..Len(s)
    PROVE  /\ SubSeq(s, k + 1, Len(s)) \in Seq(Delta) /\ SubSeq(s, 1, k) \in Seq(Delta)
           /\ Len(SubSeq(s, k + 1, Len(s))) = Len(s) - k /\ Len(SubSeq(s, 1, k)) = k
           /\ \A i \in 1..(Len(s) - k) : SubSeq(s, k + 1, Len(s))[i] = s[i + k]
           /\ \A i \in 1..k : SubSeq(s, 1, k)[i] = s[i]
<1>1. Len(s) \in Nat /\ k \in Nat /\ k <= Len(s)
  OBVIOUS
<1>2. \A i \in 1..Len(s) : s[i] \in Delta
  OBVIOUS
<1> DEFINE t == SubSeq(s, k + 1, Len(s))
           u == SubSeq(s, 1, k)
<1>3. t = [i \in 1..(Len(s) - k) |-> s[i + k]]
  <2>1. t = [i \in 1..((Len(s) - (k + 1)) + 1) |-> s[(i + (k + 1)) - 1]]
    BY <1>1
  <2>2. (Len(s) - (k + 1)) + 1 = Len(s) - k /\ \A i \in Int : (i + (k + 1)) - 1 = i + k
    BY <1>1
  <2> QED BY <2>1, <2>2
<1>4. u = [i \in 1..k |-> s[i]]
  <2>1. u = [i \in 1..((k - 1) + 1) |-> s[(i + 1) - 1]]
    BY <1>1
  <2>2. (k - 1) + 1 = k /\ \A i \in Int : (i + 1) - 1 = i
    BY <1>1
  <2> QED BY <2>1, <2>2
<1> HIDE DEF t, u
<1>5. \A i \in 1..(Len(s) - k) : i + k \in 1..Len(s)
  BY <1>1
<1>6. t \in Seq(Delta) /\ Len(t) = Len(s) - k
  BY <1>1, <1>2, <1>3, <1>5
<1>7. u \in Seq(Delta) /\ Len(u) = k
  BY <1>1, <1>2, <1>4
<1> QED BY <1>3, <1>4, <1>6, <1>7 DEF t, u

(* The sample's deltas: one for each path that grew, numbered next.        *)
Grew(p, here) == p \in here /\ last[p] # None /\ counter[p] > last[p]

LEMMA FreshIs ==
    ASSUME MeteringTypes, NEW here \in SUBSET Paths
    PROVE  /\ Fresh(here) \in Seq(Delta)
           /\ \A i \in 1..Len(Fresh(here)) :
                /\ Fresh(here)[i].path \in Paths /\ Grew(Fresh(here)[i].path, here)
                /\ Fresh(here)[i].seq = nextSeq[Fresh(here)[i].path] + 1
                /\ Fresh(here)[i].bytes = counter[Fresh(here)[i].path] - last[Fresh(here)[i].path]
           /\ \A p \in Paths : Grew(p, here) => \E i \in 1..Len(Fresh(here)) : Fresh(here)[i].path = p
           /\ \A i, j \in 1..Len(Fresh(here)) : Fresh(here)[i].path = Fresh(here)[j].path => i = j
<1> DEFINE grew == {p \in here : last[p] # None /\ counter[p] > last[p]}
           n == Cardinality(grew)
           s == InOrder(grew)
           D(p) == [path |-> p, seq |-> nextSeq[p] + 1, bytes |-> counter[p] - last[p]]
           fresh == Fresh(here)
<1>1. grew \in SUBSET Nat /\ IsFiniteSet(grew) /\ grew \in SUBSET Paths
  <2>1. grew \in SUBSET Paths
    OBVIOUS
  <2> HIDE DEF grew
  <2> QED BY <2>1, ConstantFacts, FS_Subset
<1>2. fresh = [i \in 1..n |-> D(s[i])]
  BY DEF Fresh
<1>3. \A p \in grew : D(p) \in Delta /\ p \in Paths /\ Grew(p, here)
  <2> SUFFICES ASSUME NEW p \in grew PROVE D(p) \in Delta /\ p \in Paths /\ Grew(p, here)
    OBVIOUS
  <2>1. p \in Paths /\ last[p] # None /\ counter[p] > last[p] /\ p \in here
    OBVIOUS
  <2>2. last[p] \in Nat /\ counter[p] \in Nat /\ nextSeq[p] \in Nat
    BY <2>1, TypeFacts DEF Reading
  <2>3. counter[p] - last[p] \in Nat \ {0} /\ nextSeq[p] + 1 \in Nat \ {0}
    BY <2>1, <2>2
  <2> QED BY <2>1, <2>3 DEF Delta, Grew
<1>4. \A p \in Paths : Grew(p, here) => p \in grew
  BY DEF Grew
<1> HIDE DEF grew
<1>5. n \in Nat /\ Climbs(s, n, grew) /\ \A x \in grew : \E i \in 1..n : s[i] = x
  BY <1>1, InOrderIs
<1>6. \A i \in 1..n : s[i] \in grew
  BY <1>5 DEF Climbs
<1>7. \A i, j \in 1..n : s[i] = s[j] => i = j
  <2> SUFFICES ASSUME NEW i \in 1..n, NEW j \in 1..n, s[i] = s[j] PROVE i = j
    OBVIOUS
  <2>1. s[i] \in Nat /\ s[j] \in Nat
    BY <1>1, <1>6
  <2>2. i \in Nat /\ j \in Nat
    BY <1>5
  <2>3. ~(i < j) /\ ~(j < i)
    BY <1>5, <2>1, <2>2 DEF Climbs
  <2> QED BY <2>2, <2>3
<1> HIDE DEF n, s
<1>8. fresh \in Seq(Delta) /\ Len(fresh) = n
  <2>1. \A i \in 1..n : D(s[i]) \in Delta
    BY <1>3, <1>6
  <2> HIDE DEF D, fresh
  <2> QED BY <1>2, <1>5, <2>1
<1>9. \A i \in 1..n : /\ fresh[i].path = s[i] /\ fresh[i].seq = nextSeq[s[i]] + 1
                      /\ fresh[i].bytes = counter[s[i]] - last[s[i]]
  <2> HIDE DEF fresh
  <2> QED BY <1>2
<1> HIDE DEF fresh, D
<1>10. \A i \in 1..n : fresh[i].path \in Paths /\ Grew(fresh[i].path, here)
  BY <1>3, <1>6, <1>9
<1>11. \A p \in Paths : Grew(p, here) => \E i \in 1..n : fresh[i].path = p
  BY <1>4, <1>5, <1>9
<1>12. \A i, j \in 1..n : fresh[i].path = fresh[j].path => i = j
  BY <1>7, <1>9
<1> QED BY <1>8, <1>9, <1>10, <1>11, <1>12 DEF fresh

LEMMA BytesAreNat ==
    ASSUME NEW s \in Seq(Delta), NEW p, NEW w
    PROVE  BytesAbove(s, p, w) \in Nat
<1>1. PICK f : IsSum(f, s, p, w) /\ BytesAbove(s, p, w) = f[Len(s)]
  BY BytesAboveIs
<1>2. Len(s) \in 0..Len(s)
  OBVIOUS
<1> QED BY <1>1, <1>2 DEF IsSum

LEMMA TakenIsTally ==
    ASSUME NEW s \in Seq(Delta), NEW p, NEW w \in Nat
    PROVE  Taken(s, p, w) \in Tally
<1>1. PICK f : IsTally(f, s, p, w) /\ Taken(s, p, w) = f[Len(s)]
  BY TakenIs
<1>2. Len(s) \in 0..Len(s)
  OBVIOUS
<1> QED BY <1>1, <1>2 DEF IsTally

(* What a sample leaves: the deltas that were there and the fresh ones,    *)
(* less the first k.                                                       *)
CutAt(all, fresh, k) ==
    /\ pending' = SubSeq(all, k + 1, Len(all))
    /\ missed' = [p \in Paths |-> missed[p] + BytesAbove(SubSeq(all, 1, k), p, watermark[p])]
    /\ fresh = <<>> => k = 0
    /\ Len(all) - k <= MaxBuffered

(* One sequence behind another.                                            *)
Extended(all, s, t) ==
    /\ all \in Seq(Delta) /\ Len(all) = Len(s) + Len(t)
    /\ \A i \in 1..Len(s) : all[i] = s[i]
    /\ \A i \in 1..Len(t) : all[Len(s) + i] = t[i]

LEMMA SampleIs ==
    ASSUME MeteringTypes, NEW here \in SUBSET Paths, Sample(here),
           NEW fresh, fresh = Fresh(here), NEW all, all = pending \o fresh
    PROVE  /\ Extended(all, pending, fresh)
           /\ \E k \in 0..Len(all) : CutAt(all, fresh, k)
<1> DEFINE k == IF Len(all) > MaxBuffered THEN Len(all) - MaxBuffered ELSE 0
<1>1. pending \in Seq(Delta) /\ fresh \in Seq(Delta) /\ Len(pending) <= MaxBuffered
  BY FreshIs DEF MeteringTypes
<1>2. /\ all \in Seq(Delta) /\ Len(all) = Len(pending) + Len(fresh)
      /\ \A i \in 1..Len(pending) : all[i] = pending[i]
      /\ \A i \in 1..Len(fresh) : all[Len(pending) + i] = fresh[i]
  BY <1>1
<1>3. /\ pending' = SubSeq(all, k + 1, Len(all))
      /\ missed' = [p \in Paths |-> missed[p] + BytesAbove(SubSeq(all, 1, k), p, watermark[p])]
  BY DEF Sample
<1>4. Len(all) \in Nat /\ Len(pending) \in Nat /\ MaxBuffered \in Nat
  BY <1>1, <1>2, ConstantFacts
<1>5. k \in 0..Len(all) /\ Len(all) - k <= MaxBuffered
  BY <1>4
<1>6. fresh = <<>> => k = 0
  <2> SUFFICES ASSUME fresh = <<>> PROVE k = 0
    OBVIOUS
  <2>1. Len(fresh) = 0
    OBVIOUS
  <2>2. Len(all) = Len(pending) + Len(fresh) /\ Len(pending) <= MaxBuffered
    BY <1>1, <1>2
  <2>3. Len(all) <= MaxBuffered
    BY <1>4, <2>1, <2>2
  <2> QED BY <1>4, <2>3
<1> HIDE DEF k
<1>7. CutAt(all, fresh, k)
  BY <1>3, <1>5, <1>6 DEF CutAt
<1>8. Extended(all, pending, fresh)
  BY ONLY <1>2 DEF Extended
<1> QED BY ONLY <1>5, <1>7, <1>8, Zenon

(* An acknowledgement only takes deltas away.                              *)
LEMMA UnackedWithin ==
    ASSUME NEW s \in Seq(Delta), NEW a
    PROVE  /\ Unacked(s, a) \in Seq(Delta) /\ Len(Unacked(s, a)) <= Len(s)
           /\ Entries(Unacked(s, a)) \subseteq Entries(s)
<1> DEFINE m == Len(s)
<1>1. PICK f : IsKept(f, s, a) /\ Unacked(s, a) = f[m]
  BY UnackedIs
<1>2. m \in Nat
  OBVIOUS
<1> DEFINE Ok(n) == Len(f[n]) <= n /\ \A i \in 1..Len(f[n]) : f[n][i] \in Entries(s)
           T == {n \in Nat : n <= m => Ok(n)}
<1>3. 0 \in T
  BY <1>1 DEF IsKept
<1>4. ASSUME NEW n \in T PROVE n + 1 \in T
  <2> SUFFICES ASSUME n + 1 <= m PROVE Ok(n + 1)
    OBVIOUS
  <2>1. n \in Nat /\ n + 1 \in 1..m /\ (n + 1) - 1 = n /\ n \in 0..m /\ Ok(n)
    BY <1>2
  <2>2. f[n] \in Seq(Delta) /\ f[n + 1] \in {f[n], Append(f[n], s[n + 1])} /\ s[n + 1] \in Delta
    <3> DEFINE j == n + 1
    <3>1. /\ f[j] = f[j - 1] \/ f[j] = Append(f[j - 1], s[j])
          /\ f \in [0..m -> Seq(Delta)]
      BY <1>1, <2>1 DEF IsKept
    <3>2. j - 1 = n /\ s[j] \in Delta
      BY <2>1
    <3> QED BY <2>1, <3>1, <3>2
  <2>3. s[n + 1] \in Entries(s)
    BY <2>1 DEF Entries
  <2> DEFINE g == f[n]
             x == s[n + 1]
  <2>4. g \in Seq(Delta) /\ Len(g) <= n /\ \A i \in 1..Len(g) : g[i] \in Entries(s)
    BY <2>1, <2>2
  <2> HIDE DEF g, x
  <2>5. /\ Len(g) <= n + 1 /\ Len(Append(g, x)) <= n + 1
        /\ \A i \in 1..Len(Append(g, x)) : Append(g, x)[i] \in Entries(s)
    <3>1. /\ Len(g) \in Nat /\ Len(Append(g, x)) = Len(g) + 1 /\ n \in Nat
          /\ \A i \in 1..(Len(g) + 1) : Append(g, x)[i] = IF i <= Len(g) THEN g[i] ELSE x
      BY <2>1, <2>4
    <3>2. x \in Entries(s)
      BY <2>3 DEF x
    <3> QED BY <2>4, <3>1, <3>2
  <2>6. f[n + 1] = g \/ f[n + 1] = Append(g, x)
    BY <2>2 DEF g, x
  <2> QED BY <2>4, <2>5, <2>6
<1>5. T = Nat
  <2> HIDE DEF T
  <2>1. T \in SUBSET Nat
    BY DEF T
  <2> QED BY <1>3, <1>4, <2>1, Induction
<1>6. Ok(m)
  BY <1>2, <1>5
<1>7. f[m] \in Seq(Delta)
  BY <1>1, <1>2 DEF IsKept
<1> QED BY <1>1, <1>6, <1>7 DEF Entries

(* A report is part of the buffer, of each path the oldest deltas in their *)
(* order and without a gap.                                                *)
Picked(b, from) ==
    /\ from \in Injection(1..Len(b), 1..Len(pending))
    /\ \A k \in 1..Len(b) :
          /\ b[k] = pending[from[k]]
          /\ \A i \in 1..from[k] : pending[i].path = b[k].path => \E l \in 1..k : from[l] = i

(* Where a delta stands among those of its path, and the share of a path.  *)
Rank(i) == Cardinality({j \in 1..i : pending[j].path = pending[i].path})

Shared(x, y) == IF x \div y < 1 THEN 1 ELSE x \div y

LEMMA RankIs ==
    ASSUME pending \in Seq(Delta)
    PROVE  /\ \A i \in 1..Len(pending) : Rank(i) \in Nat /\ Rank(i) > 0
           /\ \A i, j \in 1..Len(pending) :
                 i < j /\ pending[i].path = pending[j].path => Rank(i) < Rank(j)
<1> DEFINE R(i) == {j \in 1..i : pending[j].path = pending[i].path}
<1>1. ASSUME NEW i \in 1..Len(pending) PROVE IsFiniteSet(R(i)) /\ Cardinality(R(i)) \in Nat /\ i \in R(i)
  <2>1. IsFiniteSet(1..i)
    BY FS_Interval
  <2>2. R(i) \in SUBSET (1..i) /\ i \in R(i)
    OBVIOUS
  <2> HIDE DEF R
  <2> QED BY <2>1, <2>2, FS_Subset, FS_CardinalityType
<1>2. ASSUME NEW i \in 1..Len(pending) PROVE Cardinality(R(i)) > 0
  <2>1. R(i) # {}
    BY <1>1
  <2> HIDE DEF R
  <2> QED BY <1>1, <2>1, FS_EmptySet
<1>3. ASSUME NEW i \in 1..Len(pending), NEW j \in 1..Len(pending), i < j,
             pending[i].path = pending[j].path
      PROVE  Cardinality(R(i)) < Cardinality(R(j))
  <2>1. R(i) \in SUBSET R(j) /\ j \notin R(i)
    BY <1>3
  <2>2. R(i) # R(j)
    BY <1>1, <2>1
  <2> HIDE DEF R
  <2> QED BY <1>1, <2>1, <2>2, FS_Subset
<1> QED BY <1>1, <1>2, <1>3 DEF Rank

LEMMA Division ==
    ASSUME NEW x \in Nat, NEW y \in Nat, y > 0
    PROVE  x \div y \in Nat /\ y * (x \div y) <= x /\ (y <= x => x \div y >= 1)
OBVIOUS

(* The places a report takes first fit into it, the first of every path    *)
(* among them.                                                             *)
LEMMA FirstsFit ==
    ASSUME pending \in Seq(Delta), pending # <<>>,
           NEW n, n = IF BatchSize < Len(pending) THEN BatchSize ELSE Len(pending),
           NEW A, A = {i \in 1..Len(pending) : Rank(i) <= Shared(n, Cardinality(PathsIn(pending)))}
    PROVE  /\ IsFiniteSet(A) /\ Cardinality(A) \in Nat /\ Cardinality(A) <= n
           /\ \A i \in 1..Len(pending) : Rank(i) = 1 => i \in A
<1> DEFINE N == Len(pending)
           Q == PathsIn(pending)
           P == Cardinality(Q)
           share == Shared(n, P)
<1>1. N \in Nat /\ N > 0 /\ BatchSize \in Nat /\ BatchSize > 0 /\ n \in Nat
  BY ConstantFacts
<1>2. Q \in SUBSET Paths
  <2>1. \A i \in 1..N : pending[i] \in Delta
    OBVIOUS
  <2>2. \A i \in 1..N : pending[i].path \in Paths
    BY <2>1, DeltaIs
  <2> QED BY <2>2 DEF PathsIn
<1>3. Q # {} /\ \A i \in 1..N : pending[i].path \in Q
  <2>1. 1 \in 1..N
    BY <1>1
  <2> QED BY <2>1 DEF PathsIn
<1> HIDE DEF Q
<1>4. IsFiniteSet(Q) /\ P \in Nat /\ P <= BatchSize /\ P > 0
  <2>1. IsFiniteSet(Q) /\ P <= Cardinality(Paths) /\ P \in Nat /\ Cardinality(Paths) \in Nat
    BY <1>2, ConstantFacts, FS_Subset, FS_CardinalityType
  <2>2. P # 0
    BY <1>3, <2>1, FS_EmptySet
  <2> QED BY <1>1, <2>1, <2>2, MeteringAssumption
<1> HIDE DEF P
<1>5. share \in Nat /\ share >= 1
  <2>1. n \div P \in Nat
    BY <1>1, <1>4, Division
  <2> QED BY <2>1 DEF Shared
<1>6. IsFiniteSet(A) /\ Cardinality(A) \in Nat /\ Cardinality(A) <= N
  <2>1. A \in SUBSET (1..N)
    OBVIOUS
  <2>2. IsFiniteSet(1..N) /\ Cardinality(1..N) = N
    BY <1>1, FS_Interval
  <2> QED BY <1>1, <2>1, <2>2, FS_Subset, FS_CardinalityType
<1>7. \A i \in 1..N : Rank(i) = 1 => i \in A
  BY <1>5 DEF share, P, Q
<1>8. CASE n = N
  BY <1>6, <1>7, <1>8
<1>9. CASE n # N
  <2>1. n = BatchSize /\ P <= n
    BY <1>1, <1>4, <1>9
  <2>2. share = n \div P /\ n \div P \in Nat /\ P * (n \div P) <= n
    <3>1. n \div P \in Nat /\ P * (n \div P) <= n /\ n \div P >= 1
      BY <1>1, <1>4, <2>1, Division
    <3> QED BY <3>1 DEF Shared
  <2> DEFINE g == [i \in A |-> <<pending[i].path, Rank(i)>>]
  <2>3. \A i \in A : i \in 1..N /\ Rank(i) \in 1..share /\ pending[i].path \in Q
    <3>1. \A i \in A : i \in 1..N /\ Rank(i) <= share
      BY DEF share, P, Q
    <3>2. \A i \in 1..N : Rank(i) \in Nat /\ Rank(i) > 0
      BY RankIs
    <3> HIDE DEF share
    <3> QED BY <1>3, <1>5, <3>1, <3>2
  <2>4. g \in [A -> Q \X (1..share)]
    <3> HIDE DEF share
    <3> QED BY <2>3
  <2>5. ASSUME NEW i \in A, NEW j \in A, g[i] = g[j] PROVE i = j
    <3>1. pending[i].path = pending[j].path /\ Rank(i) = Rank(j)
      BY <2>5
    <3>2. i \in 1..N /\ j \in 1..N /\ Rank(i) \in Nat
      BY <2>3, RankIs
    <3>3. ~(i < j) /\ ~(j < i)
      BY <3>1, <3>2, RankIs
    <3> QED BY <1>1, <3>2, <3>3
  <2>6. g \in Injection(A, Q \X (1..share))
    <3> HIDE DEF g, share
    <3> QED BY <2>4, <2>5 DEF Injection, IsInjective
  <2> HIDE DEF g, share
  <2>7. IsFiniteSet(1..share) /\ Cardinality(1..share) = share
    BY <1>5, FS_Interval
  <2>8. IsFiniteSet(Q \X (1..share)) /\ Cardinality(Q \X (1..share)) = P * share
    BY <1>4, <2>7, FS_Product DEF P
  <2>9. Cardinality(A) <= P * share
    BY <2>6, <2>8, FS_Injection
  <2>10. P * share <= n /\ P * share \in Nat
    BY <1>4, <2>2
  <2> QED BY <1>1, <1>6, <1>7, <2>9, <2>10
<1> QED BY <1>8, <1>9

LEMMA BatchIs ==
    ASSUME pending \in Seq(Delta), pending # <<>>, NEW b, b = PendingBatch
    PROVE  /\ b \in Seq(Delta) /\ PathsIn(b) = PathsIn(pending)
           /\ \E from : Picked(b, from)
<1> DEFINE N == Len(pending)
           n == IF BatchSize < N THEN BatchSize ELSE N
           share == Shared(n, Cardinality(PathsIn(pending)))
           A == {i \in 1..N : Rank(i) <= share}
           B == {i \in 1..N : Rank(i) > share}
           order == InOrder(A) \o InOrder(B)
<1>1. N \in Nat /\ N > 0 /\ n \in Nat /\ n <= N
  BY ConstantFacts
<1>2. b = [k \in 1..n |-> pending[order[k]]]
  BY DEF PendingBatch, Rank, Shared
<1>3. /\ IsFiniteSet(A) /\ Cardinality(A) \in Nat /\ Cardinality(A) <= n
      /\ \A i \in 1..N : Rank(i) = 1 => i \in A
  <2> HIDE DEF n, A
  <2> QED BY FirstsFit DEF n, A
<1>0. share \in Nat
  <2>1. PathsIn(pending) \in SUBSET Paths /\ PathsIn(pending) # {}
    <3>1. \A i \in 1..N : pending[i].path \in Paths
      BY DeltaIs
    <3>2. 1 \in 1..N
      BY <1>1
    <3> QED BY <3>1, <3>2 DEF PathsIn
  <2>2. Cardinality(PathsIn(pending)) \in Nat /\ Cardinality(PathsIn(pending)) # 0
    BY <2>1, ConstantFacts, FS_Subset, FS_CardinalityType, FS_EmptySet
  <2> HIDE DEF n
  <2>3. n \div Cardinality(PathsIn(pending)) \in Nat
    BY <1>1, <2>2, Division
  <2> QED BY <2>3 DEF Shared
<1>4. /\ A \in SUBSET Nat /\ B \in SUBSET Nat /\ A \in SUBSET (1..N) /\ B \in SUBSET (1..N)
      /\ A \cap B = {} /\ A \cup B = 1..N
  <2>1. \A i \in 1..N : Rank(i) \in Nat
    BY RankIs
  <2> HIDE DEF share
  <2> QED BY <1>0, <2>1
<1>5. IsFiniteSet(B) /\ Cardinality(B) \in Nat /\ Cardinality(A) + Cardinality(B) = N
  <2> HIDE DEF A, B, n
  <2>1. IsFiniteSet(1..N) /\ Cardinality(1..N) = N
    BY <1>1, FS_Interval
  <2>2. IsFiniteSet(B) /\ Cardinality(B) \in Nat
    BY <1>4, <2>1, FS_Subset, FS_CardinalityType
  <2>3. Cardinality(A \cup B) = Cardinality(A) + Cardinality(B) - Cardinality(A \cap B)
    BY <1>3, <2>2, FS_Union
  <2>4. Cardinality(A \cap B) = 0
    BY <1>4, FS_EmptySet
  <2>5. Cardinality(A \cup B) = N
    BY <1>4, <2>1
  <2> DEFINE x == Cardinality(A)
             y == Cardinality(B)
  <2>6. x \in Nat /\ y \in Nat /\ N = x + y - 0
    BY <1>3, <2>2, <2>3, <2>4, <2>5
  <2> HIDE DEF x, y
  <2>7. x + y = N
    BY <2>6
  <2> QED BY <2>2, <2>7 DEF x, y
<1>6. \A i, j \in 1..N : i < j /\ pending[i].path = pending[j].path /\ j \in A => i \in A
  <2> SUFFICES ASSUME NEW i \in 1..N, NEW j \in 1..N, i < j, pending[i].path = pending[j].path, j \in A
               PROVE  i \in A
    OBVIOUS
  <2>1. Rank(i) < Rank(j) /\ Rank(i) \in Nat /\ Rank(j) \in Nat
    BY RankIs
  <2>2. i \notin B
    <3>1. Rank(j) <= share
      OBVIOUS
    <3> HIDE DEF share
    <3>2. ~(Rank(i) > share)
      BY <1>0, <2>1, <3>1
    <3> QED BY <3>2
  <2> HIDE DEF A, B
  <2> QED BY <1>4, <2>2
<1> HIDE DEF A, B, share
<1> DEFINE a == Cardinality(A)
           c == Cardinality(B)
           fa == InOrder(A)
           fb == InOrder(B)
<1>7. /\ Climbs(fa, a, A) /\ \A x \in A : \E i \in 1..a : fa[i] = x
      /\ Climbs(fb, c, B) /\ \A x \in B : \E i \in 1..c : fb[i] = x
  BY <1>3, <1>4, <1>5, InOrderIs
<1>8. a \in Nat /\ c \in Nat /\ a + c = N /\ a <= n
  BY <1>3, <1>5
<1>9. /\ fa \in Seq(Nat) /\ Len(fa) = a /\ fb \in Seq(Nat) /\ Len(fb) = c
  <2>1. fa \in [1..a -> A] /\ fb \in [1..c -> B]
    BY <1>7 DEF Climbs
  <2>2. fa \in [1..a -> Nat] /\ fb \in [1..c -> Nat]
    BY <1>4, <2>1
  <2> HIDE DEF a, c, fa, fb
  <2> QED BY <1>8, <2>2
<1> HIDE DEF a, c, fa, fb, n
<1>10. \A k \in 1..N : order[k] = IF k <= a THEN fa[k] ELSE fb[k - a]
  <2>1. order = fa \o fb
    BY DEF fa, fb
  <2> HIDE DEF order
  <2>2. /\ \A k \in 1..Len(fa) : (fa \o fb)[k] = fa[k]
        /\ \A k \in 1..Len(fb) : (fa \o fb)[Len(fa) + k] = fb[k]
    BY <1>9
  <2> SUFFICES ASSUME NEW k \in 1..N PROVE order[k] = IF k <= a THEN fa[k] ELSE fb[k - a]
    OBVIOUS
  <2>3. CASE k <= a
    BY <1>8, <1>9, <2>1, <2>2, <2>3
  <2>4. CASE ~(k <= a)
    <3>1. k - a \in 1..c /\ a + (k - a) = k
      BY <1>8, <2>4
    <3>2. order[a + (k - a)] = fb[k - a]
      BY <1>9, <2>1, <2>2, <3>1
    <3> QED BY <2>4, <3>1, <3>2
  <2> QED BY <2>3, <2>4
<1> HIDE DEF order
<1>11. ASSUME NEW k \in 1..N
       PROVE  \/ k <= a /\ k \in 1..a /\ order[k] = fa[k] /\ order[k] \in A
              \/ k > a /\ k - a \in 1..c /\ order[k] = fb[k - a] /\ order[k] \in B
  <2>1. CASE k <= a
    <3>1. k \in 1..a /\ order[k] = fa[k]
      BY <1>8, <1>10, <2>1
    <3> QED BY <1>7, <2>1, <3>1 DEF Climbs
  <2>2. CASE k > a
    <3>1. k - a \in 1..c /\ order[k] = fb[k - a]
      BY <1>8, <1>10, <2>2
    <3> QED BY <1>7, <2>2, <3>1 DEF Climbs
  <2> QED BY <1>8, <2>1, <2>2
<1>12. \A k \in 1..N : order[k] \in 1..N
  BY <1>4, <1>11
<1>13. ASSUME NEW k \in 1..N, NEW l \in 1..N, k < l PROVE order[k] # order[l]
  <2>1. k \in Nat /\ l \in Nat
    BY <1>1
  <2>2. CASE l <= a
    <3>1. k \in 1..a /\ l \in 1..a /\ order[k] = fa[k] /\ order[l] = fa[l] /\ fa[k] \in Nat /\ fa[l] \in Nat
      BY <1>4, <1>8, <1>11, <1>13, <2>1, <2>2
    <3>2. fa[k] < fa[l]
      BY <1>7, <1>13, <3>1 DEF Climbs
    <3> QED BY <3>1, <3>2
  <2>3. CASE l > a /\ k <= a
    <3>1. order[k] \in A /\ order[l] \in B
      BY <1>8, <1>11, <2>1, <2>3
    <3> QED BY <1>4, <3>1
  <2>4. CASE k > a
    <3>0. l > a
      BY <1>8, <1>13, <2>1, <2>4
    <3>1. k - a \in 1..c /\ l - a \in 1..c /\ order[k] = fb[k - a] /\ order[l] = fb[l - a]
          /\ fb[k - a] \in Nat /\ fb[l - a] \in Nat /\ k - a < l - a
      BY <1>4, <1>8, <1>11, <1>13, <2>1, <2>4, <3>0
    <3>2. fb[k - a] < fb[l - a]
      BY <1>7, <3>1 DEF Climbs
    <3> QED BY <3>1, <3>2
  <2> QED BY <1>8, <2>1, <2>2, <2>3, <2>4
<1>14. ASSUME NEW k \in 1..N, NEW i \in 1..N, i < order[k], pending[i].path = pending[order[k]].path
       PROVE  \E l \in 1..k : order[l] = i
  <2>1. k \in Nat /\ order[k] \in Nat /\ i \in Nat /\ order[k] \in 1..N
    BY <1>1, <1>12
  <2>2. CASE i \in A
    <3>1. PICK l \in 1..a : fa[l] = i
      BY <1>7, <2>2
    <3>2. l \in Nat /\ l \in 1..N /\ l <= a
      BY <1>8
    <3>3. order[l] = i
      BY <1>8, <1>10, <3>1, <3>2
    <3>4. l <= k
      <4>1. CASE k <= a
        <5>1. k \in 1..a /\ order[k] = fa[k]
          BY <1>8, <1>11, <2>1, <4>1
        <5>2. ~(k < l)
          <6> SUFFICES ASSUME k < l PROVE FALSE
            OBVIOUS
          <6>1. fa[k] < fa[l]
            BY <1>7, <5>1 DEF Climbs
          <6> QED BY <1>14, <2>1, <3>1, <5>1, <6>1
        <5> QED BY <2>1, <3>2, <5>2
      <4>2. CASE k > a
        BY <1>8, <2>1, <3>2, <4>2
      <4> QED BY <1>8, <2>1, <4>1, <4>2
    <3>5. l \in 1..k
      BY <2>1, <3>2, <3>4
    <3> QED BY <3>3, <3>5
  <2>3. CASE i \notin A
    <3>1. i \in B /\ order[k] \notin A
      BY <1>4, <1>6, <1>14, <2>1, <2>3
    <3>2. k > a /\ k - a \in 1..c /\ order[k] = fb[k - a]
      BY <1>8, <1>11, <3>1
    <3>3. PICK m \in 1..c : fb[m] = i
      BY <1>7, <3>1
    <3>4. m \in Nat /\ k - a \in Nat
      BY <1>8, <3>2
    <3>5. ~(k - a < m)
      <4> SUFFICES ASSUME k - a < m PROVE FALSE
        OBVIOUS
      <4>1. fb[k - a] < fb[m]
        BY <1>7, <3>2 DEF Climbs
      <4> QED BY <1>14, <2>1, <3>2, <3>3, <4>1
    <3>6. m + a \in 1..k /\ m + a \in 1..N /\ m + a > a /\ (m + a) - a = m
      BY <1>1, <1>8, <2>1, <3>4, <3>5
    <3>7. order[m + a] = fb[m]
      BY <1>8, <1>10, <3>6
    <3> QED BY <3>3, <3>6, <3>7
  <2> QED BY <2>2, <2>3
<1> DEFINE from == [k \in 1..n |-> order[k]]
<1>15. \A k \in 1..n : k \in 1..N
  BY <1>1
<1>16. b \in Seq(Delta) /\ Len(b) = n /\ \A k \in 1..n : b[k] = pending[order[k]]
  <2>1. \A k \in 1..n : pending[order[k]] \in Delta
    BY <1>12, <1>15
  <2> QED BY <1>1, <1>2, <2>1
<1>17. Picked(b, from)
  <2>1. from \in [1..n -> 1..N]
    BY <1>12, <1>15
  <2>2. \A k \in 1..n : from[k] = order[k]
    OBVIOUS
  <2> HIDE DEF from
  <2>3. \A k, l \in 1..n : from[k] = from[l] => k = l
    <3> SUFFICES ASSUME NEW k \in 1..n, NEW l \in 1..n, from[k] = from[l] PROVE k = l
      OBVIOUS
    <3>1. ~(k < l) /\ ~(l < k)
      BY <1>13, <1>15, <2>2
    <3> QED BY <1>1, <3>1
  <2>4. from \in Injection(1..n, 1..N)
    BY <2>1, <2>3 DEF Injection, IsInjective
  <2>5. ASSUME NEW k \in 1..n, NEW i \in 1..from[k], pending[i].path = b[k].path
        PROVE  \E l \in 1..k : from[l] = i
    <3>1. k \in 1..N /\ from[k] = order[k] /\ order[k] \in 1..N /\ b[k] = pending[order[k]]
      BY <1>12, <1>15, <1>16, <2>2
    <3>2. i \in 1..N /\ k \in 1..k
      BY <1>1, <3>1
    <3>3. CASE i = order[k]
      BY <3>1, <3>2, <3>3
    <3>4. CASE i # order[k]
      <4>1. i < order[k]
        BY <1>1, <3>1, <3>4
      <4>2. PICK l \in 1..k : order[l] = i
        BY <1>14, <2>5, <3>1, <3>2, <4>1
      <4>3. l \in 1..n
        BY <1>1
      <4> QED BY <2>2, <4>2, <4>3
    <3> QED BY <3>3, <3>4
  <2> QED BY <1>16, <2>2, <2>4, <2>5 DEF Picked
<1>18. PathsIn(b) = PathsIn(pending)
  <2>1. ASSUME NEW k \in 1..n PROVE b[k].path \in PathsIn(pending)
    <3>1. order[k] \in 1..N /\ b[k] = pending[order[k]]
      BY <1>12, <1>15, <1>16
    <3> QED BY <3>1 DEF PathsIn
  <2>2. ASSUME NEW i \in 1..N PROVE \E k \in 1..n : b[k].path = pending[i].path
    <3> DEFINE S == {j \in 1..N : pending[j].path = pending[i].path}
    <3>1. S \in SUBSET Nat /\ S # {}
      BY <1>1
    <3>2. PICK x \in S : \A y \in S : x <= y
      <4> HIDE DEF S
      <4> QED BY <3>1, Smallest
    <3>3. x \in 1..N /\ {j \in 1..x : pending[j].path = pending[x].path} = {x}
      BY <1>1, <3>2
    <3>4. Rank(x) = 1
      BY <3>3, FS_Singleton DEF Rank
    <3>5. x \in A
      BY <1>3, <3>3, <3>4
    <3>6. PICK k \in 1..a : fa[k] = x
      BY <1>7, <3>5
    <3>7. k \in 1..n /\ order[k] = x
      BY <1>1, <1>8, <1>10, <3>6
    <3>8. b[k].path = pending[i].path
      BY <1>16, <3>2, <3>7
    <3> QED BY <3>7, <3>8
  <2>3. PathsIn(b) = {b[k].path : k \in 1..n} /\ PathsIn(pending) = {pending[i].path : i \in 1..N}
    BY <1>16 DEF PathsIn
  <2>4. PathsIn(b) \subseteq PathsIn(pending)
    BY <2>1, <2>3
  <2>5. PathsIn(pending) \subseteq PathsIn(b)
    BY <2>2, <2>3
  <2> QED BY <2>4, <2>5
<1> QED BY <1>16, <1>17, <1>18

-----------------------------------------------------------------------------
LEMMA MeteringTyped ==
    ASSUME MeteringTypes, [MeteringNext]_meteringVars
    PROVE  MeteringTypes'
<1> USE DEF meter, disk, wire, database, history
<1>1. ASSUME NEW p \in Paths, Traffic(p) PROVE MeteringTypes'
  <2>1. missed' \in [Paths -> Nat] /\ counter' \in [Paths -> Nat] /\ carried' \in [Paths -> Nat]
    BY <1>1, TypeFacts DEF Traffic
  <2>2. UNCHANGED <<meter, sampler, acking, disk, wire, database, torn, resets, crashes, writeFails>>
    BY <1>1 DEF Traffic
  <2> QED BY <2>1, <2>2 DEF MeteringTypes
<1>2. ASSUME NEW p \in Paths, CounterReset(p) PROVE MeteringTypes'
  <2>1. Unsampled(p) \in Nat
    BY TypeFacts DEF Unsampled, Reading
  <2>2. missed' \in [Paths -> Nat] /\ counter' \in [Paths -> Nat] /\ resets' \in Nat
    BY <1>2, <2>1, TypeFacts DEF CounterReset
  <2> QED BY <1>2, <2>2 DEF CounterReset, MeteringTypes
<1>3. ASSUME NEW here \in SUBSET Paths, Sample(here) PROVE MeteringTypes'
  <2> DEFINE fresh == Fresh(here)
             all == pending \o fresh
  <2> HIDE DEF fresh, all
  <2>0. fresh = Fresh(here) /\ all = pending \o fresh
    BY DEF fresh, all
  <2>1. all \in Seq(Delta)
    <3>1. Extended(all, pending, fresh)
      BY <1>3, <2>0, SampleIs, Zenon
    <3> QED BY ONLY <3>1 DEF Extended
  <2>2. PICK k \in 0..Len(all) : CutAt(all, fresh, k)
    BY <1>3, <2>0, SampleIs, Zenon
  <2>3. pending' \in Seq(Delta) /\ Len(pending') <= MaxBuffered /\ SubSeq(all, 1, k) \in Seq(Delta)
    BY <2>1, <2>2, Halves DEF CutAt
  <2>4. missed' \in [Paths -> Nat]
    <3>1. \A p \in Paths : BytesAbove(SubSeq(all, 1, k), p, watermark[p]) \in Nat
      BY <2>3, BytesAreNat
    <3>2. \A p \in Paths : missed[p] + BytesAbove(SubSeq(all, 1, k), p, watermark[p]) \in Nat
      BY <3>1, TypeFacts
    <3> QED BY <2>2, <3>2 DEF CutAt
  <2>5. last' \in [Paths -> Reading] /\ nextSeq' \in [Paths -> Nat]
        /\ sampler' \in {"idle", "persist", "save"}
    BY <1>3, TypeFacts DEF Sample, Reading
  <2>6. UNCHANGED <<counter, carried, acking, disk, wire, database, torn, resets, crashes, writeFails>>
    BY <1>3 DEF Sample
  <2> QED BY <2>3, <2>4, <2>5, <2>6 DEF MeteringTypes
<1>4. CASE SamplePersists \/ SampleSaves \/ AckPersists
  <2>1. /\ bufferFile' \in {bufferFile, pending} /\ writeFails' \in {writeFails, writeFails + 1}
        /\ sampler' \in {sampler, "save", "idle"} /\ acking' \in {acking, FALSE}
    <3>1. CASE SamplePersists
      BY <3>1 DEF SamplePersists, Write
    <3>2. CASE SampleSaves
      BY <3>2 DEF SampleSaves, Write
    <3>3. CASE AckPersists
      BY <3>3 DEF AckPersists, Write
    <3> QED BY <1>4, <3>1, <3>2, <3>3
  <2>2. stateFile' \in [last : [Paths -> Reading], nextSeq : [Paths -> Nat]]
    <3>1. stateFile' = stateFile \/ stateFile' = [last |-> last, nextSeq |-> nextSeq]
      BY <1>4 DEF SamplePersists, SampleSaves, AckPersists, Write
    <3> QED BY <3>1 DEF MeteringTypes
  <2>3. UNCHANGED <<counter, meter, wire, database, history, resets, crashes>>
    BY <1>4 DEF SamplePersists, SampleSaves, AckPersists
  <2>4. bufferFile' \in Seq(Delta) /\ Len(bufferFile') <= MaxBuffered
    BY <2>1 DEF MeteringTypes
  <2>5. writeFails' \in Nat /\ sampler' \in {"idle", "persist", "save"}
    BY <2>1 DEF MeteringTypes
  <2>6. acking' \in BOOLEAN
    <3>1. acking \in BOOLEAN /\ (acking' = acking \/ acking' = FALSE)
      BY <2>1 DEF MeteringTypes
    <3> QED BY <3>1, Zenon
  <2> QED BY <2>2, <2>3, <2>4, <2>5, <2>6 DEF MeteringTypes
<1>5. CASE Crash
  <2>1. /\ last' \in [Paths -> Reading] /\ nextSeq' \in [Paths -> Nat]
        /\ frames' \subseteq frames /\ acks' = {} /\ sampler' = "idle" /\ acking' = FALSE
        /\ crashes' \in Nat /\ torn' \in BOOLEAN
    BY <1>5, TypeFacts DEF Crash, MeteringTypes
  <2>2. pending' \in Seq(Delta) /\ Len(pending') <= MaxBuffered
    BY <1>5 DEF Crash, MeteringTypes
  <2>3. UNCHANGED <<counter, carried, missed, disk, database, resets, writeFails>>
    BY <1>5 DEF Crash
  <2> QED BY <2>1, <2>2, <2>3 DEF MeteringTypes
<1>6. CASE Report
  <2>1. PendingBatch \in Seq(Delta)
    BY <1>6, BatchIs DEF Report, MeteringTypes
  <2> QED BY <1>6, <2>1 DEF Report, MeteringTypes
<1>7. CASE Disconnect
  BY <1>7 DEF Disconnect, MeteringTypes
<1>8. ASSUME NEW f \in frames, NEW unread \in SUBSET (PathsIn(f) \ Unreadable),
             NEW failed \in SUBSET (PathsIn(f) \ (Unreadable \cup unread)), ApplyUsage(f, unread, failed)
      PROVE  MeteringTypes'
  <2> DEFINE read == PathsIn(f) \ (unread \cup Unreadable)
             b == [p \in read |-> Taken(f, p, watermark[p])]
             done == read \ failed
             a == [p \in read |-> IF p \in done THEN b[p].seen ELSE watermark[p]]
  <2>1. f \in Seq(Delta)
    BY DEF MeteringTypes
  <2>2. read \in SUBSET Paths
    <3>1. \A i \in 1..Len(f) : f[i].path \in Paths
      BY <2>1, DeltaIs
    <3> QED BY <3>1 DEF PathsIn
  <2>3. \A p \in read : b[p].seen \in Nat /\ b[p].bytes \in Nat
    <3>1. \A p \in read : Taken(f, p, watermark[p]) \in Tally
      BY <2>1, <2>2, TypeFacts, TakenIsTally
    <3> QED BY <3>1 DEF Tally
  <2>4. /\ watermark' = [p \in Paths |-> IF p \in done THEN b[p].seen ELSE watermark[p]]
        /\ ledger' = [p \in Paths |-> IF p \in done THEN ledger[p] + b[p].bytes ELSE ledger[p]]
        /\ acks' = acks \/ acks' = acks \cup {a}
        /\ frames' = frames \ {f}
    BY <1>8 DEF ApplyUsage, Committed
  <2>5. UNCHANGED <<counter, meter, sampler, acking, disk, history, resets, crashes, writeFails>>
    BY <1>8 DEF ApplyUsage
  <2> HIDE DEF b, read, done
  <2>6. done \in SUBSET read
    BY DEF done
  <2>7. watermark' \in [Paths -> Nat] /\ ledger' \in [Paths -> Nat]
    BY <2>3, <2>4, <2>6, TypeFacts
  <2>8. a \in [read -> Nat]
    BY <2>2, <2>3, <2>6, TypeFacts
  <2> HIDE DEF a
  <2>9. \A x \in acks' : \E S \in SUBSET Paths : x \in [S -> Nat]
    BY <2>2, <2>4, <2>8 DEF MeteringTypes
  <2> QED BY <2>4, <2>5, <2>7, <2>9 DEF MeteringTypes
<1>9. ASSUME NEW a \in acks, AckApplied(a) PROVE MeteringTypes'
  <2>1. pending' \in Seq(Delta) /\ Len(pending') <= Len(pending) /\ Len(pending) \in Nat /\ Len(pending') \in Nat
    BY <1>9, UnackedWithin DEF AckApplied, MeteringTypes
  <2>2. Len(pending') <= MaxBuffered
    BY <2>1, ConstantFacts DEF MeteringTypes
  <2> QED BY <1>9, <2>1, <2>2 DEF AckApplied, MeteringTypes
<1>10. CASE UNCHANGED meteringVars
  BY <1>10 DEF meteringVars, MeteringTypes
<1> QED
  BY <1>1, <1>2, <1>3, <1>4, <1>5, <1>6, <1>7, <1>8, <1>9, <1>10 DEF MeteringNext

LEMMA MeteringStarts == MeteringInit => MeteringTypes
<1> SUFFICES ASSUME MeteringInit PROVE MeteringTypes
  OBVIOUS
<1>1. <<>> \in Seq(Delta) /\ Len(<<>>) = 0
  OBVIOUS
<1>2. 0 <= MaxBuffered
  BY ConstantFacts
<1>3. counter \in [Paths -> Nat] /\ last \in [Paths -> Reading]
  BY DEF MeteringInit, Reading
<1> QED BY <1>1, <1>2, <1>3 DEF MeteringInit, MeteringTypes

(* No path holds up another, for any number of paths, any buffer and any   *)
(* batch that has room for one delta of each path.                         *)
THEOREM NoPathHeldUp == MeteringSpec => NoneStarved
<1> DEFINE Fair(f) ==
             /\ PathsIn(f) = PathsIn(pending)
             /\ \E from \in Injection(1..Len(f), 1..Len(pending)) :
                   \A k \in 1..Len(f) :
                      /\ f[k] = pending[from[k]]
                      /\ \A i \in 1..from[k] : pending[i].path = f[k].path =>
                            \E l \in 1..k : from[l] = i
           Step == \A f \in frames' \ frames : Fair(f)
<1>1. MeteringTypes /\ [MeteringNext]_meteringVars => [Step]_meteringVars
  <2> SUFFICES ASSUME MeteringTypes, MeteringNext, NEW f \in frames' \ frames PROVE Fair(f)
    OBVIOUS
  <2>1. Report
    BY DEF MeteringNext, Traffic, CounterReset, Sample, SamplePersists, SampleSaves, Crash,
           Disconnect, ApplyUsage, AckApplied, AckPersists, wire
  <2>2. pending \in Seq(Delta) /\ pending # <<>> /\ f = PendingBatch
    BY <2>1 DEF Report, MeteringTypes
  <2>3. PathsIn(f) = PathsIn(pending) /\ \E from : Picked(f, from)
    BY <2>2, BatchIs, Zenon
  <2> QED BY <2>3 DEF Picked
<1> QED BY <1>1, MeteringStarts, MeteringTyped, PTL DEF MeteringSpec, NoneStarved

-----------------------------------------------------------------------------
(* The books: every delta of a path, wherever a copy of it is, stands for  *)
(* a stretch of what the path carried, and the stretches follow each other *)
(* in the order of the numbers, after what is billed.  `to` is where the   *)
(* stretch of a delta ends, `pos` how far the meter had read.  A crash     *)
(* inside a sample sets the meter back to the state file, by one sample at *)
(* most, so one number may be used again, for a stretch that ends later.   *)
Of(p) == {d \in Entries(pending) \cup Entries(bufferFile) \cup UNION {Entries(f) : f \in frames} :
             d.path = p}

Placed(p, n, pos, to) ==
    /\ pos <= carried[p]
    /\ watermark[p] <= n + 1
    /\ (watermark[p] <= n => ledger[p] <= pos)
    /\ \A d \in Of(p) : d.seq <= n + 1 /\ (d.seq <= n => to[d] <= pos)

Read(p, l, pos) == l # None => counter[p] + pos <= carried[p] + l

Chain(p, to) ==
    /\ ledger[p] <= carried[p]
    /\ \A d \in Of(p) : /\ d.bytes <= to[d] /\ to[d] <= carried[p]
                        /\ d.seq > watermark[p] => ledger[p] + d.bytes <= to[d]
    /\ \A d, e \in Of(p) : d.seq < e.seq => to[d] + e.bytes <= to[e]

Books(p, pos, spos, to) ==
    /\ Chain(p, to) /\ Placed(p, nextSeq[p], pos, to) /\ Read(p, last[p], pos)
    /\ writeFails = 0 =>
         /\ Placed(p, stateFile.nextSeq[p], spos, to) /\ Read(p, stateFile.last[p], spos)
         /\ sampler = "idle" => /\ spos = pos /\ stateFile.last[p] = last[p]
                                /\ stateFile.nextSeq[p] = nextSeq[p]

InBooks(p) == \E pos \in Nat, spos \in Nat, to \in [Delta -> Nat] : Books(p, pos, spos, to)

BooksInv == FilesKept => \A p \in Paths : InBooks(p)

LEMMA OfIs ==
    ASSUME MeteringTypes, NEW p
    PROVE  \A d \in Of(p) : /\ d \in Delta /\ d.path = p
                            /\ d.seq \in Nat /\ d.seq > 0 /\ d.bytes \in Nat /\ d.bytes > 0
<1>1. \A s \in Seq(Delta) : Entries(s) \subseteq Delta
  BY DEF Entries
<1>2. Of(p) \subseteq Delta
  BY <1>1 DEF Of, MeteringTypes
<1> QED BY <1>2, DeltaIs DEF Of

(* A step that moves only the traffic, or takes copies away, or makes new  *)
(* copies of what there is, keeps the books.                               *)
LEMMA CopiesKeepBooks ==
    ASSUME MeteringTypes, NEW p \in Paths, NEW pos \in Nat, NEW spos \in Nat, NEW to \in [Delta -> Nat],
           Books(p, pos, spos, to), Of(p)' \subseteq Of(p),
           UNCHANGED <<watermark, ledger, nextSeq, last>>,
           counter' \in [Paths -> Nat], carried' \in [Paths -> Nat],
           carried[p] <= carried'[p], counter'[p] + carried[p] <= counter[p] + carried'[p],
           writeFails' = 0 => /\ writeFails = 0 /\ stateFile' = stateFile
                              /\ sampler' = "idle" => sampler = "idle"
    PROVE  Books(p, pos, spos, to)'
<1>1. /\ counter[p] \in Nat /\ carried[p] \in Nat /\ counter'[p] \in Nat /\ carried'[p] \in Nat
      /\ ledger[p] \in Nat /\ last[p] \in Nat \cup {None} /\ stateFile.last[p] \in Nat \cup {None}
      /\ None \notin Nat
  BY TypeFacts, ConstantFacts DEF Reading
<1>2. \A d \in Of(p) : to[d] \in Nat /\ d.bytes \in Nat
  BY OfIs
<1>3. ASSUME NEW n, NEW x \in Nat, Placed(p, n, x, to) PROVE Placed(p, n, x, to)'
  BY <1>1, <1>3 DEF Placed
<1>4. ASSUME NEW l \in Nat \cup {None}, NEW x \in Nat, Read(p, l, x) PROVE Read(p, l, x)'
  BY <1>1, <1>4 DEF Read
<1>5. Chain(p, to)'
  <2>1. Chain(p, to)
    BY DEF Books
  <2> QED BY <1>1, <1>2, <2>1 DEF Chain
<1>6. Placed(p, nextSeq[p], pos, to)' /\ Read(p, last[p], pos)'
  BY <1>1, <1>3, <1>4 DEF Books
<1>7. writeFails' = 0 => /\ Placed(p, stateFile.nextSeq[p], spos, to)' /\ Read(p, stateFile.last[p], spos)'
  BY <1>1, <1>3, <1>4 DEF Books
<1> QED BY <1>5, <1>6, <1>7 DEF Books

(* What a report adds to the ledger of a path ends with the stretch of one *)
(* of its deltas.                                                          *)
LEMMA BilledEnds ==
    ASSUME NEW f \in Seq(Delta), NEW p, NEW w \in Nat, NEW base \in Nat, NEW to \in [Delta -> Nat],
           \A d \in Entries(f) : d.path = p /\ d.seq > w => base + d.bytes <= to[d],
           \A d, e \in Entries(f) : d.path = p /\ e.path = p /\ d.seq < e.seq => to[d] + e.bytes <= to[e]
    PROVE  \/ Taken(f, p, w) = [seen |-> w, bytes |-> 0]
           \/ \E d \in Entries(f) : /\ d.path = p /\ d.seq > w /\ Taken(f, p, w).seen = d.seq
                                    /\ base + Taken(f, p, w).bytes <= to[d]
<1> DEFINE m == Len(f)
           Ends(b) == \/ b = [seen |-> w, bytes |-> 0]
                      \/ \E d \in Entries(f) : /\ d.path = p /\ d.seq > w /\ b.seen = d.seq
                                               /\ base + b.bytes <= to[d]
<1>1. PICK t : IsTally(t, f, p, w) /\ Taken(f, p, w) = t[m]
  BY TakenIs
<1>2. m \in Nat
  OBVIOUS
<1> DEFINE T == {n \in Nat : n <= m => Ends(t[n])}
<1>3. 0 \in T
  BY <1>1 DEF IsTally
<1>4. ASSUME NEW n \in T PROVE n + 1 \in T
  <2> SUFFICES ASSUME n + 1 <= m PROVE Ends(t[n + 1])
    OBVIOUS
  <2> DEFINE j == n + 1
             a == t[n]
             d == f[j]
  <2>1. n \in Nat /\ j \in 1..m /\ j - 1 = n /\ n \in 0..m /\ Ends(a)
    BY <1>2
  <2>2. d \in Delta /\ d \in Entries(f) /\ d.seq \in Nat /\ d.bytes \in Nat
    BY <2>1, DeltaIs DEF Entries
  <2>3. a \in Tally
    BY <1>1, <2>1 DEF IsTally
  <2>4. t[j] = IF \/ d.path # p \/ d.seq <= a.seen \/ d.seq - w > MaxSequenceJump
               THEN a ELSE [seen |-> d.seq, bytes |-> a.bytes + d.bytes]
    BY <1>1, <2>1 DEF IsTally
  <2> HIDE DEF j, a, d
  <2>5. CASE t[j] = a
    BY <2>1, <2>5 DEF j
  <2>6. CASE d.path = p /\ d.seq > a.seen /\ t[j] = [seen |-> d.seq, bytes |-> a.bytes + d.bytes]
    <3> DEFINE b == t[j]
    <3>1. b.seen = d.seq /\ b.bytes = a.bytes + d.bytes
      BY <2>6
    <3>2. a.seen \in Nat /\ a.bytes \in Nat /\ to[d] \in Nat
      BY <2>2, <2>3 DEF Tally
    <3>3. d.seq > w /\ base + b.bytes <= to[d]
      <4>1. CASE a = [seen |-> w, bytes |-> 0]
        <5>1. a.seen = w /\ a.bytes = 0
          BY <4>1
        <5>2. d.seq > w /\ base + d.bytes <= to[d]
          BY <2>2, <2>6, <5>1
        <5> HIDE DEF b
        <5> QED BY <2>2, <3>1, <5>1, <5>2
      <4>2. CASE ~(a = [seen |-> w, bytes |-> 0])
        <5>1. PICK e \in Entries(f) : e.path = p /\ e.seq > w /\ a.seen = e.seq /\ base + a.bytes <= to[e]
          BY <2>1, <4>2
        <5>2. e \in Delta /\ e.seq \in Nat /\ to[e] \in Nat
          <6>1. e \in Delta
            BY DEF Entries
          <6> QED BY <6>1, DeltaIs
        <5>3. to[e] + d.bytes <= to[d]
          BY <2>2, <2>6, <5>1, <5>2
        <5>4. d.seq > w
          BY <2>2, <2>6, <5>1, <5>2
        <5> DEFINE u == a.bytes
                   v == d.bytes
                   x == to[e]
                   y == to[d]
        <5>5. u \in Nat /\ v \in Nat /\ x \in Nat /\ y \in Nat /\ base + u <= x /\ x + v <= y
          BY <2>2, <3>2, <5>1, <5>2, <5>3
        <5>6. b.bytes = u + v
          BY <3>1
        <5> HIDE DEF b, u, v, x, y
        <5>7. base + (u + v) <= y
          BY <5>5
        <5> QED BY <5>4, <5>6, <5>7 DEF y
      <4> QED BY <4>1, <4>2
    <3> HIDE DEF b
    <3>4. Ends(b)
      BY <2>2, <2>6, <3>1, <3>3
    <3> QED BY <3>4 DEF b, j
  <2>7. t[j] = a \/ (d.path = p /\ d.seq > a.seen /\ t[j] = [seen |-> d.seq, bytes |-> a.bytes + d.bytes])
    <3>1. a.seen \in Nat
      BY <2>3 DEF Tally
    <3> QED BY <2>2, <2>4, <3>1
  <2> QED BY <2>5, <2>6, <2>7
<1>5. T = Nat
  <2> HIDE DEF T
  <2>1. T \in SUBSET Nat
    BY DEF T
  <2> QED BY <1>3, <1>4, <2>1, Induction
<1>6. Ends(t[m])
  BY <1>2, <1>5
<1> QED BY <1>1, <1>6

LEMMA BillingKeepsBooks ==
    ASSUME MeteringTypes, NEW p \in Paths, NEW pos \in Nat, NEW spos \in Nat, NEW to \in [Delta -> Nat],
           Books(p, pos, spos, to), NEW f \in frames, NEW b, b = Taken(f, p, watermark[p]),
           Of(p)' \subseteq Of(p),
           UNCHANGED <<counter, carried, nextSeq, last, stateFile, sampler, writeFails>>,
           watermark'[p] = b.seen, ledger'[p] = ledger[p] + b.bytes
    PROVE  Books(p, pos, spos, to)' /\ ledger'[p] \in Nat /\ ledger[p] <= ledger'[p] /\ ledger'[p] <= carried[p]
<1>1. /\ counter[p] \in Nat /\ carried[p] \in Nat /\ watermark[p] \in Nat
      /\ ledger[p] \in Nat /\ nextSeq[p] \in Nat /\ stateFile.nextSeq[p] \in Nat
  BY TypeFacts
<1>2. f \in Seq(Delta) /\ \A d \in Entries(f) : d.path = p => d \in Of(p)
  BY DEF Of, MeteringTypes
<1>3. Chain(p, to)
  BY DEF Books
<1>4. \/ b = [seen |-> watermark[p], bytes |-> 0]
      \/ \E d \in Entries(f) : d.path = p /\ d.seq > watermark[p] /\ b.seen = d.seq /\ ledger[p] + b.bytes <= to[d]
  <2>1. \A d \in Entries(f) : d.path = p /\ d.seq > watermark[p] => ledger[p] + d.bytes <= to[d]
    BY <1>2, <1>3 DEF Chain
  <2>2. \A d, e \in Entries(f) : d.path = p /\ e.path = p /\ d.seq < e.seq => to[d] + e.bytes <= to[e]
    BY <1>2, <1>3 DEF Chain
  <2> QED BY <1>1, <1>2, <2>1, <2>2, BilledEnds
<1>5. CASE b = [seen |-> watermark[p], bytes |-> 0]
  <2>1. watermark'[p] = watermark[p] /\ ledger'[p] = ledger[p]
    BY <1>1, <1>5
  <2>2. Chain(p, to)'
    BY <1>3, <2>1 DEF Chain
  <2>3. ASSUME NEW n, NEW x, Placed(p, n, x, to) PROVE Placed(p, n, x, to)'
    BY <2>1, <2>3 DEF Placed
  <2>4. ASSUME NEW l, NEW x, Read(p, l, x) PROVE Read(p, l, x)'
    BY <2>4 DEF Read
  <2>5. ledger[p] <= carried[p]
    BY <1>3 DEF Chain
  <2> QED BY <1>1, <2>1, <2>2, <2>3, <2>4, <2>5 DEF Books
<1>6. CASE ~(b = [seen |-> watermark[p], bytes |-> 0])
  <2>1. PICK d \in Entries(f) : d.path = p /\ d.seq > watermark[p] /\ b.seen = d.seq /\ ledger[p] + b.bytes <= to[d]
    BY <1>4, <1>6
  <2>2. d \in Of(p) /\ d.seq \in Nat /\ to[d] \in Nat /\ d \in Delta
    BY <1>2, <2>1, OfIs
  <2>3. b.bytes \in Nat /\ ledger'[p] = ledger[p] + b.bytes /\ watermark'[p] = d.seq /\ ledger'[p] <= to[d]
    BY <1>1, <1>2, <2>1, TakenIsTally DEF Tally
  <2>4. to[d] <= carried[p] /\ ledger'[p] \in Nat /\ ledger[p] <= ledger'[p] /\ ledger'[p] <= carried[p]
    BY <1>1, <1>3, <2>2, <2>3 DEF Chain
  <2>5. ASSUME NEW e \in Of(p)
        PROVE  e \in Delta /\ to[e] \in Nat /\ e.seq \in Nat /\ e.bytes \in Nat
               /\ (e.seq > watermark'[p] => ledger'[p] + e.bytes <= to[e])
    <3>1. e \in Delta /\ to[e] \in Nat /\ e.seq \in Nat /\ e.bytes \in Nat
      BY OfIs
    <3>2. e.seq > d.seq => to[d] + e.bytes <= to[e]
      BY <1>3, <2>2, <3>1 DEF Chain
    <3> QED BY <2>2, <2>3, <2>4, <3>1, <3>2
  <2>6. Chain(p, to)'
    BY <1>3, <2>4, <2>5 DEF Chain
  <2>7. ASSUME NEW n, NEW x \in Nat, Placed(p, n, x, to) PROVE Placed(p, n, x, to)'
    <3>1. d.seq <= n + 1 /\ (d.seq <= n => to[d] <= x)
      BY <2>2, <2>7 DEF Placed
    <3>2. d.seq <= n => ledger'[p] <= x
      BY <2>2, <2>3, <2>4, <3>1
    <3> QED BY <2>3, <2>7, <3>1, <3>2 DEF Placed
  <2>8. ASSUME NEW l, NEW x, Read(p, l, x) PROVE Read(p, l, x)'
    BY <2>8 DEF Read
  <2> QED BY <1>1, <2>4, <2>6, <2>7, <2>8 DEF Books
<1> QED BY <1>5, <1>6

(* A sample makes at most one delta of a path, and numbers it next.        *)
New(p) == [path |-> p, seq |-> nextSeq[p] + 1, bytes |-> counter[p] - last[p]]

LEMMA SampleMakes ==
    ASSUME MeteringTypes, NEW here \in SUBSET Paths, Sample(here), NEW p \in Paths
    PROVE  /\ \A d \in Of(p)' : d \in Of(p) \/ (Grew(p, here) /\ d = New(p))
           /\ nextSeq'[p] = IF Grew(p, here) THEN nextSeq[p] + 1 ELSE nextSeq[p]
           /\ last'[p] = IF p \in here THEN counter[p] ELSE last[p]
           /\ Grew(p, here) => /\ New(p) \in Delta /\ last[p] \in Nat /\ counter[p] > last[p]
<1> DEFINE fresh == Fresh(here)
           all == pending \o fresh
<1> HIDE DEF fresh, all
<1>1. fresh = Fresh(here) /\ all = pending \o fresh
  BY DEF fresh, all
<1>2. /\ fresh \in Seq(Delta)
      /\ \A i \in 1..Len(fresh) :
           /\ fresh[i].path \in Paths /\ Grew(fresh[i].path, here)
           /\ fresh[i].seq = nextSeq[fresh[i].path] + 1
           /\ fresh[i].bytes = counter[fresh[i].path] - last[fresh[i].path]
      /\ \A q \in Paths : Grew(q, here) => \E i \in 1..Len(fresh) : fresh[i].path = q
  BY FreshIs DEF fresh
<1>3. /\ all \in Seq(Delta) /\ Len(all) = Len(pending) + Len(fresh)
      /\ \A i \in 1..Len(pending) : all[i] = pending[i]
      /\ \A i \in 1..Len(fresh) : all[Len(pending) + i] = fresh[i]
  <2>1. Extended(all, pending, fresh)
    BY <1>1, SampleIs, Zenon
  <2> QED BY ONLY <2>1 DEF Extended
<1>4. PICK k \in 0..Len(all) : CutAt(all, fresh, k)
  BY <1>1, SampleIs, Zenon
<1>5. pending' = SubSeq(all, k + 1, Len(all)) /\ UNCHANGED <<bufferFile, frames>>
  BY <1>4 DEF CutAt, Sample, disk, wire
<1>6. Len(pending) \in Nat /\ Len(fresh) \in Nat /\ k \in Nat
  BY <1>2 DEF MeteringTypes
<1>7. ASSUME NEW i \in 1..Len(pending') PROVE pending'[i] \in Entries(pending) \cup Entries(fresh)
  <2>1. Len(pending') = Len(all) - k /\ pending'[i] = all[i + k]
    <3>1. /\ Len(SubSeq(all, k + 1, Len(all))) = Len(all) - k
          /\ \A j \in 1..(Len(all) - k) : SubSeq(all, k + 1, Len(all))[j] = all[j + k]
      BY <1>3, Halves
    <3> QED BY <1>5, <3>1
  <2> DEFINE j == i + k
  <2>2. j \in 1..Len(all)
    BY <1>3, <1>6, <2>1
  <2>3. CASE j <= Len(pending)
    <3>1. j \in 1..Len(pending)
      BY <1>6, <2>2, <2>3
    <3> HIDE DEF j
    <3>2. all[j] = pending[j]
      BY <1>3, <3>1
    <3> QED BY <2>1, <3>1, <3>2 DEF Entries, j
  <2>4. CASE ~(j <= Len(pending))
    <3> DEFINE l == j - Len(pending)
    <3>1. l \in 1..Len(fresh) /\ Len(pending) + l = j
      BY <1>3, <1>6, <2>2, <2>4
    <3> HIDE DEF j, l
    <3>2. all[Len(pending) + l] = fresh[l]
      BY <1>3, <3>1
    <3> QED BY <2>1, <3>1, <3>2 DEF Entries, j
  <2> QED BY <2>3, <2>4
<1>8. ASSUME NEW d \in Of(p)' PROVE d \in Of(p) \/ (Grew(p, here) /\ d = New(p))
  <2>1. d.path = p /\ (d \in Of(p) \/ d \in Entries(fresh))
    <3>1. Entries(pending)' \subseteq Entries(pending) \cup Entries(fresh)
      BY <1>7 DEF Entries
    <3>2. Entries(bufferFile)' = Entries(bufferFile)
          /\ (UNION {Entries(f) : f \in frames})' = UNION {Entries(f) : f \in frames}
      BY <1>5 DEF Entries
    <3> QED BY <3>1, <3>2 DEF Of
  <2>2. CASE d \in Entries(fresh)
    <3>1. PICK i \in 1..Len(fresh) : d = fresh[i]
      BY <2>2 DEF Entries
    <3>2. d \in Delta
      BY <1>2, <3>1
    <3>3. d = [path |-> d.path, seq |-> d.seq, bytes |-> d.bytes]
      BY <3>2, DeltaIs
    <3>4. Grew(p, here) /\ d.seq = nextSeq[p] + 1 /\ d.bytes = counter[p] - last[p]
      BY <1>2, <2>1, <3>1
    <3> QED BY <2>1, <3>3, <3>4 DEF New
  <2> QED BY <2>1, <2>2
<1>9. p \in PathsIn(fresh) <=> Grew(p, here)
  BY <1>2 DEF PathsIn
<1>10. nextSeq'[p] = IF Grew(p, here) THEN nextSeq[p] + 1 ELSE nextSeq[p]
  BY <1>9 DEF Sample, fresh
<1>11. last'[p] = IF p \in here THEN counter[p] ELSE last[p]
  BY DEF Sample
<1>12. ASSUME Grew(p, here) PROVE New(p) \in Delta /\ last[p] \in Nat /\ counter[p] > last[p]
  <2>1. last[p] \in Nat /\ counter[p] \in Nat /\ counter[p] > last[p] /\ nextSeq[p] \in Nat
    BY <1>12, TypeFacts DEF Grew, Reading
  <2>2. counter[p] - last[p] \in Nat \ {0} /\ nextSeq[p] + 1 \in Nat \ {0}
    BY <2>1
  <2> QED BY <2>1, <2>2 DEF New, Delta
<1> QED BY <1>8, <1>10, <1>11, <1>12

LEMMA SampleKeepsBooks ==
    ASSUME MeteringTypes, NEW here \in SUBSET Paths, Sample(here), NEW p \in Paths,
           NEW pos \in Nat, NEW spos \in Nat, NEW to \in [Delta -> Nat], Books(p, pos, spos, to)
    PROVE  InBooks(p)'
<1>1. /\ UNCHANGED <<counter, carried, watermark, ledger, stateFile, writeFails>>
      /\ sampler = "idle" /\ sampler' # "idle"
  BY DEF Sample, disk, database
<1>2. /\ counter[p] \in Nat /\ carried[p] \in Nat /\ watermark[p] \in Nat
      /\ ledger[p] \in Nat /\ nextSeq[p] \in Nat /\ stateFile.nextSeq[p] \in Nat
      /\ last[p] \in Nat \cup {None} /\ None \notin Nat
  BY TypeFacts, ConstantFacts DEF Reading
<1>3. \A d \in Of(p) : d \in Delta /\ to[d] \in Nat /\ d.seq \in Nat /\ d.bytes \in Nat
  BY OfIs
<1> DEFINE n == nextSeq[p]
<1>4. Chain(p, to) /\ Placed(p, n, pos, to) /\ Read(p, last[p], pos)
  BY DEF Books
<1>5. writeFails = 0 => /\ spos = pos /\ stateFile.nextSeq[p] = n /\ stateFile.last[p] = last[p]
  BY <1>1 DEF Books
<1>6. CASE ~Grew(p, here)
  <2> DEFINE pos2 == IF p \in here THEN carried[p] ELSE pos
  <2>1. Of(p)' \subseteq Of(p) /\ nextSeq'[p] = n /\ last'[p] = IF p \in here THEN counter[p] ELSE last[p]
    BY <1>6, SampleMakes
  <2>2. Chain(p, to)'
    BY <1>1, <1>4, <2>1 DEF Chain
  <2>3. pos2 \in Nat /\ pos <= pos2 /\ pos2 <= carried[p]
    BY <1>2, <1>4 DEF Placed
  <2> HIDE DEF n
  <2>4. Placed(p, n, pos2, to)
    <3> HIDE DEF pos2
    <3> QED BY <1>2, <1>3, <1>4, <2>3 DEF Placed
  <2>5. Read(p, last'[p], pos2)
    BY <1>2, <1>4, <2>1 DEF Read
  <2> HIDE DEF pos2
  <2>6. ASSUME NEW x, NEW y, Placed(p, y, x, to) PROVE Placed(p, y, x, to)'
    BY <1>1, <2>1, <2>6 DEF Placed
  <2>7. ASSUME NEW x, NEW l, Read(p, l, x) PROVE Read(p, l, x)'
    BY <1>1, <2>7 DEF Read
  <2>8. PICK y \in Nat : y = pos2
    BY <2>3
  <2>9. Placed(p, nextSeq[p], y, to)' /\ Read(p, last[p], y)'
    BY <2>1, <2>4, <2>5, <2>6, <2>7, <2>8 DEF n
  <2>10. writeFails' = 0 => Placed(p, stateFile.nextSeq[p], spos, to)' /\ Read(p, stateFile.last[p], spos)'
    BY <1>1, <2>6, <2>7 DEF Books
  <2>11. Books(p, y, spos, to)'
    BY <1>1, <2>2, <2>9, <2>10 DEF Books
  <2> QED BY <2>11 DEF InBooks
<1>7. CASE Grew(p, here)
  <2>1. PICK new \in Delta : new = New(p)
    BY <1>7, SampleMakes
  <2>2. PICK end \in Nat : end = carried[p]
    BY <1>2
  <2> DEFINE to2 == [to EXCEPT ![new] = end]
  <2>3. /\ new.seq = n + 1 /\ new.bytes = counter[p] - last[p] /\ new.bytes \in Nat /\ new.seq \in Nat
        /\ last[p] \in Nat /\ pos + new.bytes <= end
    <3>1. new.seq = n + 1 /\ new.bytes = counter[p] - last[p]
      BY <2>1 DEF New
    <3>2. last[p] \in Nat /\ counter[p] > last[p]
      BY <1>7, SampleMakes
    <3>3. counter[p] + pos <= carried[p] + last[p]
      BY <1>2, <1>4, <3>2 DEF Read
    <3>4. pos + (counter[p] - last[p]) <= carried[p]
      BY <1>2, <3>2, <3>3
    <3> QED BY <1>2, <2>2, <3>1, <3>2, <3>4
  <2>4. /\ to2 \in [Delta -> Nat] /\ to2[new] = end
        /\ \A d \in Delta : d # new => to2[d] = to[d]
    BY <2>1
  <2> HIDE DEF to2, n
  <2>5. /\ pos <= end /\ ledger[p] <= end /\ watermark[p] <= n + 1
        /\ (watermark[p] <= n => ledger[p] <= pos)
    BY <1>4, <2>2 DEF Placed, Chain
  <2>6. ASSUME NEW d \in Of(p)'
        PROVE  /\ d \in Delta /\ d.seq \in Nat /\ d.bytes \in Nat /\ d.seq <= n + 1 /\ (d = new \/ d \in Of(p))
               /\ to2[d] \in Nat /\ to2[d] <= end
               /\ (d.seq <= n => to2[d] = to[d] /\ to2[d] <= pos)
               /\ d.bytes <= to2[d]
    <3>1. d = new \/ d \in Of(p)
      BY <2>1, SampleMakes
    <3>2. CASE d = new
      BY <1>2, <2>2, <2>3, <2>4, <3>2 DEF n
    <3>3. CASE d # new
      <4>1. d \in Of(p) /\ d \in Delta /\ to2[d] = to[d] /\ d.seq \in Nat /\ d.bytes \in Nat
        BY <1>3, <2>4, <3>1, <3>3
      <4>2. d.bytes <= to[d] /\ to[d] <= carried[p] /\ d.seq <= n + 1 /\ (d.seq <= n => to[d] <= pos)
        BY <1>4, <4>1 DEF Chain, Placed
      <4> QED BY <2>2, <2>4, <4>1, <4>2
    <3> QED BY <3>2, <3>3
  <2>7. Chain(p, to2)'
    <3>1. ASSUME NEW d \in Of(p)', d.seq > watermark[p] PROVE ledger[p] + d.bytes <= to2[d]
      <4>1. CASE d = new
        <5>1. watermark[p] <= n
          BY <1>2, <2>3, <3>1, <4>1 DEF n
        <5> QED BY <1>2, <2>3, <2>4, <2>5, <4>1, <5>1
      <4>2. CASE d # new
        BY <1>4, <2>4, <2>6, <3>1, <4>2 DEF Chain
      <4> QED BY <4>1, <4>2
    <3>2. ASSUME NEW d \in Of(p)', NEW e \in Of(p)', d.seq < e.seq PROVE to2[d] + e.bytes <= to2[e]
      <4>1. d.seq <= n /\ to2[d] = to[d] /\ to2[d] <= pos /\ d # new
        BY <1>2, <2>3, <2>6, <3>2 DEF n
      <4>2. CASE e = new
        BY <2>3, <2>4, <2>6, <4>1, <4>2
      <4>3. CASE e # new
        <5>1. d \in Of(p) /\ e \in Of(p) /\ to2[e] = to[e]
          BY <2>4, <2>6, <4>1, <4>3
        <5> QED BY <1>4, <3>2, <4>1, <5>1 DEF Chain
      <4> QED BY <4>2, <4>3
    <3>3. /\ ledger'[p] = ledger[p] /\ carried'[p] = end /\ watermark'[p] = watermark[p]
      BY <1>1, <2>2
    <3> QED BY <2>5, <2>6, <3>1, <3>2, <3>3 DEF Chain
  <2>8. nextSeq'[p] = n + 1 /\ last'[p] = counter[p] /\ p \in here
    BY <1>7, SampleMakes DEF Grew, n
  <2>9. Placed(p, nextSeq[p], end, to2)' /\ Read(p, last[p], end)'
    <3>1. \A d \in Of(p)' : d.seq <= (n + 1) + 1 /\ (d.seq <= n + 1 => to2[d] <= end)
      BY <1>2, <2>6 DEF n
    <3>2. watermark'[p] <= (n + 1) + 1 /\ (watermark'[p] <= n + 1 => ledger'[p] <= end) /\ end <= carried'[p]
      BY <1>1, <1>2, <2>2, <2>5 DEF n
    <3>3. Placed(p, nextSeq[p], end, to2)'
      BY <2>8, <3>1, <3>2 DEF Placed
    <3>4. Read(p, last[p], end)'
      BY <1>1, <1>2, <2>2, <2>8 DEF Read
    <3> QED BY <3>3, <3>4
  <2>10. writeFails' = 0 => Placed(p, stateFile.nextSeq[p], spos, to2)' /\ Read(p, stateFile.last[p], spos)'
    <3> SUFFICES ASSUME writeFails = 0
                 PROVE  Placed(p, stateFile.nextSeq[p], spos, to2)' /\ Read(p, stateFile.last[p], spos)'
      BY <1>1
    <3>1. spos = pos /\ stateFile'.nextSeq[p] = n /\ stateFile'.last[p] = last[p]
      BY <1>1, <1>5
    <3>2. \A d \in Of(p)' : d.seq <= n + 1 /\ (d.seq <= n => to2[d] <= spos)
      BY <2>6, <3>1
    <3>3. watermark'[p] <= n + 1 /\ (watermark'[p] <= n => ledger'[p] <= spos) /\ spos <= carried'[p]
      BY <1>1, <2>2, <2>5, <3>1
    <3>4. Placed(p, stateFile.nextSeq[p], spos, to2)'
      BY <3>1, <3>2, <3>3 DEF Placed
    <3>5. Read(p, stateFile.last[p], spos)'
      BY <1>1, <1>4, <3>1 DEF Read
    <3> QED BY <3>4, <3>5
  <2>11. Books(p, end, spos, to2)'
    BY <1>1, <2>7, <2>9, <2>10 DEF Books
  <2> QED BY <2>4, <2>11 DEF InBooks
<1> QED BY <1>6, <1>7

(* A step between the samples makes no new deltas.                         *)
LEMMA OnlySamplesMake ==
    ASSUME MeteringTypes, MeteringNext, \A here \in SUBSET Paths : ~Sample(here), NEW p
    PROVE  Of(p)' \subseteq Of(p)
<1>1. /\ Entries(pending)' \subseteq Entries(pending) \cup Entries(bufferFile)
      /\ Entries(bufferFile)' \subseteq Entries(pending) \cup Entries(bufferFile)
      /\ \A f \in frames' : f \in frames \/ Entries(f) \subseteq Entries(pending)
  <2>1. CASE UNCHANGED <<pending, bufferFile, frames>>
    BY <2>1 DEF Entries
  <2>2. CASE SamplePersists \/ AckPersists
    BY <2>2 DEF SamplePersists, AckPersists, Write, Entries, meter, wire
  <2>3. CASE Crash
    BY <2>3 DEF Crash, Entries, disk
  <2>4. CASE Report
    <3>1. pending \in Seq(Delta) /\ pending # <<>> /\ frames' = frames \cup {PendingBatch}
          /\ UNCHANGED <<pending, bufferFile>>
      BY <2>4 DEF Report, MeteringTypes, meter, disk
    <3>2. PICK b : b = PendingBatch
      OBVIOUS
    <3>3. PICK from : Picked(b, from)
      BY <3>1, <3>2, BatchIs, Zenon
    <3>4. Entries(b) \subseteq Entries(pending)
      BY <3>3 DEF Picked, Entries, Injection
    <3> QED BY <3>1, <3>2, <3>4 DEF Entries
  <2>5. CASE frames' \subseteq frames /\ UNCHANGED <<pending, bufferFile>>
    BY <2>5 DEF Entries
  <2>6. ASSUME NEW a \in acks, AckApplied(a)
        PROVE  /\ Entries(pending)' \subseteq Entries(pending)
               /\ UNCHANGED <<bufferFile, frames>>
    <3>1. pending' = Unacked(pending, a) /\ UNCHANGED <<bufferFile, frames>>
      BY <2>6 DEF AckApplied, disk
    <3>2. Entries(Unacked(pending, a)) \subseteq Entries(pending)
      BY UnackedWithin DEF MeteringTypes
    <3>3. Entries(pending)' = Entries(pending')
      BY DEF Entries
    <3> QED BY <3>1, <3>2, <3>3
  <2>7. ASSUME NEW a \in acks, AckApplied(a)
        PROVE  /\ Entries(pending)' \subseteq Entries(pending) \cup Entries(bufferFile)
               /\ Entries(bufferFile)' \subseteq Entries(pending) \cup Entries(bufferFile)
               /\ \A f \in frames' : f \in frames \/ Entries(f) \subseteq Entries(pending)
    BY <2>6, <2>7 DEF Entries
  <2>8. ASSUME NEW q \in Paths, Traffic(q) \/ CounterReset(q) PROVE UNCHANGED <<pending, bufferFile, frames>>
    BY <2>8 DEF Traffic, CounterReset, meter, disk, wire
  <2>9. SampleSaves => UNCHANGED <<pending, bufferFile, frames>>
    BY DEF SampleSaves, meter, wire
  <2>10. Disconnect => frames' \subseteq frames /\ UNCHANGED <<pending, bufferFile>>
    BY DEF Disconnect, meter, disk
  <2>11. ASSUME NEW f, NEW unread, NEW failed, ApplyUsage(f, unread, failed)
         PROVE  frames' \subseteq frames /\ UNCHANGED <<pending, bufferFile>>
    BY <2>11 DEF ApplyUsage, meter, disk
  <2> QED BY <2>1, <2>2, <2>3, <2>4, <2>5, <2>7, <2>8, <2>9, <2>10, <2>11, Zenon DEF MeteringNext
<1>2. (UNION {Entries(f) : f \in frames})' \subseteq Entries(pending) \cup UNION {Entries(f) : f \in frames}
  <2>1. (UNION {Entries(f) : f \in frames})' = UNION {Entries(f) : f \in frames'}
    BY DEF Entries
  <2> QED BY <1>1, <2>1
<1> QED BY <1>1, <1>2 DEF Of

LEMMA BooksStep ==
    ASSUME MeteringTypes, MeteringTypes', BooksInv, [MeteringNext]_meteringVars
    PROVE  BooksInv'
<1>1. SUFFICES ASSUME FilesKept', NEW p \in Paths PROVE InBooks(p)'
  BY DEF BooksInv
<1>2. FilesKept /\ (Crash => writeFails = 0)
  <2>0. writeFails \in Nat /\ crashes \in Nat
    BY TypeFacts
  <2>1. writeFails' \in {writeFails, writeFails + 1} /\ crashes' \in {crashes, crashes + 1}
    <3>1. CASE UNCHANGED <<writeFails, crashes>>
      BY <3>1
    <3>2. CASE SamplePersists \/ SampleSaves \/ AckPersists
      BY <3>2 DEF SamplePersists, SampleSaves, AckPersists, Write
    <3>3. CASE Crash
      BY <3>3 DEF Crash
    <3> QED
      BY <3>1, <3>2, <3>3 DEF MeteringNext, meteringVars, Traffic, CounterReset, Sample, Report,
         Disconnect, ApplyUsage, AckApplied
  <2>2. Crash => crashes' = crashes + 1 /\ writeFails' = writeFails
    BY DEF Crash
  <2> QED BY <1>1, <2>0, <2>1, <2>2 DEF FilesKept
<1>3. PICK pos \in Nat, spos \in Nat, to \in [Delta -> Nat] : Books(p, pos, spos, to)
  BY <1>2 DEF BooksInv, InBooks
<1>4. /\ counter[p] \in Nat /\ carried[p] \in Nat /\ counter' \in [Paths -> Nat] /\ carried' \in [Paths -> Nat]
      /\ writeFails \in Nat /\ counter \in [Paths -> Nat] /\ carried \in [Paths -> Nat]
  BY TypeFacts DEF MeteringTypes
<1> DEFINE Calm ==
             /\ UNCHANGED <<watermark, ledger, nextSeq, last>>
             /\ carried[p] <= carried'[p] /\ counter'[p] + carried[p] <= counter[p] + carried'[p]
             /\ writeFails' = 0 => /\ writeFails = 0 /\ stateFile' = stateFile
                                   /\ sampler' = "idle" => sampler = "idle"
<1>5. ASSUME Calm, Of(p)' \subseteq Of(p) PROVE InBooks(p)'
  <2>1. Books(p, pos, spos, to)'
    BY <1>3, <1>4, <1>5, CopiesKeepBooks
  <2> QED BY <2>1 DEF InBooks
<1>6. ASSUME NEW q \in Paths, Traffic(q) PROVE Calm
  <2>1. /\ UNCHANGED <<watermark, ledger, nextSeq, last, stateFile, writeFails, sampler>>
        /\ carried' = [carried EXCEPT ![q] = @ + 1] /\ counter' = [counter EXCEPT ![q] = @ + 1]
    BY <1>6 DEF Traffic, meter, disk, database
  <2>2. \/ carried'[p] = carried[p] /\ counter'[p] = counter[p]
        \/ carried'[p] = carried[p] + 1 /\ counter'[p] = counter[p] + 1
    BY <1>4, <2>1
  <2> QED BY <1>4, <2>1, <2>2
<1>7. ASSUME NEW q \in Paths, CounterReset(q) PROVE Calm
  <2>1. /\ UNCHANGED <<watermark, ledger, nextSeq, last, stateFile, writeFails, sampler, carried>>
        /\ counter' = [counter EXCEPT ![q] = 0]
    BY <1>7 DEF CounterReset, meter, disk, database
  <2>2. counter'[p] = counter[p] \/ counter'[p] = 0
    BY <1>4, <2>1
  <2> QED BY <1>4, <2>1, <2>2
<1>8. ASSUME NEW here \in SUBSET Paths, Sample(here) PROVE InBooks(p)'
  BY <1>3, <1>8, SampleKeepsBooks
<1>9. CASE SamplePersists \/ AckPersists
  <2>1. Calm
    <3>1. /\ UNCHANGED <<counter, carried, watermark, ledger, nextSeq, last, stateFile>>
          /\ writeFails' \in {writeFails, writeFails + 1} /\ (sampler' = sampler \/ sampler' = "save")
      BY <1>9 DEF SamplePersists, AckPersists, Write, meter, database, history
    <3> QED BY <1>4, <3>1
  <2>2. \A here \in SUBSET Paths : ~Sample(here)
    <3>1. bufferFile' = pending \/ writeFails' = writeFails + 1
      BY <1>9 DEF SamplePersists, AckPersists, Write
    <3>2. acking' # acking \/ sampler # "idle"
      BY <1>9 DEF SamplePersists, AckPersists
    <3> QED BY <3>2 DEF Sample
  <2> QED BY <1>5, <1>9, <2>1, <2>2, OnlySamplesMake DEF MeteringNext
<1>10. CASE SampleSaves
  <2>1. /\ UNCHANGED <<counter, carried, watermark, ledger, nextSeq, last, pending, bufferFile, frames>>
        /\ sampler = "save"
        /\ \/ stateFile' = [last |-> last, nextSeq |-> nextSeq] /\ writeFails' = writeFails
           \/ writeFails' = writeFails + 1
    BY <1>10 DEF SampleSaves, Write, meter, wire, database, history
  <2>2. Of(p)' = Of(p)
    BY <2>1 DEF Of, Entries
  <2>3. CASE writeFails' = writeFails + 1
    <3>1. Calm
      BY <1>4, <2>1, <2>3
    <3> QED BY <1>5, <2>2, <3>1
  <2>4. CASE stateFile' = [last |-> last, nextSeq |-> nextSeq]
    <3>1. stateFile'.last[p] = last'[p] /\ stateFile'.nextSeq[p] = nextSeq'[p]
      BY <2>1, <2>4
    <3>2. Chain(p, to)' /\ Placed(p, nextSeq[p], pos, to)' /\ Read(p, last[p], pos)'
      BY <1>3, <2>1, <2>2 DEF Books, Chain, Placed, Read
    <3>3. Placed(p, stateFile.nextSeq[p], pos, to)' /\ Read(p, stateFile.last[p], pos)'
      BY <3>1, <3>2
    <3>4. Books(p, pos, pos, to)'
      BY <3>1, <3>2, <3>3 DEF Books
    <3> QED BY <3>4 DEF InBooks
  <2> QED BY <2>1, <2>3, <2>4
<1>11. CASE Crash
  <2>1. /\ UNCHANGED <<counter, carried, watermark, ledger, stateFile, writeFails>> /\ writeFails = 0
        /\ last' = stateFile.last /\ nextSeq' = stateFile.nextSeq
    BY <1>2, <1>11 DEF Crash, disk, database
  <2>2. Of(p)' \subseteq Of(p)
    <3>1. pending' = bufferFile /\ bufferFile' = bufferFile /\ frames' \subseteq frames
      BY <1>11 DEF Crash, disk
    <3>2. Entries(pending)' = Entries(bufferFile) /\ Entries(bufferFile)' = Entries(bufferFile)
          /\ (UNION {Entries(f) : f \in frames})' \subseteq UNION {Entries(f) : f \in frames}
      BY <3>1 DEF Entries
    <3> QED BY <3>2 DEF Of
  <2>3. Chain(p, to) /\ Placed(p, stateFile.nextSeq[p], spos, to) /\ Read(p, stateFile.last[p], spos)
    BY <1>3, <2>1 DEF Books
  <2>4. Chain(p, to)' /\ Placed(p, stateFile.nextSeq[p], spos, to)' /\ Read(p, stateFile.last[p], spos)'
    BY <2>1, <2>2, <2>3 DEF Chain, Placed, Read
  <2>5. stateFile'.last[p] = last'[p] /\ stateFile'.nextSeq[p] = nextSeq'[p]
    BY <2>1
  <2>6. Placed(p, nextSeq[p], spos, to)' /\ Read(p, last[p], spos)'
    BY <2>4, <2>5
  <2>7. Books(p, spos, spos, to)'
    BY <2>4, <2>5, <2>6 DEF Books
  <2> QED BY <2>7 DEF InBooks
<1>12. CASE Report \/ Disconnect \/ \E a \in acks : AckApplied(a)
  <2>1. /\ UNCHANGED <<counter, carried, watermark, ledger, nextSeq, last, stateFile, sampler, writeFails>>
    BY <1>12 DEF Report, Disconnect, AckApplied, meter, database, history, disk
  <2>2. Calm
    BY <1>4, <2>1
  <2>3. \A here \in SUBSET Paths : ~Sample(here)
    BY <2>1 DEF Sample
  <2> QED BY <1>5, <1>12, <2>2, <2>3, OnlySamplesMake DEF MeteringNext
<1>13. ASSUME NEW f \in frames, NEW unread \in SUBSET (PathsIn(f) \ Unreadable),
              NEW failed \in SUBSET (PathsIn(f) \ (Unreadable \cup unread)), ApplyUsage(f, unread, failed)
       PROVE  InBooks(p)'
  <2> DEFINE read == PathsIn(f) \ (unread \cup Unreadable)
             b == [q \in read |-> Taken(f, q, watermark[q])]
             done == read \ failed
  <2>1. /\ watermark' = [q \in Paths |-> IF q \in done THEN b[q].seen ELSE watermark[q]]
        /\ ledger' = [q \in Paths |-> IF q \in done THEN ledger[q] + b[q].bytes ELSE ledger[q]]
        /\ UNCHANGED <<counter, carried, nextSeq, last, stateFile, sampler, writeFails, pending, bufferFile>>
        /\ frames' = frames \ {f}
    BY <1>13 DEF ApplyUsage, Committed, meter, disk, history
  <2>2. Of(p)' \subseteq Of(p)
    <3>1. Entries(pending)' = Entries(pending) /\ Entries(bufferFile)' = Entries(bufferFile)
          /\ (UNION {Entries(g) : g \in frames})' \subseteq UNION {Entries(g) : g \in frames}
      BY <2>1 DEF Entries
    <3> QED BY <3>1 DEF Of
  <2>3. CASE p \in done
    <3>1. b[p] = Taken(f, p, watermark[p])
      BY <2>3
    <3>2. watermark'[p] = Taken(f, p, watermark[p]).seen
          /\ ledger'[p] = ledger[p] + Taken(f, p, watermark[p]).bytes
      BY <2>1, <2>3, <3>1
    <3>3. Books(p, pos, spos, to)'
      BY <1>3, <2>1, <2>2, <3>2, BillingKeepsBooks
    <3> QED BY <3>3 DEF InBooks
  <2>4. CASE p \notin done
    <3>1. watermark'[p] = watermark[p] /\ ledger'[p] = ledger[p]
      BY <2>1, <2>4
    <3>2. Books(p, pos, spos, to)'
      BY <1>3, <2>1, <2>2, <3>1 DEF Books, Chain, Placed, Read
    <3> QED BY <3>2 DEF InBooks
  <2> QED BY <2>3, <2>4
<1>14. CASE UNCHANGED meteringVars
  <2>1. Of(p)' = Of(p)
    BY <1>14 DEF meteringVars, meter, disk, wire, Of, Entries
  <2>2. Books(p, pos, spos, to)'
    BY <1>3, <1>14, <2>1 DEF meteringVars, meter, disk, wire, database, history, Books, Chain, Placed, Read
  <2> QED BY <2>2 DEF InBooks
<1>15. ASSUME NEW q \in Paths, Traffic(q) \/ CounterReset(q) PROVE InBooks(p)'
  <2>1. Calm
    BY <1>6, <1>7, <1>15
  <2>2. Of(p)' = Of(p)
    BY <1>15 DEF Traffic, CounterReset, meter, disk, wire, Of, Entries
  <2> QED BY <1>5, <2>1, <2>2
<1> QED BY <1>8, <1>9, <1>10, <1>11, <1>12, <1>13, <1>14, <1>15, Zenon DEF MeteringNext

LEMMA BooksOpen == MeteringInit => BooksInv
<1> SUFFICES ASSUME MeteringInit, NEW p \in Paths PROVE InBooks(p)
  BY DEF BooksInv
<1>1. /\ counter[p] = 0 /\ carried[p] = 0 /\ nextSeq[p] = 0 /\ watermark[p] = 0 /\ ledger[p] = 0
      /\ last[p] = None /\ stateFile.last[p] = None /\ stateFile.nextSeq[p] = 0
      /\ pending = <<>> /\ bufferFile = <<>> /\ frames = {}
  BY DEF MeteringInit
<1>2. Of(p) = {}
  <2>1. Entries(pending) = {} /\ Entries(bufferFile) = {}
    BY <1>1 DEF Entries
  <2> QED BY <1>1, <2>1 DEF Of
<1> DEFINE to == [d \in Delta |-> 0]
<1>3. to \in [Delta -> Nat]
  OBVIOUS
<1>4. Books(p, 0, 0, to)
  BY <1>1, <1>2 DEF Books, Chain, Placed, Read
<1> QED BY <1>3, <1>4 DEF InBooks

(* A path is never billed more than it carried, and nothing billed is      *)
(* taken back: for any number of paths, buffer, batch, faults and reports  *)
(* in flight, and whatever order they are read in.                         *)
THEOREM BilledAtMostOnce == MeteringSpec => ImplementsLedger
<1>1. MeteringInit => Bill!Init
  BY DEF MeteringInit, Bill!Init
<1> DEFINE Step == FilesKept => Bill!Next
<1>2. MeteringTypes /\ MeteringTypes' /\ BooksInv /\ [MeteringNext]_meteringVars => [Step]_<<carried, ledger>>
  <2> SUFFICES ASSUME MeteringTypes, MeteringTypes', BooksInv, [MeteringNext]_meteringVars, FilesKept
               PROVE  Bill!Next \/ UNCHANGED <<carried, ledger>>
    OBVIOUS
  <2>1. ASSUME NEW p \in Paths, Traffic(p) PROVE Bill!Next
    <3>1. Bill!Carry(p)
      BY <2>1 DEF Traffic, Bill!Carry, database
    <3> QED BY <3>1 DEF Bill!Next
  <2>2. ASSUME NEW f \in frames, NEW unread \in SUBSET (PathsIn(f) \ Unreadable),
               NEW failed \in SUBSET (PathsIn(f) \ (Unreadable \cup unread)), ApplyUsage(f, unread, failed)
        PROVE  Bill!Next
    <3> DEFINE read == PathsIn(f) \ (unread \cup Unreadable)
               b == [q \in read |-> Taken(f, q, watermark[q])]
               done == read \ failed
    <3>1. /\ watermark' = [q \in Paths |-> IF q \in done THEN b[q].seen ELSE watermark[q]]
          /\ ledger' = [q \in Paths |-> IF q \in done THEN ledger[q] + b[q].bytes ELSE ledger[q]]
          /\ UNCHANGED <<counter, carried, nextSeq, last, stateFile, sampler, writeFails, pending, bufferFile>>
          /\ frames' = frames \ {f}
      BY <2>2 DEF ApplyUsage, Committed, meter, disk, history
    <3>2. ASSUME NEW p \in Paths PROVE ledger'[p] \in Nat /\ ledger[p] <= ledger'[p] /\ ledger'[p] <= carried[p]
      <4>1. PICK pos \in Nat, spos \in Nat, to \in [Delta -> Nat] : Books(p, pos, spos, to)
        BY DEF BooksInv, InBooks
      <4>2. CASE p \in done
        <5>1. b[p] = Taken(f, p, watermark[p])
          BY <4>2
        <5>2. watermark'[p] = Taken(f, p, watermark[p]).seen
              /\ ledger'[p] = ledger[p] + Taken(f, p, watermark[p]).bytes
          BY <3>1, <4>2, <5>1
        <5>3. Of(p)' \subseteq Of(p)
          <6>1. Entries(pending)' = Entries(pending) /\ Entries(bufferFile)' = Entries(bufferFile)
                /\ (UNION {Entries(g) : g \in frames})' \subseteq UNION {Entries(g) : g \in frames}
            BY <3>1 DEF Entries
          <6> QED BY <6>1 DEF Of
        <5> QED BY <3>1, <4>1, <5>2, <5>3, BillingKeepsBooks
      <4>3. CASE p \notin done
        <5>1. ledger'[p] = ledger[p]
          BY <3>1, <4>3
        <5>2. ledger[p] \in Nat /\ ledger[p] <= carried[p]
          BY <4>1, TypeFacts DEF Books, Chain
        <5> QED BY <5>1, <5>2
      <4> QED BY <4>2, <4>3
    <3>3. \A p \in Paths : ledger'[p] \in ledger[p]..carried[p]
      BY <3>2, TypeFacts
    <3>4. DOMAIN ledger' = Paths /\ UNCHANGED carried
      BY <3>1
    <3> QED BY <3>3, <3>4 DEF Bill!Next, Bill!Bill
  <2>3. CASE UNCHANGED <<carried, ledger>>
    BY <2>3
  <2> QED
    BY <2>1, <2>2, <2>3 DEF MeteringNext, meteringVars, CounterReset, Sample, SamplePersists, SampleSaves, Crash,
       Report, Disconnect, AckApplied, AckPersists, history, database
<1> QED
  BY <1>1, <1>2, MeteringStarts, MeteringTyped, BooksOpen, BooksStep, PTL DEF MeteringSpec, ImplementsLedger

-----------------------------------------------------------------------------
(* Sums of deltas.                                                         *)

Counts(d, p, w) == IF d.path = p /\ d.seq > w THEN d.bytes ELSE 0

(* The running sums, place by place.                                       *)
LEMMA SumStarts ==
    ASSUME NEW s \in Seq(Delta), NEW p, NEW w, NEW f, IsSum(f, s, p, w)
    PROVE  f[0] = 0 /\ \A n \in 0..Len(s) : f[n] \in Nat
BY DEF IsSum

Adds(f, s, p, w, n) ==
    /\ n + 1 \in 1..Len(s) /\ s[n + 1] \in Delta /\ f[n] \in Nat
    /\ Counts(s[n + 1], p, w) \in Nat /\ f[n + 1] = f[n] + Counts(s[n + 1], p, w)

LEMMA SumSteps ==
    ASSUME NEW s \in Seq(Delta), NEW p, NEW w, NEW f, IsSum(f, s, p, w), NEW n \in Nat, n + 1 <= Len(s)
    PROVE  Adds(f, s, p, w, n)
<1>1. n + 1 \in 1..Len(s) /\ n \in 0..Len(s) /\ (n + 1) - 1 = n
  OBVIOUS
<1>2. s[n + 1] \in Delta /\ f[n] \in Nat
  BY <1>1 DEF IsSum
<1>3. s[n + 1].bytes \in Nat
  BY <1>2, DeltaIs
<1>4. Counts(s[n + 1], p, w) \in Nat
  BY <1>3 DEF Counts
<1>5. f[n + 1] = IF s[n + 1].path = p /\ s[n + 1].seq > w THEN f[n] + s[n + 1].bytes ELSE f[n]
  BY <1>1 DEF IsSum
<1> QED BY <1>1, <1>2, <1>3, <1>4, <1>5 DEF Counts, Adds

(* One sequence after the other.                                           *)
Joined(u, s, t) ==
    /\ Len(u) = Len(s) + Len(t)
    /\ \A i \in 1..Len(s) : u[i] = s[i]
    /\ \A i \in 1..Len(t) : u[Len(s) + i] = t[i]

LEMMA SumConcat ==
    ASSUME NEW s \in Seq(Delta), NEW t \in Seq(Delta), NEW u \in Seq(Delta), NEW p, NEW w,
           Joined(u, s, t)
    PROVE  BytesAbove(u, p, w) = BytesAbove(s, p, w) + BytesAbove(t, p, w)
<1> DEFINE k == Len(s)
           m == Len(t)
<1>1. PICK f : IsSum(f, u, p, w) /\ BytesAbove(u, p, w) = f[Len(u)]
  BY BytesAboveIs
<1>2. PICK g : IsSum(g, s, p, w) /\ BytesAbove(s, p, w) = g[k]
  BY BytesAboveIs
<1>3. PICK h : IsSum(h, t, p, w) /\ BytesAbove(t, p, w) = h[m]
  BY BytesAboveIs
<1>4. k \in Nat /\ m \in Nat /\ Len(u) = k + m
  BY DEF Joined
<1> DEFINE S == {n \in Nat : n <= k => f[n] = g[n]}
<1>5. S = Nat
  <2>1. 0 \in S
    BY <1>1, <1>2, SumStarts
  <2>2. ASSUME NEW n \in S PROVE n + 1 \in S
    <3> SUFFICES ASSUME n + 1 <= k PROVE f[n + 1] = g[n + 1]
      OBVIOUS
    <3>1. n \in Nat /\ n + 1 <= Len(u) /\ n + 1 <= Len(s) /\ n + 1 \in 1..k /\ f[n] = g[n]
      BY <1>4
    <3>2. u[n + 1] = s[n + 1]
      BY <3>1 DEF Joined
    <3>3. f[n + 1] = f[n] + Counts(u[n + 1], p, w) /\ g[n + 1] = g[n] + Counts(s[n + 1], p, w)
      <4>1. Adds(f, u, p, w, n) /\ Adds(g, s, p, w, n)
        <5> HIDE DEF k, m, S
        <5> QED BY <1>1, <1>2, <3>1, SumSteps, Zenon
      <4> QED BY <4>1 DEF Adds
    <3> QED BY <3>1, <3>2, <3>3
  <2> HIDE DEF S
  <2>3. S \in SUBSET Nat
    BY DEF S
  <2> QED BY <2>1, <2>2, <2>3, Induction
<1> DEFINE T == {n \in Nat : n <= m => f[k + n] = g[k] + h[n]}
<1>6. g[k] \in Nat /\ h[0] = 0
  BY <1>2, <1>3, <1>4, SumStarts
<1>7. T = Nat
  <2>1. 0 \in T
    <3>1. k \in S
      BY <1>4, <1>5
    <3>2. f[k] = g[k] /\ k + 0 = k
      BY <1>4, <3>1
    <3>3. f[k + 0] = g[k] + h[0]
      BY <1>6, <3>2
    <3> QED BY <3>3
  <2>2. ASSUME NEW n \in T PROVE n + 1 \in T
    <3> SUFFICES ASSUME n + 1 <= m PROVE f[k + (n + 1)] = g[k] + h[n + 1]
      OBVIOUS
    <3> DEFINE j == k + n
    <3>1. n \in Nat /\ j \in Nat /\ j + 1 <= Len(u) /\ n + 1 \in 1..m /\ f[j] = g[k] + h[n] /\ j + 1 = k + (n + 1)
      BY <1>4
    <3>2. u[k + (n + 1)] = t[n + 1]
      BY <3>1 DEF Joined
    <3> HIDE DEF j
    <3>3. /\ f[j + 1] = f[j] + Counts(u[j + 1], p, w) /\ h[n] \in Nat
          /\ h[n + 1] = h[n] + Counts(t[n + 1], p, w) /\ Counts(t[n + 1], p, w) \in Nat
      <4>1. f[j + 1] = f[j] + Counts(u[j + 1], p, w)
        <5> HIDE DEF k, m, T, S
        <5>1. Adds(f, u, p, w, j)
          BY <1>1, <3>1, SumSteps, Zenon
        <5> QED BY <5>1 DEF Adds
      <4>2. h[n] \in Nat /\ h[n + 1] = h[n] + Counts(t[n + 1], p, w) /\ Counts(t[n + 1], p, w) \in Nat
        BY <1>3, <3>1, SumSteps DEF Adds
      <4> QED BY <4>1, <4>2
    <3> DEFINE c == Counts(t[n + 1], p, w)
               x == g[k]
               y == h[n]
    <3>4. c \in Nat /\ x \in Nat /\ y \in Nat /\ f[k + (n + 1)] = (x + y) + c /\ h[n + 1] = y + c
      BY <1>6, <3>1, <3>2, <3>3
    <3> HIDE DEF c, x, y
    <3>5. (x + y) + c = x + (y + c)
      BY <3>4
    <3> QED BY <3>4, <3>5 DEF x
  <2> HIDE DEF T
  <2>3. T \in SUBSET Nat
    BY DEF T
  <2> QED BY <2>1, <2>2, <2>3, Induction
<1>8. f[k + m] = g[k] + h[m]
  <2>1. m \in T
    BY <1>4, <1>7, Zenon
  <2> QED BY <1>4, <2>1
<1> QED BY <1>1, <1>2, <1>3, <1>4, <1>8

(* The sum has every delta that counts.                                    *)
LEMMA SumAtLeast ==
    ASSUME NEW s \in Seq(Delta), NEW p, NEW w, NEW i \in 1..Len(s)
    PROVE  Counts(s[i], p, w) <= BytesAbove(s, p, w) /\ Counts(s[i], p, w) \in Nat
<1>1. PICK f : IsSum(f, s, p, w) /\ BytesAbove(s, p, w) = f[Len(s)]
  BY BytesAboveIs
<1> DEFINE m == Len(s)
           c == Counts(s[i], p, w)
           T == {n \in Nat : n <= m /\ i <= n => c <= f[n]}
<1>2. i \in Nat /\ m \in Nat /\ i > 0 /\ i <= m /\ c \in Nat
  <2>1. i \in Nat /\ m \in Nat /\ i > 0 /\ i <= m
    OBVIOUS
  <2>2. s[i] \in Delta
    OBVIOUS
  <2>3. c \in Nat
    BY <2>2, DeltaIs DEF Counts
  <2> QED BY <2>1, <2>3
<1>3. T = Nat
  <2>1. 0 \in T
    BY <1>2
  <2>2. ASSUME NEW n \in T PROVE n + 1 \in T
    <3> SUFFICES ASSUME n + 1 <= m, i <= n + 1 PROVE c <= f[n + 1]
      OBVIOUS
    <3>1. n \in Nat /\ (i <= n => c <= f[n])
      BY <1>2
    <3>2. f[n] \in Nat /\ Counts(s[n + 1], p, w) \in Nat /\ f[n + 1] = f[n] + Counts(s[n + 1], p, w)
      BY <1>1, <3>1, SumSteps DEF Adds
    <3>3. CASE i = n + 1
      <4>1. f[n + 1] = f[n] + c
        BY <3>2, <3>3
      <4> HIDE DEF c
      <4> QED BY <1>2, <3>2, <4>1
    <3>4. CASE i # n + 1
      <4>1. c <= f[n]
        BY <1>2, <3>1, <3>4
      <4> HIDE DEF c
      <4> QED BY <1>2, <3>2, <4>1
    <3> QED BY <3>3, <3>4
  <2> HIDE DEF T
  <2>3. T \in SUBSET Nat
    BY DEF T
  <2> QED BY <2>1, <2>2, <2>3, Induction
<1>4. m \in T
  BY <1>2, <1>3
<1> QED BY <1>1, <1>2, <1>4

LEMMA SumAppend ==
    ASSUME NEW g \in Seq(Delta), NEW d \in Delta, NEW p, NEW w
    PROVE  BytesAbove(Append(g, d), p, w) = BytesAbove(g, p, w) + Counts(d, p, w)
<1>1. PICK t : t = <<d>>
  OBVIOUS
<1>2. PICK u : u = Append(g, d)
  OBVIOUS
<1>3. /\ t \in Seq(Delta) /\ Len(t) = 1 /\ t[1] = d
  BY <1>1
<1>4. /\ u \in Seq(Delta) /\ Len(u) = Len(g) + 1 /\ u[Len(g) + 1] = d
      /\ \A i \in 1..Len(g) : u[i] = g[i]
  BY <1>2
<1>5. \A i \in 1..Len(t) : u[Len(g) + i] = t[i]
  BY <1>3, <1>4
<1>6. Len(u) = Len(g) + Len(t)
  BY <1>3, <1>4
<1>7. BytesAbove(u, p, w) = BytesAbove(g, p, w) + BytesAbove(t, p, w)
  <2>1. Joined(u, g, t)
    BY <1>3, <1>4, <1>5, <1>6 DEF Joined
  <2>2. t \in Seq(Delta) /\ u \in Seq(Delta)
    BY <1>3, <1>4
  <2> QED BY <2>1, <2>2, SumConcat
<1>8. BytesAbove(t, p, w) = Counts(d, p, w)
  <2>1. PICK h : IsSum(h, t, p, w) /\ BytesAbove(t, p, w) = h[Len(t)]
    BY <1>3, BytesAboveIs
  <2>2. h[0] = 0 /\ 0 + 1 <= Len(t) /\ 0 \in Nat
    BY <1>3, <2>1 DEF IsSum
  <2>3. h[0 + 1] = h[0] + Counts(t[0 + 1], p, w) /\ Counts(t[0 + 1], p, w) \in Nat
    BY <1>3, <2>1, <2>2, SumSteps DEF Adds
  <2> QED BY <1>3, <2>1, <2>2, <2>3
<1> QED BY <1>2, <1>7, <1>8

(* What an acknowledgement covers at or below w does not count above w.    *)
LEMMA UnackedSum ==
    ASSUME NEW s \in Seq(Delta), NEW a, NEW p, NEW w \in Nat,
           p \in DOMAIN a => a[p] \in Nat /\ a[p] <= w
    PROVE  BytesAbove(Unacked(s, a), p, w) = BytesAbove(s, p, w)
<1> DEFINE m == Len(s)
<1>1. PICK k : IsKept(k, s, a) /\ Unacked(s, a) = k[m]
  BY UnackedIs
<1>2. PICK f : IsSum(f, s, p, w) /\ BytesAbove(s, p, w) = f[m]
  BY BytesAboveIs
<1>3. m \in Nat
  OBVIOUS
<1> DEFINE T == {n \in Nat : n <= m => BytesAbove(k[n], p, w) = f[n]}
<1>4. T = Nat
  <2>1. 0 \in T
    <3>1. k[0] = <<>> /\ <<>> \in Seq(Delta) /\ Len(<<>>) = 0
      BY <1>1 DEF IsKept
    <3>2. PICK e \in Seq(Delta) : e = <<>>
      BY <3>1
    <3>3. PICK g : IsSum(g, e, p, w) /\ BytesAbove(e, p, w) = g[Len(e)]
      BY BytesAboveIs, Zenon
    <3>4. Len(e) = 0 /\ k[0] = e
      BY <3>1, <3>2
    <3>5. BytesAbove(k[0], p, w) = 0
      BY <3>3, <3>4 DEF IsSum
    <3>6. f[0] = 0
      BY <1>2, SumStarts
    <3> QED BY <3>5, <3>6
  <2>2. ASSUME NEW n \in T PROVE n + 1 \in T
    <3> SUFFICES ASSUME n + 1 <= m PROVE BytesAbove(k[n + 1], p, w) = f[n + 1]
      OBVIOUS
    <3> DEFINE d == s[n + 1]
               g == k[n]
               c == Counts(d, p, w)
    <3>1. n \in Nat /\ n + 1 \in 1..m /\ (n + 1) - 1 = n /\ n \in 0..m /\ BytesAbove(g, p, w) = f[n]
      BY <1>3
    <3>2. d \in Delta /\ d.seq \in Nat /\ f[n + 1] = f[n] + c /\ f[n] \in Nat /\ c \in Nat
      BY <1>2, <3>1, SumSteps, DeltaIs DEF Adds
    <3>3. k[n + 1] = (IF d.path \in DOMAIN a /\ d.seq <= a[d.path] THEN g ELSE Append(g, d)) /\ g \in Seq(Delta)
      BY <1>1, <3>1 DEF IsKept
    <3> HIDE DEF d, g
    <3>4. CASE d.path \in DOMAIN a /\ d.seq <= a[d.path]
      <4>1. c = 0
        BY <3>2, <3>4 DEF Counts
      <4> HIDE DEF c
      <4> QED BY <3>1, <3>2, <3>3, <3>4, <4>1
    <3>5. CASE ~(d.path \in DOMAIN a /\ d.seq <= a[d.path])
      <4>1. BytesAbove(Append(g, d), p, w) = BytesAbove(g, p, w) + c
        BY <3>2, <3>3, SumAppend
      <4> QED BY <3>1, <3>2, <3>3, <3>5, <4>1
    <3> QED BY <3>4, <3>5
  <2> HIDE DEF T
  <2>3. T \in SUBSET Nat
    BY DEF T
  <2> QED BY <2>1, <2>2, <2>3, Induction
<1>5. m \in T
  BY <1>3, <1>4
<1> QED BY <1>1, <1>2, <1>5

-----------------------------------------------------------------------------
(* A path's deltas in the order of their numbers, each number once.        *)
Ordered(s) == \A i, j \in 1..Len(s) : i < j /\ s[i].path = s[j].path => s[i].seq < s[j].seq

(* The sum of ordered deltas is within the stretch they stand for.         *)
LEMMA SumEnds ==
    ASSUME NEW s \in Seq(Delta), Ordered(s), NEW p, NEW w \in Nat, NEW base \in Nat,
           NEW to \in [Delta -> Nat],
           \A d \in Entries(s) : d.path = p /\ d.seq > w => base + d.bytes <= to[d],
           \A d, e \in Entries(s) : d.path = p /\ e.path = p /\ d.seq < e.seq => to[d] + e.bytes <= to[e]
    PROVE  \/ BytesAbove(s, p, w) = 0
           \/ \E d \in Entries(s) : d.path = p /\ base + BytesAbove(s, p, w) <= to[d]
<1> DEFINE m == Len(s)
<1>1. PICK f : IsSum(f, s, p, w) /\ BytesAbove(s, p, w) = f[m]
  BY BytesAboveIs
<1>2. m \in Nat
  OBVIOUS
<1>3. ASSUME NEW i \in 1..m PROVE s[i] \in Delta /\ s[i] \in Entries(s) /\ s[i].seq \in Nat /\ s[i].bytes \in Nat /\ to[s[i]] \in Nat
  <2>1. s[i] \in Delta /\ s[i] \in Entries(s)
    BY DEF Entries
  <2> QED BY <2>1, DeltaIs
<1> DEFINE Within(n) == \/ f[n] = 0
                        \/ \E i \in 1..m : i <= n /\ s[i].path = p /\ base + f[n] <= to[s[i]]
           T == {n \in Nat : n <= m => Within(n)}
<1>4. T = Nat
  <2>1. 0 \in T
    BY <1>1, SumStarts
  <2>2. ASSUME NEW n \in T PROVE n + 1 \in T
    <3> SUFFICES ASSUME n + 1 <= m PROVE Within(n + 1)
      OBVIOUS
    <3> DEFINE j == n + 1
               c == Counts(s[j], p, w)
    <3>1. n \in Nat /\ j \in 1..m /\ Within(n)
      BY <1>2
    <3>2. f[n] \in Nat /\ c \in Nat /\ f[j] = f[n] + c
      BY <1>1, <3>1, SumSteps DEF Adds
    <3>3. CASE c = 0
      <4>1. f[j] = f[n]
        BY <3>2, <3>3
      <4>2. \A i \in 1..m : i <= n => i <= j
        BY <3>1
      <4> HIDE DEF j, c
      <4> QED BY <3>1, <4>1, <4>2 DEF j
    <3>4. CASE c # 0
      <4>1. s[j].path = p /\ s[j].seq > w /\ c = s[j].bytes
        BY <3>4 DEF Counts
      <4>2. base + f[j] <= to[s[j]]
        <5> DEFINE x == f[n]
                   y == to[s[j]]
        <5>1. x \in Nat /\ y \in Nat /\ c \in Nat /\ f[j] = x + c
          BY <1>3, <3>1, <3>2
        <5>2. CASE f[n] = 0
          <6>1. base + s[j].bytes <= to[s[j]]
            BY <1>3, <3>1, <4>1
          <6>2. base + c <= y /\ x = 0
            BY <4>1, <5>2, <6>1
          <6> HIDE DEF x, y, c, j
          <6>3. base + (x + c) <= y
            BY <5>1, <6>2
          <6> QED BY <5>1, <6>3 DEF y
        <5>3. CASE f[n] # 0
          <6>1. PICK i \in 1..m : i <= n /\ s[i].path = p /\ base + f[n] <= to[s[i]]
            BY <3>1, <5>3
          <6>2. i < j /\ s[i].seq < s[j].seq
            BY <3>1, <4>1, <6>1 DEF Ordered
          <6> DEFINE z == to[s[i]]
          <6>3. z + c <= y /\ z \in Nat /\ base + x <= z
            BY <1>3, <3>1, <4>1, <6>1, <6>2
          <6> HIDE DEF x, y, z, c, j
          <6>4. base + (x + c) <= y
            BY <5>1, <6>3
          <6> QED BY <5>1, <6>4 DEF y
        <5> QED BY <5>2, <5>3
      <4>3. j <= n + 1
        BY <3>1
      <4> QED BY <3>1, <4>1, <4>2, <4>3
    <3> QED BY <3>3, <3>4
  <2> HIDE DEF T
  <2>3. T \in SUBSET Nat
    BY DEF T
  <2> QED BY <2>1, <2>2, <2>3, Induction
<1>5. Within(m)
  <2>1. m \in T
    BY <1>2, <1>4, Zenon
  <2> QED BY <1>2, <2>1
<1> QED BY <1>1, <1>3, <1>5

(* Above v there is at most the delta d more than above x.                 *)
LEMMA OneBetween ==
    ASSUME NEW s \in Seq(Delta), Ordered(s), NEW p, NEW v \in Nat, NEW d \in Delta, d.path = p, d.seq > v,
           \A e \in Entries(s) : e.path = p /\ e.seq > v /\ e.seq <= d.seq => e = d
    PROVE  BytesAbove(s, p, v) <= d.bytes + BytesAbove(s, p, d.seq)
<1> DEFINE m == Len(s)
           x == d.seq
           b == d.bytes
<1>1. PICK f : IsSum(f, s, p, v) /\ BytesAbove(s, p, v) = f[m]
  BY BytesAboveIs
<1>2. PICK g : IsSum(g, s, p, x) /\ BytesAbove(s, p, x) = g[m]
  BY BytesAboveIs
<1>3. m \in Nat /\ x \in Nat /\ b \in Nat
  BY DeltaIs
<1> DEFINE Met(n) == \E i \in 1..m : i <= n /\ s[i] = d
           T == {n \in Nat : n <= m => IF Met(n) THEN f[n] <= b + g[n] ELSE f[n] <= g[n]}
<1>4. T = Nat
  <2>1. 0 \in T
    <3>1. f[0] = 0 /\ g[0] = 0
      BY <1>1, <1>2, SumStarts
    <3> QED BY <1>3, <3>1
  <2>2. ASSUME NEW n \in T PROVE n + 1 \in T
    <3> SUFFICES ASSUME n + 1 <= m PROVE IF Met(n + 1) THEN f[n + 1] <= b + g[n + 1] ELSE f[n + 1] <= g[n + 1]
      OBVIOUS
    <3> DEFINE j == n + 1
               c == Counts(s[j], p, v)
               h == Counts(s[j], p, x)
    <3>1. n \in Nat /\ j \in 1..m /\ (IF Met(n) THEN f[n] <= b + g[n] ELSE f[n] <= g[n])
      BY <1>3
    <3>2. f[n] \in Nat /\ c \in Nat /\ f[j] = f[n] + c
      BY <1>1, <3>1, SumSteps DEF Adds
    <3>3. g[n] \in Nat /\ h \in Nat /\ g[j] = g[n] + h
      BY <1>2, <1>3, <3>1, SumSteps DEF Adds
    <3>4. s[j] \in Delta /\ s[j] \in Entries(s) /\ s[j].seq \in Nat
      <4>1. s[j] \in Delta /\ s[j] \in Entries(s)
        BY <3>1 DEF Entries
      <4> QED BY <4>1, DeltaIs
    <3>5. Met(n) => Met(j)
      BY <3>1
    <3>6. CASE s[j] = d
      <4>1. c = b /\ h = 0
        BY <1>3, <3>6 DEF Counts
      <4>2. Met(j)
        BY <3>1, <3>6
      <4>3. ~Met(n)
        <5> SUFFICES ASSUME NEW i \in 1..m, i <= n, s[i] = d PROVE FALSE
          OBVIOUS
        <5>1. i < j /\ s[i].path = s[j].path
          BY <3>1, <3>6
        <5>2. s[i].seq < s[j].seq
          BY <3>1, <5>1 DEF Ordered
        <5> QED BY <1>3, <3>6, <5>2
      <4> HIDE DEF Met, c, h, b, j
      <4>4. f[j] <= b + g[j]
        BY <1>3, <3>1, <3>2, <3>3, <4>1, <4>3
      <4> QED BY <4>2, <4>4 DEF j
    <3>7. CASE s[j] # d
      <4>1. c = h
        <5>1. s[j].path = p /\ s[j].seq > v => s[j].seq > x
          BY <1>3, <3>4, <3>7
        <5>2. s[j].seq > x => s[j].seq > v
          BY <1>3, <3>4
        <5> QED BY <5>1, <5>2 DEF Counts
      <4>2. Met(j) => Met(n)
        BY <3>1, <3>7
      <4>3. Met(j) <=> Met(n)
        BY <3>5, <4>2
      <4> HIDE DEF Met, c, h, b, j
      <4>4. IF Met(j) THEN f[j] <= b + g[j] ELSE f[j] <= g[j]
        <5>1. CASE Met(n)
          BY <1>3, <3>1, <3>2, <3>3, <4>1, <4>3, <5>1
        <5>2. CASE ~Met(n)
          BY <1>3, <3>1, <3>2, <3>3, <4>1, <4>3, <5>2
        <5> QED BY <5>1, <5>2
      <4> QED BY <4>4 DEF j
    <3> QED BY <3>6, <3>7
  <2> HIDE DEF T
  <2>3. T \in SUBSET Nat
    BY DEF T
  <2> QED BY <2>1, <2>2, <2>3, Induction
<1>5. m \in T
  BY <1>3, <1>4, Zenon
<1>6. f[m] \in Nat /\ g[m] \in Nat
  BY <1>1, <1>2, <1>3, SumStarts
<1>7. f[m] <= b + g[m]
  <2> HIDE DEF Met, b
  <2> QED BY <1>3, <1>5, <1>6
<1> QED BY <1>1, <1>2, <1>7

(* What a report is taken for covers every delta that the watermark then   *)
(* passes, as long as the report has them all.                             *)
Covers(f, s, p, w) ==
    \A k \in 1..Len(f) : \A d \in Entries(s) :
        f[k].path = p /\ d.path = p /\ d.seq <= f[k].seq /\ d.seq > w => \E l \in 1..k : f[l] = d

LEMMA TakenCovers ==
    ASSUME NEW f \in Seq(Delta), NEW s \in Seq(Delta), Ordered(s), NEW p, NEW w \in Nat, Covers(f, s, p, w)
    PROVE  BytesAbove(s, p, w) <= Taken(f, p, w).bytes + BytesAbove(s, p, Taken(f, p, w).seen)
<1> DEFINE m == Len(f)
           all == BytesAbove(s, p, w)
<1>1. PICK t : IsTally(t, f, p, w) /\ Taken(f, p, w) = t[m]
  BY TakenIs
<1>2. m \in Nat /\ MaxSequenceJump \in Nat
  BY ConstantFacts
<1>3. all \in Nat
  BY BytesAreNat
<1> DEFINE Ok(n) == /\ t[n].seen >= w
                    /\ all <= t[n].bytes + BytesAbove(s, p, t[n].seen)
                    /\ \A l \in 1..m : l <= n /\ f[l].path = p /\ f[l].seq - w <= MaxSequenceJump
                                         => f[l].seq <= t[n].seen
           T == {n \in Nat : n <= m => Ok(n)}
<1>4. T = Nat
  <2>1. 0 \in T
    <3>1. t[0].seen = w /\ t[0].bytes = 0
      BY <1>1 DEF IsTally
    <3> HIDE DEF all
    <3>2. all <= t[0].bytes + BytesAbove(s, p, t[0].seen)
      BY <1>3, <3>1 DEF all
    <3> QED BY <3>1, <3>2
  <2>2. ASSUME NEW n \in T PROVE n + 1 \in T
    <3> SUFFICES ASSUME n + 1 <= m PROVE Ok(n + 1)
      OBVIOUS
    <3> DEFINE j == n + 1
               a == t[n]
               d == f[j]
    <3>1. n \in Nat /\ j \in 1..m /\ j - 1 = n /\ n \in 0..m /\ Ok(n)
      BY <1>2
    <3>2. d \in Delta /\ d.seq \in Nat /\ d.bytes \in Nat
      BY <3>1, DeltaIs
    <3>3. a.seen \in Nat /\ a.bytes \in Nat
      BY <1>1, <3>1 DEF IsTally, Tally
    <3>4. t[j] = IF \/ d.path # p \/ d.seq <= a.seen \/ d.seq - w > MaxSequenceJump
                 THEN a ELSE [seen |-> d.seq, bytes |-> a.bytes + d.bytes]
      BY <1>1, <3>1 DEF IsTally
    <3>5. \A l \in 1..m : l <= j => l <= n \/ l = j
      BY <3>1
    <3> HIDE DEF all, j, a, d
    <3>6. CASE \/ d.path # p \/ d.seq <= a.seen \/ d.seq - w > MaxSequenceJump
      <4>1. t[j] = a
        BY <3>4, <3>6
      <4>2. ASSUME NEW l \in 1..m, l <= j, f[l].path = p, f[l].seq - w <= MaxSequenceJump
            PROVE  f[l].seq <= a.seen
        <5>1. CASE l <= n
          BY <3>1, <4>2, <5>1 DEF a
        <5>2. CASE l = j
          <6>1. d = f[l]
            BY <5>2 DEF d
          <6> QED BY <1>2, <3>2, <3>3, <3>6, <4>2, <6>1
        <5> QED BY <3>5, <4>2, <5>1, <5>2
      <4>3. a.seen >= w /\ all <= a.bytes + BytesAbove(s, p, a.seen)
        BY <3>1 DEF a
      <4>4. Ok(j)
        BY <4>1, <4>2, <4>3
      <4> QED BY <4>4 DEF j
    <3>7. CASE ~(\/ d.path # p \/ d.seq <= a.seen \/ d.seq - w > MaxSequenceJump)
      <4>1. t[j].seen = d.seq /\ t[j].bytes = a.bytes + d.bytes /\ d.path = p /\ d.seq > a.seen /\ d.seq - w <= MaxSequenceJump
        BY <1>2, <3>2, <3>3, <3>4, <3>7
      <4>2. a.seen >= w /\ all <= a.bytes + BytesAbove(s, p, a.seen)
        BY <3>1 DEF a
      <4>3. ASSUME NEW l \in 1..m, l <= j, f[l].path = p, f[l].seq - w <= MaxSequenceJump
            PROVE  f[l].seq <= d.seq
        <5>1. CASE l <= n
          <6>1. f[l].seq <= a.seen
            BY <3>1, <4>3, <5>1 DEF a
          <6>2. f[l].seq \in Nat
            BY DeltaIs
          <6> QED BY <3>2, <3>3, <4>1, <6>1, <6>2
        <5>2. CASE l = j
          BY <3>2, <5>2 DEF d
        <5> QED BY <3>5, <4>3, <5>1, <5>2
      <4>4. ASSUME NEW e \in Entries(s), e.path = p, e.seq > a.seen, e.seq <= d.seq PROVE e = d
        <5>1. e.seq \in Nat
          <6>1. e \in Delta
            BY DEF Entries
          <6> QED BY <6>1, DeltaIs
        <5>2. e.seq > w
          BY <3>3, <4>2, <4>4, <5>1
        <5>3. PICK l \in 1..j : f[l] = e
          BY <3>1, <4>1, <4>4, <5>2 DEF Covers, d
        <5>4. l \in 1..m /\ l <= j
          BY <1>2, <3>1
        <5>5. CASE l <= n
          <6>1. f[l].seq - w <= MaxSequenceJump
            BY <1>2, <3>2, <4>1, <4>4, <5>1, <5>3
          <6>2. f[l].seq <= a.seen
            BY <3>1, <4>4, <5>3, <5>4, <5>5, <6>1 DEF a
          <6> QED BY <3>3, <4>4, <5>1, <5>3, <6>2
        <5>6. CASE l = j
          BY <5>3, <5>6 DEF d
        <5> QED BY <3>5, <5>4, <5>5, <5>6
      <4>5. BytesAbove(s, p, a.seen) <= d.bytes + BytesAbove(s, p, d.seq)
        BY <3>2, <3>3, <4>1, <4>4, OneBetween
      <4> DEFINE x == BytesAbove(s, p, a.seen)
                 y == BytesAbove(s, p, d.seq)
                 u == a.bytes
                 v == d.bytes
      <4>6. x \in Nat /\ y \in Nat /\ u \in Nat /\ v \in Nat /\ all <= u + x /\ x <= v + y
        BY <3>2, <3>3, <4>2, <4>5, BytesAreNat
      <4> HIDE DEF x, y, u, v
      <4>7. all <= (u + v) + y
        BY <1>3, <4>6
      <4>8. all <= t[j].bytes + BytesAbove(s, p, t[j].seen)
        BY <4>1, <4>7 DEF u, v, y
      <4>9. t[j].seen >= w
        BY <3>2, <3>3, <4>1, <4>2
      <4>10. Ok(j)
        BY <4>1, <4>3, <4>8, <4>9
      <4> QED BY <4>10 DEF j
    <3> QED BY <3>6, <3>7
  <2> HIDE DEF T
  <2>3. T \in SUBSET Nat
    BY DEF T
  <2> QED BY <2>1, <2>2, <2>3, Induction
<1>5. m \in T
  BY <1>2, <1>4, Zenon
<1> QED BY <1>1, <1>2, <1>5

(* The watermark a report leaves is the old one or a number it brings.     *)
LEMMA TakenSeen ==
    ASSUME NEW f \in Seq(Delta), NEW p, NEW w \in Nat
    PROVE  LET x == Taken(f, p, w).seen
           IN  x \in Nat /\ x >= w /\ (x = w \/ \E d \in Entries(f) : d.path = p /\ d.seq = x)
<1> DEFINE m == Len(f)
<1>1. PICK t : IsTally(t, f, p, w) /\ Taken(f, p, w) = t[m]
  BY TakenIs
<1>2. m \in Nat
  OBVIOUS
<1> DEFINE Ok(x) == x \in Nat /\ x >= w /\ (x = w \/ \E d \in Entries(f) : d.path = p /\ d.seq = x)
           T == {n \in Nat : n <= m => Ok(t[n].seen)}
<1>3. T = Nat
  <2>1. 0 \in T
    BY <1>1 DEF IsTally
  <2>2. ASSUME NEW n \in T PROVE n + 1 \in T
    <3> SUFFICES ASSUME n + 1 <= m PROVE Ok(t[n + 1].seen)
      OBVIOUS
    <3> DEFINE j == n + 1
               a == t[n]
               d == f[j]
    <3>1. n \in Nat /\ j \in 1..m /\ j - 1 = n /\ n \in 0..m /\ Ok(a.seen)
      BY <1>2
    <3>2. d \in Delta /\ d.seq \in Nat /\ d \in Entries(f)
      BY <3>1, DeltaIs DEF Entries
    <3>3. t[j] = IF \/ d.path # p \/ d.seq <= a.seen \/ d.seq - w > MaxSequenceJump
                 THEN a ELSE [seen |-> d.seq, bytes |-> a.bytes + d.bytes]
      BY <1>1, <3>1 DEF IsTally
    <3> HIDE DEF j, a, d
    <3>4. CASE t[j] = a
      BY <3>1, <3>4 DEF j
    <3>5. CASE t[j] # a
      <4>1. d.path = p /\ d.seq > a.seen /\ t[j].seen = d.seq
        BY <3>1, <3>2, <3>3, <3>5
      <4>2. Ok(t[j].seen)
        BY <3>1, <3>2, <4>1
      <4> QED BY <4>2 DEF j
    <3> QED BY <3>4, <3>5
  <2> HIDE DEF T
  <2>3. T \in SUBSET Nat
    BY DEF T
  <2> QED BY <2>1, <2>2, <2>3, Induction
<1>4. m \in T
  <2> HIDE DEF T
  <2> QED BY <1>2, <1>3
<1> QED BY <1>1, <1>2, <1>4

LEMMA UnackedOrdered ==
    ASSUME NEW s \in Seq(Delta), Ordered(s), NEW a
    PROVE  Ordered(Unacked(s, a)) /\ \A d \in Entries(s) : d \in Entries(Unacked(s, a)) \/ (d.path \in DOMAIN a /\ d.seq <= a[d.path])
<1> DEFINE m == Len(s)
<1>1. PICK k : IsKept(k, s, a) /\ Unacked(s, a) = k[m]
  BY UnackedIs
<1>2. m \in Nat
  OBVIOUS
<1> DEFINE Ok(n) == /\ Ordered(k[n])
                    /\ \A d \in Entries(k[n]) : \E i \in 1..m : i <= n /\ s[i] = d
                    /\ \A i \in 1..m : i <= n => s[i] \in Entries(k[n]) \/ (s[i].path \in DOMAIN a /\ s[i].seq <= a[s[i].path])
           T == {n \in Nat : n <= m => Ok(n)}
<1>3. T = Nat
  <2>1. 0 \in T
    <3>1. k[0] = <<>>
      BY <1>1 DEF IsKept
    <3>2. Ordered(k[0]) /\ Entries(k[0]) = {}
      BY <3>1 DEF Ordered, Entries
    <3> QED BY <3>2
  <2>2. ASSUME NEW n \in T PROVE n + 1 \in T
    <3> SUFFICES ASSUME n + 1 <= m PROVE Ok(n + 1)
      OBVIOUS
    <3> DEFINE j == n + 1
               g == k[n]
               d == s[j]
               u == Append(g, d)
    <3>1. n \in Nat /\ j \in 1..m /\ j - 1 = n /\ n \in 0..m /\ Ok(n)
      BY <1>2
    <3>2. k[j] = (IF d.path \in DOMAIN a /\ d.seq <= a[d.path] THEN g ELSE u) /\ g \in Seq(Delta) /\ d \in Delta
      BY <1>1, <3>1 DEF IsKept
    <3>3. \A i \in 1..m : i <= j => i <= n \/ i = j
      BY <3>1
    <3>4. \A i \in 1..m : i <= n => i <= j
      BY <3>1
    <3>5. /\ Ordered(g) /\ \A e \in Entries(g) : \E i \in 1..m : i <= n /\ s[i] = e
          /\ \A i \in 1..m : i <= n => s[i] \in Entries(g) \/ (s[i].path \in DOMAIN a /\ s[i].seq <= a[s[i].path])
      BY <3>1
    <3> HIDE DEF g, d, j, u
    <3>6. CASE d.path \in DOMAIN a /\ d.seq <= a[d.path]
      <4>1. k[j] = g
        BY <3>2, <3>6
      <4>2. \A i \in 1..m : i <= j => s[i] \in Entries(g) \/ (s[i].path \in DOMAIN a /\ s[i].seq <= a[s[i].path])
        BY <3>3, <3>5, <3>6 DEF d
      <4>3. Ok(j)
        BY <3>4, <3>5, <4>1, <4>2
      <4> QED BY <4>3 DEF j
    <3>7. CASE ~(d.path \in DOMAIN a /\ d.seq <= a[d.path])
      <4>1. k[j] = u
        BY <3>2, <3>7
      <4>2. /\ Len(g) \in Nat /\ Len(u) = Len(g) + 1 /\ u[Len(g) + 1] = d
            /\ \A i \in 1..Len(g) : u[i] = g[i]
        BY <3>2 DEF u
      <4>3. \A i \in 1..Len(u) : i \in 1..Len(g) \/ i = Len(u)
        BY <4>2
      <4>4. \A i \in 1..Len(u) : u[i] = d \/ (i \in 1..Len(g) /\ u[i] = g[i])
        BY <4>2, <4>3
      <4>5. Entries(u) = Entries(g) \cup {d}
        <5>1. Len(u) \in 1..Len(u) /\ \A i \in 1..Len(g) : i \in 1..Len(u)
          BY <4>2
        <5> QED BY <4>2, <4>4, <5>1 DEF Entries
      <4>6. Ordered(u)
        <5> SUFFICES ASSUME NEW x \in 1..Len(u), NEW y \in 1..Len(u), x < y, u[x].path = u[y].path
                     PROVE  u[x].seq < u[y].seq
          BY DEF Ordered
        <5>1. x \in 1..Len(g)
          BY <4>2
        <5>2. CASE y \in 1..Len(g)
          BY <3>5, <4>2, <5>1, <5>2 DEF Ordered
        <5>3. CASE y = Len(u)
          <6>1. u[x] \in Entries(g) /\ u[y] = d
            BY <4>2, <5>1, <5>3 DEF Entries
          <6>2. PICK i \in 1..m : i <= n /\ s[i] = u[x]
            BY <3>5, <6>1
          <6>3. i < j /\ j \in 1..m /\ s[j] = d
            BY <3>1, <6>2 DEF j, d
          <6> QED BY <6>1, <6>2, <6>3 DEF Ordered
        <5> QED BY <4>3, <5>2, <5>3
      <4>7. \A e \in Entries(u) : \E i \in 1..m : i <= j /\ s[i] = e
        <5>1. j \in 1..m /\ j <= j /\ s[j] = d
          BY <3>1 DEF d, j
        <5> QED BY <3>4, <3>5, <4>5, <5>1
      <4>8. \A i \in 1..m : i <= j => s[i] \in Entries(u) \/ (s[i].path \in DOMAIN a /\ s[i].seq <= a[s[i].path])
        BY <3>3, <3>5, <4>5 DEF d
      <4>9. Ok(j)
        BY <4>1, <4>6, <4>7, <4>8
      <4> QED BY <4>9 DEF j
    <3> QED BY <3>6, <3>7
  <2> HIDE DEF T
  <2>3. T \in SUBSET Nat
    BY DEF T
  <2> QED BY <2>1, <2>2, <2>3, Induction
<1>4. m \in T
  BY <1>2, <1>3, Zenon
<1>5. Ok(m)
  BY <1>2, <1>4
<1>6. \A d \in Entries(s) : \E i \in 1..m : i <= m /\ s[i] = d
  BY <1>2 DEF Entries
<1> QED BY <1>1, <1>5, <1>6

-----------------------------------------------------------------------------
(* While the two files were in step whenever the agent died, the meter     *)
(* never uses a number again: its deltas are in order, a report that is    *)
(* read brings all that is owed up to its last number, the buffer's file   *)
(* owes what the buffer owes, and nothing leaves the balance unseen.       *)
Numbered(p) == watermark[p] <= nextSeq[p] /\ \A d \in Of(p) : d.seq <= nextSeq[p]

FileHolds ==
    /\ \A p \in Paths : \A w \in Nat : w >= watermark[p] =>
           BytesAbove(bufferFile, p, w) = BytesAbove(pending, p, w)
    /\ \A d \in Entries(bufferFile) : d \in Entries(pending) \/ d.seq <= watermark[d.path]

Balanced(p) == carried[p] <= Accounted(p) + missed[p]

InStep ==
    /\ Ordered(pending) /\ Ordered(bufferFile)
    /\ \A p \in Paths : Numbered(p)
    /\ \A f \in frames : \A p \in Paths : Covers(f, pending, p, watermark[p])
    /\ (writeFails = 0 /\ sampler # "persist" => FileHolds)
    /\ \A p \in Paths : Balanced(p)

AcksBehind == \A a \in acks : \A p \in DOMAIN a : a[p] <= watermark[p]

StepInv == AcksBehind /\ (FilesKept /\ ~torn => InStep)

LEMMA BalanceParts ==
    ASSUME MeteringTypes, NEW p \in Paths
    PROVE  Owed(p) \in Nat /\ Unsampled(p) \in Nat
<1>1. Owed(p) \in Nat
  BY BytesAreNat DEF Owed, MeteringTypes
<1>2. Unsampled(p) \in Nat
  BY TypeFacts DEF Unsampled, Reading
<1> QED BY <1>1, <1>2

(* The kernel's side: a byte is counted or missed, and a reset misses what *)
(* was not read.                                                           *)
LEMMA TrafficInStep ==
    ASSUME MeteringTypes, InStep, NEW q \in Paths, Traffic(q) \/ CounterReset(q)
    PROVE  InStep'
<1>1. UNCHANGED <<last, nextSeq, pending, sampler, bufferFile, stateFile, frames, acks, watermark, ledger, writeFails>>
  BY DEF Traffic, CounterReset, meter, disk, wire, database
<1>2. ASSUME NEW p \in Paths PROVE Balanced(p)'
  <2>1. Owed(p)' = Owed(p) /\ Owed(p) \in Nat /\ Unsampled(p) \in Nat
    BY <1>1, BalanceParts DEF Owed, BytesAbove
  <2> DEFINE x == carried[p]
             y == missed[p]
             u == Unsampled(p)
             o == ledger[p] + Owed(p)
             v == Unsampled(p)'
  <2>2. x \in Nat /\ y \in Nat /\ u \in Nat /\ o \in Nat /\ x <= (o + u) + y
    BY <2>1, TypeFacts DEF InStep, Balanced, Accounted
  <2>3. counter[p] \in Nat /\ counter \in [Paths -> Nat] /\ carried \in [Paths -> Nat] /\ missed \in [Paths -> Nat]
        /\ last[p] \in Nat \cup {None} /\ None \notin Nat
    BY TypeFacts, ConstantFacts DEF Reading
  <2>4. v = IF last[p] = None \/ counter'[p] < last[p] THEN 0 ELSE counter'[p] - last[p]
    BY <1>1 DEF Unsampled
  <2>5. u = IF last[p] = None \/ counter[p] < last[p] THEN 0 ELSE counter[p] - last[p]
    BY DEF Unsampled
  <2>6. v \in Nat /\ carried'[p] <= (o + v) + missed'[p]
    <3>1. CASE Traffic(q) /\ p = q
      <4>1. /\ carried'[p] = x + 1 /\ counter'[p] = counter[p] + 1
            /\ missed'[p] = IF last[p] = None \/ counter[p] < last[p] THEN y + 1 ELSE y
        BY <2>3, <3>1 DEF Traffic
      <4> HIDE DEF o, x, y, u, v
      <4>2. CASE last[p] = None \/ counter[p] < last[p]
        <5>1. u = 0 /\ v \in Nat /\ missed'[p] = y + 1
          BY <2>3, <2>4, <2>5, <4>1, <4>2
        <5> QED BY <2>2, <4>1, <5>1
      <4>3. CASE ~(last[p] = None \/ counter[p] < last[p])
        <5>1. v = u + 1 /\ missed'[p] = y
          BY <2>3, <2>4, <2>5, <4>1, <4>3
        <5> QED BY <2>2, <4>1, <5>1
      <4> QED BY <4>2, <4>3
    <3>2. CASE CounterReset(q) /\ p = q
      <4>1. carried'[p] = x /\ missed'[p] = y + u /\ counter'[p] = 0
        BY <2>3, <3>2 DEF CounterReset
      <4> HIDE DEF o, x, y, u, v
      <4>2. v = 0
        BY <2>3, <2>4, <4>1
      <4> QED BY <2>2, <4>1, <4>2
    <3>3. CASE p # q
      <4>1. carried'[p] = x /\ missed'[p] = y /\ counter'[p] = counter[p]
        BY <2>3, <3>3 DEF Traffic, CounterReset
      <4>2. v = u
        BY <2>4, <2>5, <4>1
      <4> HIDE DEF o, x, y, u, v
      <4> QED BY <2>2, <4>1, <4>2
    <3> QED BY <3>1, <3>2, <3>3
  <2>7. Accounted(p)' = o + v
    BY <1>1, <2>1 DEF Accounted
  <2> QED BY <2>6, <2>7 DEF Balanced
<1>3. Ordered(pending)' /\ Ordered(bufferFile)' /\ \A p \in Paths : Numbered(p)'
  BY <1>1 DEF InStep, Ordered, Numbered, Of, Entries
<1>4. \A f \in frames' : \A p \in Paths : Covers(f, pending, p, watermark[p])'
  BY <1>1 DEF InStep, Covers, Entries
<1>5. (writeFails = 0 /\ sampler # "persist" => FileHolds)'
  <2>1. FileHolds => FileHolds'
    BY <1>1 DEF FileHolds, BytesAbove, Entries
  <2> QED BY <1>1, <2>1 DEF InStep
<1> QED BY <1>2, <1>3, <1>4, <1>5 DEF InStep

(* A file is written, or not.                                              *)
LEMMA WriteInStep ==
    ASSUME MeteringTypes, InStep, SamplePersists \/ SampleSaves \/ AckPersists
    PROVE  InStep'
<1>1. /\ UNCHANGED <<counter, carried, missed, last, nextSeq, pending, frames, watermark, ledger>>
      /\ \/ bufferFile' = pending
         \/ bufferFile' = bufferFile /\ writeFails' = writeFails + 1
         \/ bufferFile' = bufferFile /\ sampler # "persist" /\ sampler' # "persist" /\ writeFails' = writeFails
  BY DEF SamplePersists, SampleSaves, AckPersists, Write, meter, wire, database, history
<1>2. bufferFile' = pending \/ bufferFile' = bufferFile
  BY <1>1
<1>3. Ordered(pending)' /\ Ordered(bufferFile)'
  BY <1>1, <1>2 DEF InStep, Ordered
<1>4. ASSUME NEW p \in Paths PROVE Numbered(p)' /\ Balanced(p)'
  <2>1. Of(p)' \subseteq Of(p)
    <3>1. Entries(pending)' = Entries(pending)
          /\ (Entries(bufferFile)' = Entries(bufferFile) \/ Entries(bufferFile)' = Entries(pending))
          /\ (UNION {Entries(g) : g \in frames})' = UNION {Entries(g) : g \in frames}
      BY <1>1, <1>2 DEF Entries
    <3> QED BY <3>1 DEF Of
  <2>2. Accounted(p)' = Accounted(p)
    BY <1>1 DEF Accounted, Owed, Unsampled, BytesAbove
  <2> QED BY <1>1, <2>1, <2>2 DEF InStep, Numbered, Balanced
<1>5. \A f \in frames' : \A p \in Paths : Covers(f, pending, p, watermark[p])'
  BY <1>1 DEF InStep, Covers, Entries
<1>6. ASSUME writeFails' = 0, sampler' # "persist" PROVE FileHolds'
  <2>1. CASE bufferFile' = pending
    <3>1. bufferFile' = pending'
      BY <1>1, <2>1
    <3> QED BY <3>1 DEF FileHolds, BytesAbove, Entries
  <2>2. CASE bufferFile' = bufferFile /\ sampler # "persist" /\ writeFails' = writeFails
    BY <1>1, <1>6, <2>2 DEF InStep, FileHolds, BytesAbove, Entries
  <2>3. writeFails' # writeFails + 1
    BY <1>6, TypeFacts
  <2> QED BY <1>1, <2>1, <2>2, <2>3
<1> QED BY <1>3, <1>4, <1>5, <1>6 DEF InStep

(* A crash between two samples finds the files as the meter is.            *)
LEMMA CrashInStep ==
    ASSUME MeteringTypes, BooksInv, FilesKept, InStep, Crash, writeFails = 0, sampler = "idle"
    PROVE  InStep'
<1>1. /\ UNCHANGED <<counter, carried, missed, bufferFile, stateFile, watermark, ledger, writeFails>>
      /\ pending' = bufferFile /\ frames' \subseteq frames
      /\ last' = stateFile.last /\ nextSeq' = stateFile.nextSeq
  BY DEF Crash, disk, database
<1>2. FileHolds /\ FileHolds'
  <2>1. FileHolds
    BY DEF InStep
  <2> QED BY <1>1, <2>1 DEF FileHolds, BytesAbove, Entries
<1>3. Ordered(pending)' /\ Ordered(bufferFile)'
  BY <1>1 DEF InStep, Ordered
<1>4. ASSUME NEW p \in Paths PROVE Numbered(p)' /\ Balanced(p)'
  <2>1. last'[p] = last[p] /\ nextSeq'[p] = nextSeq[p]
    BY <1>1 DEF BooksInv, InBooks, Books
  <2>2. Of(p)' \subseteq Of(p)
    <3>1. Entries(pending)' = Entries(bufferFile) /\ Entries(bufferFile)' = Entries(bufferFile)
          /\ (UNION {Entries(f) : f \in frames})' \subseteq UNION {Entries(f) : f \in frames}
      BY <1>1 DEF Entries
    <3> QED BY <3>1 DEF Of
  <2>3. Owed(p)' = Owed(p)
    <3>1. Owed(p)' = BytesAbove(bufferFile, p, watermark[p])
      BY <1>1 DEF Owed, BytesAbove
    <3>2. watermark[p] \in Nat /\ watermark[p] >= watermark[p]
      BY TypeFacts
    <3> QED BY <1>2, <3>1, <3>2 DEF FileHolds, Owed
  <2>4. Accounted(p)' = Accounted(p)
    BY <1>1, <2>1, <2>3 DEF Accounted, Unsampled
  <2> QED BY <1>1, <2>1, <2>2, <2>4 DEF InStep, Numbered, Balanced
<1>5. ASSUME NEW f \in frames', NEW p \in Paths PROVE Covers(f, pending, p, watermark[p])'
  <2>1. Covers(f, pending, p, watermark[p]) /\ f \in Seq(Delta)
    BY <1>1 DEF InStep, MeteringTypes
  <2>2. Entries(pending)' = Entries(bufferFile)
    BY <1>1 DEF Entries
  <2>3. ASSUME NEW k \in 1..Len(f), NEW d \in Entries(pending)', f[k].path = p, d.path = p,
               d.seq <= f[k].seq, d.seq > watermark[p]
        PROVE  \E l \in 1..k : f[l] = d
    <3>1. d.seq \in Nat /\ watermark[p] \in Nat
      <4>1. d \in Delta
        <5>1. d \in Entries(bufferFile) /\ bufferFile \in Seq(Delta)
          BY <2>2 DEF MeteringTypes
        <5> QED BY <5>1 DEF Entries
      <4> QED BY <4>1, DeltaIs, TypeFacts
    <3>2. d \in Entries(pending)
      BY <1>2, <2>2, <2>3, <3>1 DEF FileHolds
    <3> QED BY <2>1, <2>3, <3>2 DEF Covers
  <2> QED BY <1>1, <2>3 DEF Covers
<1> QED BY <1>2, <1>3, <1>4, <1>5 DEF InStep

(* A report, or the loss of reports.                                       *)
LEMMA WireInStep ==
    ASSUME MeteringTypes, InStep, Report \/ Disconnect
    PROVE  InStep'
<1>1. UNCHANGED <<counter, carried, missed, last, nextSeq, pending, sampler, bufferFile, watermark, ledger, writeFails>>
  BY DEF Report, Disconnect, meter, disk, database, history
<1>2. Ordered(pending)' /\ Ordered(bufferFile)'
  BY <1>1 DEF InStep, Ordered
<1>3. ASSUME NEW p \in Paths PROVE Numbered(p)' /\ Balanced(p)'
  <2>1. Of(p)' \subseteq Of(p)
    <3>1. MeteringNext /\ \A here \in SUBSET Paths : ~Sample(here)
      BY <1>1 DEF MeteringNext, Sample
    <3> QED BY <3>1, OnlySamplesMake
  <2>2. Accounted(p)' = Accounted(p)
    BY <1>1 DEF Accounted, Owed, Unsampled, BytesAbove
  <2> QED BY <1>1, <2>1, <2>2 DEF InStep, Numbered, Balanced
<1>4. ASSUME NEW f \in frames', NEW p \in Paths PROVE Covers(f, pending, p, watermark[p])
  <2>1. CASE f \in frames
    BY <2>1 DEF InStep
  <2>2. CASE f \notin frames
    <3>1. pending \in Seq(Delta) /\ pending # <<>> /\ f = PendingBatch
      BY <2>2 DEF Report, Disconnect, MeteringTypes
    <3>2. f \in Seq(Delta) /\ \E from : Picked(f, from)
      BY <3>1, BatchIs, Zenon
    <3>3. PICK from : Picked(f, from)
      BY <3>2
    <3> SUFFICES ASSUME NEW k \in 1..Len(f), NEW d \in Entries(pending), f[k].path = p, d.path = p, d.seq <= f[k].seq
                 PROVE  \E l \in 1..k : f[l] = d
      BY DEF Covers
    <3>4. PICK i \in 1..Len(pending) : pending[i] = d
      BY DEF Entries
    <3>5. /\ from[k] \in 1..Len(pending) /\ f[k] = pending[from[k]]
          /\ \A x \in 1..from[k] : pending[x].path = f[k].path => \E l \in 1..k : from[l] = x
      BY <3>3 DEF Picked, Injection
    <3>6. d.seq \in Nat /\ f[k].seq \in Nat
      BY <3>1, <3>2, <3>4, DeltaIs
    <3>7. ~(from[k] < i)
      <4> SUFFICES ASSUME from[k] < i PROVE FALSE
        OBVIOUS
      <4>1. pending[from[k]].path = pending[i].path
        BY <3>4, <3>5
      <4>2. Ordered(pending)
        BY DEF InStep
      <4>3. pending[from[k]].seq < pending[i].seq
        BY <3>4, <3>5, <4>1, <4>2 DEF Ordered
      <4>4. f[k].seq < d.seq
        BY <3>4, <3>5, <4>3
      <4> QED BY <3>6, <4>4
    <3>8. i \in 1..from[k]
      BY <3>1, <3>5, <3>7
    <3>9. PICK l \in 1..k : from[l] = i
      BY <3>4, <3>5, <3>8
    <3>10. l \in 1..Len(f)
      BY <3>2
    <3>11. f[l] = pending[i]
      BY <3>3, <3>9, <3>10 DEF Picked
    <3> QED BY <3>4, <3>11
  <2> QED BY <2>1, <2>2
<1>5. \A f \in frames' : \A p \in Paths : Covers(f, pending, p, watermark[p])'
  BY <1>1, <1>4 DEF Covers, Entries
<1>6. (writeFails = 0 /\ sampler # "persist" => FileHolds)'
  <2>1. FileHolds => FileHolds'
    BY <1>1 DEF FileHolds, BytesAbove, Entries
  <2> QED BY <1>1, <2>1 DEF InStep
<1> QED BY <1>2, <1>3, <1>5, <1>6 DEF InStep

(* A sample moves what was not yet read into deltas, or counts what it     *)
(* drops as missed.                                                        *)
LEMMA SampleInStep ==
    ASSUME MeteringTypes, InStep, NEW here \in SUBSET Paths, Sample(here)
    PROVE  InStep'
<1> DEFINE fresh == Fresh(here)
           all == pending \o fresh
<1> HIDE DEF fresh, all
<1>1. fresh = Fresh(here) /\ all = pending \o fresh
  BY DEF fresh, all
<1>2. /\ fresh \in Seq(Delta)
      /\ \A i \in 1..Len(fresh) :
           /\ fresh[i].path \in Paths /\ Grew(fresh[i].path, here)
           /\ fresh[i].seq = nextSeq[fresh[i].path] + 1
           /\ fresh[i].bytes = counter[fresh[i].path] - last[fresh[i].path]
      /\ \A q \in Paths : Grew(q, here) => \E i \in 1..Len(fresh) : fresh[i].path = q
      /\ \A i, j \in 1..Len(fresh) : fresh[i].path = fresh[j].path => i = j
  BY FreshIs DEF fresh
<1>3. /\ all \in Seq(Delta) /\ Len(all) = Len(pending) + Len(fresh)
      /\ \A i \in 1..Len(pending) : all[i] = pending[i]
      /\ \A i \in 1..Len(fresh) : all[Len(pending) + i] = fresh[i]
  <2>1. Extended(all, pending, fresh)
    BY <1>1, SampleIs, Zenon
  <2> QED BY ONLY <2>1 DEF Extended
<1>4. PICK k \in 0..Len(all) : CutAt(all, fresh, k)
  BY <1>1, SampleIs, Zenon
<1>5. /\ UNCHANGED <<counter, carried, bufferFile, stateFile, frames, watermark, ledger, writeFails>>
      /\ sampler' = IF fresh = <<>> THEN "save" ELSE "persist"
      /\ sampler = "idle"
  BY DEF Sample, disk, wire, database, fresh
<1> DEFINE head == SubSeq(all, 1, k)
           tail == SubSeq(all, k + 1, Len(all))
<1>6. /\ head \in Seq(Delta) /\ tail \in Seq(Delta) /\ Len(head) = k /\ Len(tail) = Len(all) - k
      /\ \A i \in 1..(Len(all) - k) : tail[i] = all[i + k]
      /\ \A i \in 1..k : head[i] = all[i]
  BY <1>3, Halves
<1>7. pending' = tail /\ missed' = [p \in Paths |-> missed[p] + BytesAbove(head, p, watermark[p])]
      /\ (fresh = <<>> => k = 0) /\ Len(all) - k <= MaxBuffered
  BY <1>4 DEF CutAt
<1> HIDE DEF head, tail
<1>8. pending \in Seq(Delta) /\ Len(pending) \in Nat /\ Len(fresh) \in Nat /\ k \in Nat /\ k <= Len(all)
  BY <1>2, <1>3 DEF MeteringTypes
<1>9. \A p \in Paths : Numbered(p) /\ nextSeq[p] \in Nat /\ watermark[p] \in Nat
  BY TypeFacts DEF InStep
<1>10. ASSUME NEW i \in 1..Len(all)
       PROVE  \/ i \in 1..Len(pending) /\ all[i] = pending[i] /\ all[i] \in Entries(pending)
              \/ /\ i > Len(pending) /\ (i - Len(pending)) \in 1..Len(fresh)
                 /\ all[i] = fresh[i - Len(pending)]
  <2>1. CASE i <= Len(pending)
    <3>1. i \in 1..Len(pending)
      BY <1>8, <2>1
    <3> QED BY <1>3, <3>1 DEF Entries
  <2>2. CASE ~(i <= Len(pending))
    <3> DEFINE l == i - Len(pending)
    <3>1. l \in 1..Len(fresh) /\ Len(pending) + l = i /\ i > Len(pending)
      BY <1>3, <1>8, <2>2
    <3> HIDE DEF l
    <3>2. all[Len(pending) + l] = fresh[l]
      BY <1>3, <3>1
    <3> QED BY <3>1, <3>2 DEF l
  <2> QED BY <2>1, <2>2
<1>11. Ordered(all)
  <2> SUFFICES ASSUME NEW i \in 1..Len(all), NEW j \in 1..Len(all), i < j, all[i].path = all[j].path
               PROVE  all[i].seq < all[j].seq
    BY DEF Ordered
  <2>1. CASE j \in 1..Len(pending)
    <3>1. i \in 1..Len(pending)
      BY <1>8, <2>1
    <3> QED BY <1>3, <2>1, <3>1 DEF InStep, Ordered
  <2>2. CASE ~(j \in 1..Len(pending))
    <3> DEFINE l == j - Len(pending)
               p == all[j].path
    <3>1. l \in 1..Len(fresh) /\ all[j] = fresh[l]
      BY <1>10, <2>2
    <3>2. p \in Paths /\ all[j].seq = nextSeq[p] + 1
      BY <1>2, <3>1
    <3>3. CASE i \in 1..Len(pending)
      <4>1. all[i] \in Entries(pending) /\ all[i].path = p /\ all[i] \in Delta
        BY <1>3, <1>10, <3>3 DEF Entries
      <4>2. all[i] \in Of(p) /\ all[i].seq \in Nat
        BY <4>1, DeltaIs DEF Of
      <4>3. all[i].seq <= nextSeq[p] /\ nextSeq[p] \in Nat
        BY <1>9, <3>2, <4>2 DEF Numbered
      <4> HIDE DEF p
      <4> QED BY <3>2, <4>2, <4>3
    <3>4. CASE ~(i \in 1..Len(pending))
      <4> DEFINE x == i - Len(pending)
      <4>1. x \in 1..Len(fresh) /\ all[i] = fresh[x]
        BY <1>10, <3>4
      <4>2. x = l
        BY <1>2, <3>1, <4>1
      <4> QED BY <1>8, <4>2
    <3> QED BY <3>3, <3>4
  <2> QED BY <2>1, <2>2
<1>12. Ordered(pending)' /\ Ordered(bufferFile)'
  <2>1. Ordered(tail)
    <3> SUFFICES ASSUME NEW i \in 1..Len(tail), NEW j \in 1..Len(tail), i < j, tail[i].path = tail[j].path
                 PROVE  tail[i].seq < tail[j].seq
      BY DEF Ordered
    <3>1. tail[i] = all[i + k] /\ tail[j] = all[j + k]
      BY <1>6
    <3>2. i + k \in 1..Len(all) /\ j + k \in 1..Len(all) /\ i + k < j + k
      <4>1. i \in Nat /\ j \in Nat /\ i > 0 /\ j > 0 /\ i <= Len(all) - k /\ j <= Len(all) - k
        BY <1>6
      <4>2. Len(all) \in Nat
        BY <1>3
      <4> QED BY <1>8, <4>1, <4>2
    <3> QED BY <1>11, <3>1, <3>2 DEF Ordered
  <2> QED BY <1>5, <1>7, <2>1 DEF InStep, Ordered
<1>13. ASSUME NEW p \in Paths PROVE Numbered(p)'
  <2>1. /\ \A d \in Of(p)' : d \in Of(p) \/ (Grew(p, here) /\ d = New(p))
        /\ nextSeq'[p] = IF Grew(p, here) THEN nextSeq[p] + 1 ELSE nextSeq[p]
    BY SampleMakes
  <2>2. watermark'[p] <= nextSeq'[p]
    BY <1>5, <1>9, <2>1 DEF Numbered
  <2>3. ASSUME NEW d \in Of(p)' PROVE d.seq <= nextSeq'[p]
    <3>1. CASE d \in Of(p)
      <4>1. d.seq \in Nat /\ d.seq <= nextSeq[p]
        BY <1>9, <3>1, OfIs DEF Numbered
      <4> QED BY <1>9, <2>1, <4>1
    <3>2. CASE Grew(p, here) /\ d = New(p)
      <4>1. d.seq = nextSeq[p] + 1
        BY <3>2 DEF New
      <4> QED BY <1>9, <2>1, <3>2, <4>1
    <3> QED BY <2>1, <3>1, <3>2
  <2> QED BY <2>2, <2>3 DEF Numbered
<1>14. ASSUME NEW f \in frames', NEW p \in Paths PROVE Covers(f, pending, p, watermark[p])'
  <2>1. f \in frames /\ f \in Seq(Delta) /\ Covers(f, pending, p, watermark[p])
    BY <1>5 DEF InStep, MeteringTypes
  <2>2. ASSUME NEW x \in 1..Len(f), NEW d \in Entries(pending)', f[x].path = p, d.path = p,
               d.seq <= f[x].seq, d.seq > watermark[p]
        PROVE  \E l \in 1..x : f[l] = d
    <3>1. f[x] \in Of(p) /\ f[x].seq \in Nat
      BY <2>1, <2>2, DeltaIs DEF Of, Entries
    <3>2. f[x].seq <= nextSeq[p]
      BY <1>9, <3>1 DEF Numbered
    <3>3. PICK i \in 1..Len(tail) : d = tail[i]
      BY <1>7 DEF Entries
    <3>4. i + k \in 1..Len(all) /\ d = all[i + k] /\ d \in Delta
      BY <1>3, <1>6, <1>8, <3>3
    <3>5. d \in Entries(pending)
      <4> SUFFICES ASSUME d \notin Entries(pending) PROVE FALSE
        OBVIOUS
      <4> DEFINE l == (i + k) - Len(pending)
      <4>1. l \in 1..Len(fresh) /\ d = fresh[l]
        BY <1>10, <3>4
      <4> HIDE DEF l
      <4>2. d.seq = nextSeq[p] + 1
        BY <1>2, <2>2, <4>1
      <4> QED BY <1>9, <2>2, <3>1, <3>2, <4>2
    <3> QED BY <2>1, <2>2, <3>5 DEF Covers
  <2> QED BY <1>5, <2>2 DEF Covers
<1>15. ASSUME writeFails' = 0, sampler' # "persist" PROVE FileHolds'
  <2>1. fresh = <<>> /\ k = 0
    BY <1>5, <1>7, <1>15
  <2>2. pending' = pending
    <3>1. Len(fresh) = 0
      BY <2>1
    <3>2. Len(tail) = Len(pending) /\ \A i \in 1..Len(pending) : tail[i] = pending[i]
      BY <1>3, <1>6, <1>8, <2>1, <3>1
    <3>3. tail = pending
      BY <1>6, <1>8, <3>2
    <3> QED BY <1>7, <3>3
  <2>3. FileHolds
    BY <1>5, <1>15 DEF InStep
  <2>4. UNCHANGED <<bufferFile, pending, watermark>>
    BY <1>5, <2>2
  <2>5. Entries(bufferFile)' = Entries(bufferFile) /\ Entries(pending)' = Entries(pending)
    BY <2>4 DEF Entries
  <2>6. ASSUME NEW p \in Paths, NEW w \in Nat
        PROVE  /\ BytesAbove(bufferFile, p, w)' = BytesAbove(bufferFile, p, w)
               /\ BytesAbove(pending, p, w)' = BytesAbove(pending, p, w)
    BY <2>4 DEF BytesAbove
  <2>7. watermark' = watermark
    BY <2>4
  <2> QED BY <2>3, <2>5, <2>6, <2>7 DEF FileHolds
<1>16. ASSUME NEW p \in Paths PROVE Balanced(p)'
  <2> DEFINE w == watermark[p]
             o == BytesAbove(pending, p, w)
             n == BytesAbove(fresh, p, w)
             h == BytesAbove(head, p, w)
             t == BytesAbove(tail, p, w)
             u == Unsampled(p)
             v == Unsampled(p)'
             x == carried[p]
             y == missed[p]
             z == ledger[p]
  <2>1. BytesAbove(all, p, w) = o + n
    <3>1. Joined(all, pending, fresh)
      BY <1>3 DEF Joined
    <3> QED BY <1>2, <1>3, <1>8, <3>1, SumConcat
  <2>2. BytesAbove(all, p, w) = h + t
    <3>1. Joined(all, head, tail)
      <4>1. Len(all) \in Nat
        BY <1>3
      <4>2. \A i \in 1..Len(tail) : all[Len(head) + i] = tail[i]
        BY <1>6, <1>8, <4>1
      <4> QED BY <1>6, <1>8, <4>1, <4>2 DEF Joined
    <3> QED BY <1>3, <1>6, <3>1, SumConcat
  <2>3. o \in Nat /\ n \in Nat /\ h \in Nat /\ t \in Nat
    BY <1>2, <1>6, <1>8, BytesAreNat
  <2>4. x \in Nat /\ y \in Nat /\ z \in Nat /\ u \in Nat /\ x <= ((z + o) + u) + y
    BY TypeFacts, BalanceParts DEF InStep, Balanced, Accounted, Owed
  <2>5. last'[p] = IF p \in here THEN counter[p] ELSE last[p]
    BY SampleMakes
  <2>6. /\ counter[p] \in Nat /\ last[p] \in Nat \cup {None} /\ None \notin Nat
    BY TypeFacts, ConstantFacts DEF Reading
  <2>7. v = IF last'[p] = None \/ counter[p] < last'[p] THEN 0 ELSE counter[p] - last'[p]
    BY <1>5 DEF Unsampled
  <2>8. u = IF last[p] = None \/ counter[p] < last[p] THEN 0 ELSE counter[p] - last[p]
    BY DEF Unsampled
  <2>9. v \in Nat /\ u <= n + v
    <3>1. CASE p \notin here
      <4>1. v = u
        BY <2>5, <2>7, <2>8, <3>1
      <4> HIDE DEF n, u, v
      <4> QED BY <2>3, <2>4, <4>1
    <3>2. CASE p \in here /\ ~Grew(p, here)
      <4> HIDE DEF n, u, v
      <4>1. last[p] = None \/ ~(counter[p] > last[p])
        BY <3>2 DEF Grew
      <4>2. u = 0
        BY <2>6, <2>8, <4>1
      <4>3. v = 0
        BY <2>5, <2>6, <2>7, <3>2
      <4> QED BY <2>3, <4>2, <4>3
    <3>3. CASE p \in here /\ Grew(p, here)
      <4>1. last[p] \in Nat /\ counter[p] > last[p]
        BY <2>6, <3>3 DEF Grew
      <4>2. PICK i \in 1..Len(fresh) : fresh[i].path = p
        BY <1>2, <3>3
      <4>3. fresh[i].seq = nextSeq[p] + 1 /\ fresh[i].bytes = counter[p] - last[p]
        BY <1>2, <4>2
      <4>4. fresh[i].seq > w
        BY <1>9, <4>3 DEF Numbered
      <4>5. Counts(fresh[i], p, w) = counter[p] - last[p]
        BY <4>2, <4>3, <4>4 DEF Counts
      <4>6. counter[p] - last[p] <= n
        BY <1>2, <4>5, SumAtLeast
      <4> HIDE DEF n, u, v
      <4>7. v = 0
        BY <2>5, <2>6, <2>7, <3>3
      <4>8. u = counter[p] - last[p]
        BY <2>6, <2>8, <4>1
      <4> QED BY <2>3, <2>4, <4>6, <4>7, <4>8
    <3> QED BY <3>1, <3>2, <3>3
  <2>10. Owed(p)' = t
    BY <1>5, <1>7 DEF Owed, BytesAbove
  <2>11. carried'[p] = x /\ missed'[p] = y + h /\ Accounted(p)' = (z + t) + v
    BY <1>5, <1>7, <2>10 DEF Accounted
  <2> HIDE DEF o, n, h, t, u, v, x, y, z
  <2>12. x <= ((z + t) + v) + (y + h)
    BY <2>1, <2>2, <2>3, <2>4, <2>9
  <2> QED BY <2>11, <2>12 DEF Balanced
<1> QED BY <1>12, <1>13, <1>14, <1>15, <1>16 DEF InStep

(* A report is billed: what the watermark passes is in the ledger.         *)
LEMMA BillingInStep ==
    ASSUME MeteringTypes, InStep, NEW f \in frames, NEW unread \in SUBSET (PathsIn(f) \ Unreadable),
           NEW failed \in SUBSET (PathsIn(f) \ (Unreadable \cup unread)), ApplyUsage(f, unread, failed)
    PROVE  InStep'
<1> DEFINE read == PathsIn(f) \ (unread \cup Unreadable)
           b == [q \in read |-> Taken(f, q, watermark[q])]
           done == read \ failed
<1>1. /\ watermark' = [q \in Paths |-> IF q \in done THEN b[q].seen ELSE watermark[q]]
      /\ ledger' = [q \in Paths |-> IF q \in done THEN ledger[q] + b[q].bytes ELSE ledger[q]]
      /\ UNCHANGED <<counter, carried, missed, nextSeq, last, sampler, writeFails, pending, bufferFile>>
      /\ frames' = frames \ {f}
  BY DEF ApplyUsage, Committed, meter, disk, history
<1>2. f \in Seq(Delta) /\ pending \in Seq(Delta) /\ bufferFile \in Seq(Delta)
  BY DEF MeteringTypes
<1>3. ASSUME NEW p \in Paths
      PROVE  \/ watermark'[p] = watermark[p] /\ ledger'[p] = ledger[p]
             \/ /\ watermark'[p] = Taken(f, p, watermark[p]).seen
                /\ ledger'[p] = ledger[p] + Taken(f, p, watermark[p]).bytes
  <2>1. CASE p \in done
    <3>1. b[p] = Taken(f, p, watermark[p])
      BY <2>1
    <3> QED BY <1>1, <2>1, <3>1
  <2>2. CASE p \notin done
    BY <1>1, <2>2
  <2> QED BY <2>1, <2>2
<1> HIDE DEF read, b, done
<1>4. ASSUME NEW p \in Paths
      PROVE  /\ watermark[p] \in Nat /\ watermark'[p] \in Nat /\ watermark'[p] >= watermark[p]
             /\ (watermark'[p] = watermark[p] \/ \E d \in Entries(f) : d.path = p /\ d.seq = watermark'[p])
  <2>1. watermark[p] \in Nat
    BY TypeFacts
  <2> QED BY <1>2, <1>3, <2>1, TakenSeen
<1>5. Ordered(pending)' /\ Ordered(bufferFile)'
  BY <1>1 DEF InStep, Ordered
<1>6. ASSUME NEW p \in Paths PROVE Numbered(p)'
  <2>1. Of(p)' \subseteq Of(p)
    <3>1. Entries(pending)' = Entries(pending) /\ Entries(bufferFile)' = Entries(bufferFile)
          /\ (UNION {Entries(g) : g \in frames})' \subseteq UNION {Entries(g) : g \in frames}
      BY <1>1 DEF Entries
    <3> QED BY <3>1 DEF Of
  <2>2. Numbered(p)
    BY DEF InStep
  <2>3. \A d \in Entries(f) : d.path = p => d \in Of(p)
    BY DEF Of
  <2>4. watermark'[p] <= nextSeq[p]
    BY <1>4, <2>2, <2>3 DEF Numbered
  <2> QED BY <1>1, <2>1, <2>2, <2>4 DEF Numbered
<1>7. ASSUME NEW g \in frames', NEW p \in Paths PROVE Covers(g, pending, p, watermark[p])'
  <2>1. Covers(g, pending, p, watermark[p]) /\ Entries(pending)' = Entries(pending)
    BY <1>1 DEF InStep, Entries
  <2>2. \A d \in Entries(pending) : d.seq \in Nat
    <3>1. \A d \in Entries(pending) : d \in Delta
      BY <1>2 DEF Entries
    <3> QED BY <3>1, DeltaIs
  <2>3. \A d \in Entries(pending) : d.seq > watermark'[p] => d.seq > watermark[p]
    BY <1>4, <2>2
  <2> QED BY <2>1, <2>3 DEF Covers
<1>8. (writeFails = 0 /\ sampler # "persist" => FileHolds)'
  <2> SUFFICES ASSUME FileHolds PROVE FileHolds'
    BY <1>1 DEF InStep
  <2>1. ASSUME NEW p \in Paths, NEW w \in Nat, w >= watermark'[p]
        PROVE  BytesAbove(bufferFile', p, w) = BytesAbove(pending', p, w)
    <3>1. w >= watermark[p]
      BY <1>4, <2>1
    <3>2. BytesAbove(bufferFile, p, w) = BytesAbove(pending, p, w)
      BY <3>1 DEF FileHolds
    <3> QED BY <1>1, <3>2
  <2>2. ASSUME NEW d \in Entries(bufferFile) PROVE d \in Entries(pending) \/ d.seq <= watermark'[d.path]
    <3>1. d \in Delta
      BY <1>2 DEF Entries
    <3>2. d.seq \in Nat /\ d.path \in Paths
      BY <3>1, DeltaIs
    <3>3. d \in Entries(pending) \/ d.seq <= watermark[d.path]
      BY DEF FileHolds
    <3> QED BY <1>4, <3>2, <3>3
  <2>3. Entries(bufferFile)' = Entries(bufferFile) /\ Entries(pending)' = Entries(pending)
    BY <1>1 DEF Entries
  <2>4. \A p \in Paths : \A w \in Nat : (w >= watermark'[p] =>
           BytesAbove(bufferFile, p, w)' = BytesAbove(pending, p, w)')
    BY <2>1 DEF BytesAbove
  <2> QED BY <2>2, <2>3, <2>4 DEF FileHolds
<1>9. ASSUME NEW p \in Paths PROVE Balanced(p)'
  <2>1. Unsampled(p)' = Unsampled(p) /\ Owed(p)' = BytesAbove(pending, p, watermark'[p])
    BY <1>1 DEF Unsampled, Owed, BytesAbove
  <2>2. Balanced(p) /\ Covers(f, pending, p, watermark[p]) /\ Ordered(pending)
    BY DEF InStep
  <2>3. CASE watermark'[p] = watermark[p] /\ ledger'[p] = ledger[p]
    BY <1>1, <2>1, <2>2, <2>3 DEF Balanced, Accounted, Owed
  <2>4. CASE /\ watermark'[p] = Taken(f, p, watermark[p]).seen
             /\ ledger'[p] = ledger[p] + Taken(f, p, watermark[p]).bytes
    <3> DEFINE c == Taken(f, p, watermark[p]).bytes
               o == Owed(p)
               n == BytesAbove(pending, p, watermark'[p])
               u == Unsampled(p)
               x == carried[p]
               y == missed[p]
               z == ledger[p]
    <3>1. o <= c + n
      BY <1>2, <1>4, <2>2, <2>4, TakenCovers DEF Owed
    <3>2. c \in Nat /\ o \in Nat /\ n \in Nat /\ u \in Nat /\ x \in Nat /\ y \in Nat /\ z \in Nat
      BY <1>2, <1>4, TakenIsTally, BytesAreNat, BalanceParts, TypeFacts DEF Tally
    <3>3. x <= ((z + o) + u) + y
      BY <2>2 DEF Balanced, Accounted
    <3>4. carried'[p] = x /\ missed'[p] = y /\ Accounted(p)' = ((z + c) + n) + u
      BY <1>1, <2>1, <2>4 DEF Accounted
    <3> HIDE DEF c, o, n, u, x, y, z
    <3>5. x <= (((z + c) + n) + u) + y
      BY <3>1, <3>2, <3>3
    <3> QED BY <3>4, <3>5 DEF Balanced
  <2> QED BY <1>3, <2>3, <2>4
<1> QED BY <1>5, <1>6, <1>7, <1>8, <1>9 DEF InStep

(* An acknowledgement releases only what is billed.                        *)
LEMMA AckInStep ==
    ASSUME MeteringTypes, InStep, AcksBehind, NEW a \in acks, AckApplied(a)
    PROVE  InStep'
<1>1. /\ UNCHANGED <<counter, carried, missed, nextSeq, last, sampler, writeFails, bufferFile, frames, watermark, ledger>>
      /\ pending' = Unacked(pending, a)
  BY DEF AckApplied, disk, database, history
<1>2. pending \in Seq(Delta) /\ bufferFile \in Seq(Delta)
  BY DEF MeteringTypes
<1>3. \A p \in DOMAIN a : p \in Paths /\ a[p] \in Nat /\ a[p] <= watermark[p]
  BY DEF AcksBehind, MeteringTypes
<1>4. /\ Ordered(Unacked(pending, a)) /\ Entries(Unacked(pending, a)) \subseteq Entries(pending)
      /\ \A d \in Entries(pending) :
           d \in Entries(Unacked(pending, a)) \/ (d.path \in DOMAIN a /\ d.seq <= a[d.path])
  BY <1>2, UnackedOrdered, UnackedWithin DEF InStep
<1>5. ASSUME NEW p \in Paths, NEW w \in Nat, w >= watermark[p]
      PROVE  BytesAbove(Unacked(pending, a), p, w) = BytesAbove(pending, p, w)
  <2>1. p \in DOMAIN a => a[p] \in Nat /\ a[p] <= w
    <3>1. watermark[p] \in Nat
      BY TypeFacts
    <3> QED BY <1>3, <1>5, <3>1
  <2> QED BY <1>2, <2>1, UnackedSum
<1>6. Ordered(pending)' /\ Ordered(bufferFile)'
  BY <1>1, <1>4 DEF InStep, Ordered
<1>7. Entries(pending)' \subseteq Entries(pending) /\ Entries(bufferFile)' = Entries(bufferFile)
      /\ Entries(pending)' = Entries(Unacked(pending, a))
      /\ (UNION {Entries(g) : g \in frames})' = UNION {Entries(g) : g \in frames}
  <2>1. Entries(pending)' = Entries(pending') /\ Entries(bufferFile)' = Entries(bufferFile)
        /\ (UNION {Entries(g) : g \in frames})' = UNION {Entries(g) : g \in frames}
    BY <1>1 DEF Entries
  <2> QED BY <1>1, <1>4, <2>1
<1>8. ASSUME NEW p \in Paths PROVE Numbered(p)'
  <2>1. Of(p)' \subseteq Of(p)
    BY <1>7 DEF Of
  <2> QED BY <1>1, <2>1 DEF InStep, Numbered
<1>9. ASSUME NEW f \in frames', NEW p \in Paths PROVE Covers(f, pending, p, watermark[p])'
  <2>1. Covers(f, pending, p, watermark[p])
    BY <1>1 DEF InStep
  <2> QED BY <1>1, <1>7, <2>1 DEF Covers
<1>10. (writeFails = 0 /\ sampler # "persist" => FileHolds)'
  <2> SUFFICES ASSUME FileHolds PROVE FileHolds'
    BY <1>1 DEF InStep
  <2>1. ASSUME NEW p \in Paths, NEW w \in Nat, w >= watermark[p]
        PROVE  BytesAbove(bufferFile, p, w) = BytesAbove(Unacked(pending, a), p, w)
    BY <1>5, <2>1 DEF FileHolds
  <2>2. \A p \in Paths : \A w \in Nat : (w >= watermark'[p] =>
           BytesAbove(bufferFile, p, w)' = BytesAbove(pending, p, w)')
    <3>1. \A p \in Paths : \A w \in Nat : (w >= watermark'[p] =>
             BytesAbove(bufferFile', p, w) = BytesAbove(pending', p, w))
      BY <1>1, <2>1
    <3> QED BY <3>1 DEF BytesAbove
  <2>3. ASSUME NEW d \in Entries(bufferFile)
        PROVE  d \in Entries(Unacked(pending, a)) \/ d.seq <= watermark[d.path]
    <3>1. d \in Delta
      BY <1>2 DEF Entries
    <3>2. d.seq \in Nat /\ d.path \in Paths /\ watermark[d.path] \in Nat
      BY <3>1, DeltaIs, TypeFacts
    <3>3. d \in Entries(pending) \/ d.seq <= watermark[d.path]
      BY DEF FileHolds
    <3> QED BY <1>3, <1>4, <3>2, <3>3
  <2> QED BY <1>1, <1>7, <2>2, <2>3 DEF FileHolds
<1>11. ASSUME NEW p \in Paths PROVE Balanced(p)'
  <2>1. watermark[p] \in Nat /\ watermark[p] >= watermark[p]
    BY TypeFacts
  <2>2. BytesAbove(Unacked(pending, a), p, watermark[p]) = BytesAbove(pending, p, watermark[p])
    BY <1>5, <2>1
  <2>3. Owed(p)' = BytesAbove(pending', p, watermark[p])
    BY <1>1 DEF Owed, BytesAbove
  <2>4. Owed(p)' = Owed(p) /\ Unsampled(p)' = Unsampled(p)
    BY <1>1, <2>2, <2>3 DEF Owed, Unsampled
  <2> QED BY <1>1, <2>4 DEF InStep, Balanced, Accounted
<1> QED BY <1>6, <1>8, <1>9, <1>10, <1>11 DEF InStep

LEMMA AcksStep ==
    ASSUME MeteringTypes, AcksBehind, [MeteringNext]_meteringVars
    PROVE  AcksBehind'
<1>1. CASE acks' \subseteq acks /\ watermark' = watermark
  BY <1>1 DEF AcksBehind
<1>2. ASSUME NEW f \in frames, NEW unread \in SUBSET (PathsIn(f) \ Unreadable),
             NEW failed \in SUBSET (PathsIn(f) \ (Unreadable \cup unread)), ApplyUsage(f, unread, failed)
      PROVE  AcksBehind'
  <2> DEFINE read == PathsIn(f) \ (unread \cup Unreadable)
             b == [p \in read |-> Taken(f, p, watermark[p])]
             done == read \ failed
             a == [p \in read |-> IF p \in done THEN b[p].seen ELSE watermark[p]]
  <2>1. f \in Seq(Delta)
    BY DEF MeteringTypes
  <2>2. read \in SUBSET Paths
    <3>1. \A i \in 1..Len(f) : f[i].path \in Paths
      BY <2>1, DeltaIs
    <3> QED BY <3>1 DEF PathsIn
  <2>3. /\ watermark' = [p \in Paths |-> IF p \in done THEN b[p].seen ELSE watermark[p]]
        /\ acks' = acks \/ acks' = acks \cup {a}
    BY <1>2 DEF ApplyUsage, Committed
  <2>4. ASSUME NEW p \in read PROVE b[p].seen \in Nat /\ b[p].seen >= watermark[p]
    <3>1. watermark[p] \in Nat /\ b[p] = Taken(f, p, watermark[p])
      BY <2>2, TypeFacts
    <3> QED BY <2>1, <3>1, TakenSeen
  <2>5. DOMAIN a = read /\ \A p \in read : a[p] = IF p \in done THEN b[p].seen ELSE watermark[p]
    OBVIOUS
  <2> HIDE DEF b, a, read, done
  <2>6. done \in SUBSET read
    BY DEF done
  <2>7. \A p \in Paths : watermark'[p] \in Nat /\ watermark[p] \in Nat /\ watermark'[p] >= watermark[p]
    BY <2>3, <2>4, <2>6, TypeFacts
  <2>8. \A p \in DOMAIN a : a[p] <= watermark'[p]
    BY <2>2, <2>3, <2>5, <2>7
  <2>9. ASSUME NEW c \in acks, NEW p \in DOMAIN c PROVE c[p] <= watermark'[p]
    <3>1. p \in Paths /\ c[p] \in Nat /\ c[p] <= watermark[p]
      BY DEF AcksBehind, MeteringTypes
    <3> QED BY <2>7, <3>1
  <2> QED BY <2>3, <2>8, <2>9 DEF AcksBehind
<1> QED
  BY <1>1, <1>2 DEF MeteringNext, meteringVars, Traffic, CounterReset, Sample, SamplePersists, SampleSaves,
     AckPersists, Crash, Report, Disconnect, AckApplied, wire, database

LEMMA InStepStep ==
    ASSUME MeteringTypes, MeteringTypes', BooksInv, StepInv, [MeteringNext]_meteringVars
    PROVE  StepInv'
<1>1. AcksBehind'
  BY AcksStep DEF StepInv
<1> SUFFICES ASSUME FilesKept', ~torn' PROVE InStep'
  BY <1>1 DEF StepInv
<1>2. /\ FilesKept /\ ~torn
      /\ Crash => writeFails = 0 /\ sampler = "idle"
  <2>0. writeFails \in Nat /\ crashes \in Nat
    BY TypeFacts
  <2>1. writeFails' \in {writeFails, writeFails + 1} /\ crashes' \in {crashes, crashes + 1}
    <3>1. CASE UNCHANGED <<writeFails, crashes>>
      BY <3>1
    <3>2. CASE SamplePersists \/ SampleSaves \/ AckPersists
      BY <3>2 DEF SamplePersists, SampleSaves, AckPersists, Write
    <3>3. CASE Crash
      BY <3>3 DEF Crash
    <3> QED
      BY <3>1, <3>2, <3>3 DEF MeteringNext, meteringVars, Traffic, CounterReset, Sample, Report,
         Disconnect, ApplyUsage, AckApplied
  <2>2. Crash => crashes' = crashes + 1 /\ writeFails' = writeFails
    BY DEF Crash
  <2>3. FilesKept /\ (Crash => writeFails = 0)
    BY <2>0, <2>1, <2>2 DEF FilesKept
  <2>4. Crash => ~torn /\ sampler = "idle"
    BY Zenon DEF Crash
  <2>5. ~Crash => torn' = torn
    BY DEF MeteringNext, meteringVars, history, Traffic, CounterReset, Sample, SamplePersists, SampleSaves,
       AckPersists, Report, Disconnect, ApplyUsage, AckApplied
  <2>6. ~torn
    <3>1. CASE Crash
      BY <2>4, <3>1
    <3>2. CASE ~Crash
      <4>1. torn' = torn
        BY <2>5, <3>2
      <4> QED BY <4>1
    <3> QED BY <3>1, <3>2
  <2> QED BY <2>3, <2>4, <2>6
<1>3. InStep /\ AcksBehind
  BY <1>2 DEF StepInv
<1>4. CASE UNCHANGED meteringVars
  <2>1. UNCHANGED <<counter, carried, missed, nextSeq, last, sampler, writeFails, pending, bufferFile, frames, watermark, ledger>>
    BY <1>4 DEF meteringVars, meter, disk, wire, database, history
  <2>2. Ordered(pending)' /\ Ordered(bufferFile)'
    BY <1>3, <2>1 DEF InStep, Ordered
  <2>3. ASSUME NEW p \in Paths PROVE Numbered(p)' /\ Balanced(p)'
    BY <1>3, <2>1 DEF InStep, Numbered, Of, Entries, Balanced, Accounted, Owed, Unsampled, BytesAbove
  <2>4. \A f \in frames' : \A p \in Paths : Covers(f, pending, p, watermark[p])'
    BY <1>3, <2>1 DEF InStep, Covers, Entries
  <2>5. FileHolds => FileHolds'
    BY <2>1 DEF FileHolds, BytesAbove, Entries
  <2>6. (writeFails = 0 /\ sampler # "persist" => FileHolds)'
    BY <1>3, <2>1, <2>5 DEF InStep
  <2> QED BY <2>2, <2>3, <2>4, <2>6 DEF InStep
<1>5. CASE Crash
  BY <1>2, <1>3, <1>5, CrashInStep
<1> QED
  BY <1>3, <1>4, <1>5, TrafficInStep, SampleInStep, WriteInStep, WireInStep, BillingInStep, AckInStep, Zenon
  DEF MeteringNext

LEMMA InStepOpen == MeteringInit => StepInv
<1> SUFFICES ASSUME MeteringInit PROVE StepInv
  OBVIOUS
<1>1. MeteringTypes
  BY MeteringStarts
<1>2. /\ \A p \in Paths : /\ counter[p] = 0 /\ carried[p] = 0 /\ nextSeq[p] = 0 /\ watermark[p] = 0
                          /\ ledger[p] = 0 /\ missed[p] = 0
      /\ pending = <<>> /\ bufferFile = <<>> /\ frames = {} /\ acks = {}
  BY DEF MeteringInit
<1>3. Entries(pending) = {} /\ Entries(bufferFile) = {} /\ Ordered(pending) /\ Ordered(bufferFile)
  BY <1>2 DEF Entries, Ordered
<1>4. ASSUME NEW p \in Paths PROVE Numbered(p) /\ Balanced(p)
  <2>1. Of(p) = {}
    BY <1>2, <1>3 DEF Of
  <2>2. Owed(p) \in Nat /\ Unsampled(p) \in Nat
    BY <1>1, BalanceParts
  <2>3. 0 <= ((0 + Owed(p)) + Unsampled(p)) + 0
    BY <2>2
  <2> QED BY <1>2, <2>1, <2>3 DEF Numbered, Balanced, Accounted
<1>5. FileHolds
  BY <1>2, <1>3 DEF FileHolds
<1> QED BY <1>2, <1>3, <1>4, <1>5 DEF StepInv, AcksBehind, InStep

(* In step, what is billed, owed and not yet read is within the traffic.   *)
LEMMA WithinTraffic ==
    ASSUME MeteringTypes, BooksInv, FilesKept, InStep, NEW p \in Paths
    PROVE  Accounted(p) <= carried[p]
<1>1. PICK pos \in Nat, spos \in Nat, to \in [Delta -> Nat] : Books(p, pos, spos, to)
  BY DEF BooksInv, InBooks
<1>2. Chain(p, to) /\ Placed(p, nextSeq[p], pos, to) /\ Read(p, last[p], pos)
  BY <1>1 DEF Books
<1> DEFINE w == watermark[p]
           z == ledger[p]
           o == Owed(p)
           u == Unsampled(p)
           x == carried[p]
<1>3. w \in Nat /\ z \in Nat /\ o \in Nat /\ u \in Nat /\ x \in Nat /\ nextSeq[p] \in Nat
      /\ counter[p] \in Nat /\ last[p] \in Nat \cup {None} /\ None \notin Nat
  BY TypeFacts, BalanceParts, ConstantFacts DEF Reading
<1>4. pending \in Seq(Delta) /\ Ordered(pending) /\ Numbered(p)
  BY DEF InStep, MeteringTypes
<1>5. \A d \in Entries(pending) : d.path = p => d \in Of(p)
  BY DEF Of
<1>6. \/ o = 0
      \/ \E d \in Entries(pending) : d.path = p /\ z + o <= to[d]
  <2>1. \A d \in Entries(pending) : d.path = p /\ d.seq > w => z + d.bytes <= to[d]
    BY <1>2, <1>5 DEF Chain
  <2>2. \A d, e \in Entries(pending) : d.path = p /\ e.path = p /\ d.seq < e.seq => to[d] + e.bytes <= to[e]
    BY <1>2, <1>5 DEF Chain
  <2>3. o = BytesAbove(pending, p, w)
    BY DEF Owed
  <2> HIDE DEF w, z, o
  <2> QED BY <1>3, <1>4, <2>1, <2>2, <2>3, SumEnds
<1>7. z + o <= pos
  <2>1. CASE o = 0
    <3>1. z <= pos
      BY <1>2, <1>4 DEF Placed, Numbered
    <3> HIDE DEF o, z
    <3> QED BY <1>3, <2>1, <3>1
  <2>2. CASE o # 0
    <3>1. PICK d \in Entries(pending) : d.path = p /\ z + o <= to[d]
      BY <1>6, <2>2
    <3>2. d \in Of(p) /\ d.seq \in Nat /\ to[d] \in Nat
      BY <1>5, <3>1, OfIs
    <3>3. to[d] <= pos
      BY <1>2, <1>4, <3>2 DEF Placed, Numbered
    <3> HIDE DEF o, z
    <3> QED BY <1>3, <3>1, <3>2, <3>3
  <2> QED BY <2>1, <2>2
<1>8. u + pos <= x
  <2>1. pos <= x
    BY <1>2 DEF Placed
  <2>2. last[p] # None => counter[p] + pos <= x + last[p]
    BY <1>2 DEF Read
  <2>3. u = IF last[p] = None \/ counter[p] < last[p] THEN 0 ELSE counter[p] - last[p]
    BY DEF Unsampled
  <2> HIDE DEF u, x
  <2> QED BY <1>3, <2>1, <2>2, <2>3
<1>9. Accounted(p) = (z + o) + u
  BY DEF Accounted
<1> HIDE DEF z, o, u, x
<1>10. (z + o) + u <= x
  BY <1>3, <1>7, <1>8
<1> QED BY <1>9, <1>10 DEF x

(* Every byte is in the ledger, owed, not yet read or missed, and in only  *)
(* one of them, for any paths, buffer, batch, faults and reports.          *)
THEOREM BytesAccountedFor == MeteringSpec => []EveryByteOnce
<1> DEFINE Inv == MeteringTypes /\ BooksInv /\ StepInv
<1>1. MeteringInit => Inv
  BY MeteringStarts, BooksOpen, InStepOpen
<1>2. Inv /\ [MeteringNext]_meteringVars => Inv'
  BY MeteringTyped, BooksStep, InStepStep
<1>3. Inv => EveryByteOnce
  <2> SUFFICES ASSUME Inv, FilesKept, ~torn, NEW p \in Paths
               PROVE  Accounted(p) <= carried[p] /\ carried[p] <= Accounted(p) + missed[p]
    BY DEF EveryByteOnce
  <2>1. InStep
    BY DEF StepInv
  <2> QED BY <2>1, WithinTraffic DEF InStep, Balanced
<1> QED BY <1>1, <1>2, <1>3, PTL DEF MeteringSpec

-----------------------------------------------------------------------------
(* Edge protection.  Sequences laid end to end keep their order.           *)

(* A flattened sequence names, for each of its places, the member it comes *)
(* from and the place in it, in their order.                               *)
IsFlat(u, ss, n) ==
    \E b \in [1..Len(u) -> 1..n], o \in [1..Len(u) -> Nat] :
        /\ \A i \in 1..Len(u) : o[i] \in 1..Len(ss[b[i]]) /\ u[i] = ss[b[i]][o[i]]
        /\ \A i, j \in 1..Len(u) : i < j => b[i] < b[j] \/ (b[i] = b[j] /\ o[i] < o[j])

LEMMA FlatAppend ==
    ASSUME NEW S, NEW ss \in Seq(Seq(S)), NEW n \in Nat, n + 1 \in 1..Len(ss),
           NEW u \in Seq(S), IsFlat(u, ss, n)
    PROVE  u \o ss[n + 1] \in Seq(S) /\ IsFlat(u \o ss[n + 1], ss, n + 1)
<1> DEFINE t == ss[n + 1]
           v == u \o t
<1>1. t \in Seq(S) /\ Len(t) \in Nat /\ Len(u) \in Nat
  OBVIOUS
<1> HIDE DEF t
<1>2. /\ v \in Seq(S) /\ Len(v) = Len(u) + Len(t)
      /\ \A i \in 1..Len(u) : v[i] = u[i]
      /\ \A i \in 1..Len(v) : i > Len(u) => i - Len(u) \in 1..Len(t) /\ v[i] = t[i - Len(u)]
  BY <1>1
<1> HIDE DEF v
<1>3. PICK b \in [1..Len(u) -> 1..n], o \in [1..Len(u) -> Nat] :
        /\ \A i \in 1..Len(u) : o[i] \in 1..Len(ss[b[i]]) /\ u[i] = ss[b[i]][o[i]]
        /\ \A i, j \in 1..Len(u) : i < j => b[i] < b[j] \/ (b[i] = b[j] /\ o[i] < o[j])
  BY DEF IsFlat
<1> DEFINE c == [i \in 1..Len(v) |-> IF i <= Len(u) THEN b[i] ELSE n + 1]
           q == [i \in 1..Len(v) |-> IF i <= Len(u) THEN o[i] ELSE i - Len(u)]
<1>4. ASSUME NEW i \in 1..Len(v)
      PROVE  /\ i <= Len(u) => i \in 1..Len(u) /\ c[i] = b[i] /\ q[i] = o[i] /\ b[i] \in 1..n
             /\ i > Len(u) => c[i] = n + 1 /\ q[i] = i - Len(u) /\ q[i] \in Nat
  <2>1. CASE i <= Len(u)
    <3>1. i \in 1..Len(u) /\ ~ (i > Len(u))
      BY <1>1, <1>2, <2>1
    <3> QED BY <1>3, <2>1, <3>1
  <2>2. CASE ~ (i <= Len(u))
    <3>1. i > Len(u) /\ i - Len(u) \in Nat
      BY <1>1, <1>2, <2>2
    <3> QED BY <2>2, <3>1
  <2> QED BY <2>1, <2>2
<1>5. c \in [1..Len(v) -> 1..(n + 1)] /\ q \in [1..Len(v) -> Nat]
  <2>1. \A i \in 1..Len(v) : c[i] \in 1..(n + 1)
    BY <1>1, <1>4
  <2>2. \A i \in 1..Len(v) : q[i] \in Nat
    BY <1>1, <1>3, <1>4
  <2> QED BY <2>1, <2>2
<1> HIDE DEF c, q
<1>6. ASSUME NEW i \in 1..Len(v) PROVE q[i] \in 1..Len(ss[c[i]]) /\ v[i] = ss[c[i]][q[i]]
  <2>1. CASE i <= Len(u)
    BY <1>2, <1>3, <1>4, <2>1
  <2>2. CASE i > Len(u)
    BY <1>2, <1>4, <2>2, SMTT(20) DEF t
  <2> QED BY <1>1, <2>1, <2>2
<1>7. ASSUME NEW i \in 1..Len(v), NEW j \in 1..Len(v), i < j
      PROVE  c[i] < c[j] \/ (c[i] = c[j] /\ q[i] < q[j])
  <2>1. CASE j <= Len(u)
    <3>1. i <= Len(u)
      BY <1>1, <1>7, <2>1
    <3>2. i \in 1..Len(u) /\ j \in 1..Len(u)
      BY <1>4, <2>1, <3>1
    <3>3. c[i] = b[i] /\ c[j] = b[j] /\ q[i] = o[i] /\ q[j] = o[j]
      BY <1>4, <2>1, <3>1
    <3> QED BY <1>3, <1>7, <3>2, <3>3
  <2>2. CASE i <= Len(u) /\ j > Len(u)
    BY <1>1, <1>4, <2>2
  <2>3. CASE i > Len(u)
    <3>1. j > Len(u)
      BY <1>1, <1>7, <2>3
    <3> QED BY <1>1, <1>4, <1>7, <2>3, <3>1
  <2> QED BY <1>1, <2>1, <2>2, <2>3
<1>8. IsFlat(v, ss, n + 1)
  <2> SUFFICES \E c1 \in [1..Len(v) -> 1..(n + 1)], q1 \in [1..Len(v) -> Nat] :
                 /\ \A i \in 1..Len(v) : q1[i] \in 1..Len(ss[c1[i]]) /\ v[i] = ss[c1[i]][q1[i]]
                 /\ \A i, j \in 1..Len(v) :
                      i < j => c1[i] < c1[j] \/ (c1[i] = c1[j] /\ q1[i] < q1[j])
    BY DEF IsFlat
  <2> USE <1>5
  <2> WITNESS c \in [1..Len(v) -> 1..(n + 1)], q \in [1..Len(v) -> Nat]
  <2>1. \A i \in 1..Len(v) : q[i] \in 1..Len(ss[c[i]]) /\ v[i] = ss[c[i]][q[i]]
    BY <1>6
  <2>2. \A i, j \in 1..Len(v) : i < j => c[i] < c[j] \/ (c[i] = c[j] /\ q[i] < q[j])
    BY <1>7
  <2> QED BY <2>1, <2>2
<1> QED BY <1>2, <1>8 DEF v, t

LEMMA FlattenIs ==
    ASSUME NEW S, NEW ss \in Seq(Seq(S))
    PROVE  FlattenSeq(ss) \in Seq(S) /\ IsFlat(FlattenSeq(ss), ss, Len(ss))
<1>1. CASE Len(ss) = 0
  <2>1. ss = <<>> /\ FlattenSeq(ss) = ss
    BY <1>1 DEF FlattenSeq
  <2>2. FlattenSeq(ss) = <<>> /\ Len(FlattenSeq(ss)) = 0
    BY <2>1
  <2>3. [i \in {} |-> 1] \in [1..0 -> 1..Len(ss)] /\ [i \in {} |-> 1] \in [1..0 -> Nat]
    OBVIOUS
  <2>4. IsFlat(FlattenSeq(ss), ss, Len(ss))
    BY <2>2, <2>3 DEF IsFlat
  <2> QED BY <2>2, <2>4
<1>2. CASE Len(ss) # 0
  <2> DEFINE m == Len(ss) - 1
             D == Seq(S)
             G == [x \in (1..m) \X D |-> x[2] \o ss[x[1] + 1]]
             Eq(f) == f = [i \in 1..Len(ss) |-> IF i = 1 THEN ss[i] ELSE f[i - 1] \o ss[i]]
  <2>1. m \in Nat /\ Len(ss) \in Nat /\ m + 1 = Len(ss) /\ ss[1] \in D
    BY <1>2
  <2>2. \A n \in 1..m, v \in D : v \o ss[n + 1] \in D
    BY <2>1
  <2>3. G \in [(1..m) \X D -> D] /\ \A n \in 1..m, v \in D : G[<<n, v>>] = v \o ss[n + 1]
    <3> HIDE DEF D, m
    <3> QED BY <2>2
  <2>4. PICK w : IsWalk(w, m, D, ss[1], G)
    <3> HIDE DEF G, D, m
    <3> QED BY <2>1, <2>3, WalkExists, Zenon
  <2> HIDE DEF G, m
  <2> DEFINE h == [i \in 1..Len(ss) |-> w[i - 1]]
  <2>5. ASSUME NEW i \in 1..Len(ss) PROVE h[i] = IF i = 1 THEN ss[i] ELSE h[i - 1] \o ss[i]
    <3>1. CASE i = 1
      BY <2>1, <2>4, <3>1 DEF IsWalk
    <3>2. CASE i # 1
      <4>1. i - 1 \in 1..m /\ i - 1 \in 1..Len(ss) /\ (i - 1) + 1 = i
        BY <2>1, <3>2
      <4>2. w[i - 1] = G[<<i - 1, w[(i - 1) - 1]>>] /\ w[(i - 1) - 1] \in D
        BY <2>4, <4>1 DEF IsWalk
      <4>3. w[i - 1] = w[(i - 1) - 1] \o ss[i]
        BY <2>3, <4>1, <4>2
      <4> QED BY <3>2, <4>1, <4>3
    <3> QED BY <3>1, <3>2
  <2>6. Eq(h)
    BY <2>5
  <2> DEFINE F == CHOOSE f : Eq(f)
  <2>7. Eq(F)
    <3> HIDE DEF Eq, h
    <3> QED BY <2>6, Zenon
  <2>8. FlattenSeq(ss) = F[Len(ss)]
    BY <1>2 DEF FlattenSeq
  <2> HIDE DEF F
  <2>9. /\ F[1] = ss[1]
        /\ \A i \in 1..Len(ss) : i # 1 => F[i] = F[i - 1] \o ss[i]
    <3>1. \A i \in 1..Len(ss) : F[i] = IF i = 1 THEN ss[i] ELSE F[i - 1] \o ss[i]
      BY <2>7
    <3>2. 1 \in 1..Len(ss)
      BY <2>1
    <3> QED BY <3>1, <3>2
  <2> HIDE DEF Eq, D
  <2> DEFINE T == {n \in Nat : n + 1 <= Len(ss) => F[n + 1] \in Seq(S) /\ IsFlat(F[n + 1], ss, n + 1)}
  <2>10. 0 \in T
    <3>1. <<>> \in Seq(S) /\ <<>> \o ss[1] = ss[1] /\ Len(<<>>) = 0
      BY <2>1 DEF D
    <3>2. [i \in {} |-> 1] \in [1..0 -> 1..0] /\ [i \in {} |-> 1] \in [1..0 -> Nat]
      OBVIOUS
    <3>3. IsFlat(<<>>, ss, 0)
      BY <3>1, <3>2 DEF IsFlat
    <3>4. 0 + 1 \in 1..Len(ss) /\ 0 + 1 = 1
      BY <2>1
    <3>5. <<>> \o ss[0 + 1] \in Seq(S) /\ IsFlat(<<>> \o ss[0 + 1], ss, 0 + 1)
      BY <3>1, <3>3, <3>4, FlatAppend
    <3>6. F[0 + 1] = <<>> \o ss[0 + 1]
      BY <2>9, <3>1, <3>4
    <3> QED BY <3>5, <3>6
  <2>11. ASSUME NEW n \in T PROVE n + 1 \in T
    <3> SUFFICES ASSUME (n + 1) + 1 <= Len(ss)
                 PROVE  F[(n + 1) + 1] \in Seq(S) /\ IsFlat(F[(n + 1) + 1], ss, (n + 1) + 1)
      OBVIOUS
    <3>1. /\ n \in Nat /\ n + 1 \in Nat /\ n + 1 <= Len(ss) /\ (n + 1) + 1 \in 1..Len(ss)
          /\ (n + 1) + 1 # 1 /\ ((n + 1) + 1) - 1 = n + 1
      BY <2>1
    <3>2. F[n + 1] \in Seq(S) /\ IsFlat(F[n + 1], ss, n + 1)
      BY <3>1
    <3>3. F[(n + 1) + 1] = F[n + 1] \o ss[(n + 1) + 1]
      BY <2>9, <3>1
    <3> QED BY <3>1, <3>2, <3>3, FlatAppend
  <2>12. T = Nat
    <3> HIDE DEF T
    <3>1. T \in SUBSET Nat
      BY DEF T
    <3> QED BY <2>10, <2>11, <3>1, Induction
  <2>13. m \in T
    BY <2>1, <2>12
  <2>14. F[m + 1] \in Seq(S) /\ IsFlat(F[m + 1], ss, m + 1)
    BY <2>1, <2>13
  <2> QED BY <2>1, <2>8, <2>14
<1> QED BY <1>1, <1>2

(* Suffixes tell names apart, so one of them is free.                      *)
LEMMA SuffixesDiffer ==
    ASSUME NEW S, NEW base \in Seq(S), NEW i \in Nat, NEW j \in Nat,
           Suffixed(base, i) = Suffixed(base, j)
    PROVE  i = j
<1> DEFINE l == Len(base) + 1
<1>1. Len(base) \in Nat
  OBVIOUS
<1>2. \A n \in Nat : n # 1 => /\ Suffixed(base, n) = Append(base, n)
                              /\ Len(Suffixed(base, n)) = l /\ Suffixed(base, n)[l] = n
  <2> SUFFICES ASSUME NEW n \in Nat, n # 1
               PROVE  /\ Suffixed(base, n) = Append(base, n)
                      /\ Len(Suffixed(base, n)) = l /\ Suffixed(base, n)[l] = n
    OBVIOUS
  <2>1. Suffixed(base, n) = Append(base, n)
    BY DEF Suffixed
  <2>2. base \in Seq(S \cup {n}) /\ n \in S \cup {n}
    OBVIOUS
  <2>3. Len(Append(base, n)) = l /\ Append(base, n)[l] = n
    BY <2>2
  <2> QED BY <2>1, <2>3
<1>3. Len(Suffixed(base, 1)) = Len(base)
  BY DEF Suffixed
<1>4. CASE i # 1 /\ j # 1
  <2>1. Suffixed(base, i)[l] = i /\ Suffixed(base, j)[l] = j
    BY <1>2, <1>4
  <2> QED BY <2>1
<1>5. CASE i = 1 \/ j = 1
  <2>1. ASSUME NEW n \in Nat, Suffixed(base, 1) = Suffixed(base, n) PROVE n = 1
    <3>1. n # 1 => Len(Suffixed(base, n)) = Len(base) + 1
      BY <1>2
    <3>2. Len(Suffixed(base, n)) = Len(base)
      BY <1>3, <2>1
    <3> QED BY <1>1, <3>1, <3>2
  <2> QED BY <1>5, <2>1
<1> QED BY <1>4, <1>5

LEMMA UniqueNameIs ==
    ASSUME NEW S, NEW base \in Seq(S), NEW taken, IsFiniteSet(taken)
    PROVE  \E n \in Nat \ {0} : /\ UniqueName(taken, base) = Suffixed(base, n)
                                /\ UniqueName(taken, base) \notin taken
<1> DEFINE c == Cardinality(taken)
           Free(n) == Suffixed(base, n) \notin taken
           Least(n) == Free(n) /\ \A k \in 1..(n - 1) : Suffixed(base, k) \in taken
<1>1. c \in Nat
  BY FS_CardinalityType
<1>2. \E n \in 1..(c + 1) : Free(n)
  <2> SUFFICES ASSUME \A n \in 1..(c + 1) : Suffixed(base, n) \in taken PROVE FALSE
    OBVIOUS
  <2> DEFINE f == [n \in 1..(c + 1) |-> Suffixed(base, n)]
  <2>1. f \in [1..(c + 1) -> taken] /\ \A n \in 1..(c + 1) : f[n] = Suffixed(base, n)
    OBVIOUS
  <2>2. IsFiniteSet(1..(c + 1)) /\ Cardinality(1..(c + 1)) = c + 1
    <3>1. 1 \in Int /\ c + 1 \in Int /\ ~ (1 > c + 1) /\ (c + 1) - 1 + 1 = c + 1
      BY <1>1
    <3> QED BY <3>1, FS_Interval
  <2>3. Cardinality(taken) < Cardinality(1..(c + 1))
    BY <1>1, <2>2
  <2> HIDE DEF f
  <2>4. \E x, y \in 1..(c + 1) : x # y /\ f[x] = f[y]
    <3> DEFINE A == 1..(c + 1)
    <3>1. IsFiniteSet(A) /\ Cardinality(taken) < Cardinality(A) /\ f \in [A -> taken]
      BY <2>1, <2>2, <2>3
    <3> HIDE DEF A
    <3>2. \E x, y \in A : x # y /\ f[x] = f[y]
      BY <3>1, FS_PigeonHole, Zenon
    <3> QED BY <3>2 DEF A
  <2>5. PICK x \in 1..(c + 1), y \in 1..(c + 1) : x # y /\ Suffixed(base, x) = Suffixed(base, y)
    BY <2>1, <2>4
  <2>6. x \in Nat /\ y \in Nat
    OBVIOUS
  <2> QED BY <2>5, <2>6, SuffixesDiffer
<1>3. \E n \in 1..(c + 1) : Least(n)
  <2> DEFINE T == {n \in Nat : \A k \in 1..n : ~Free(k)}
  <2>1. SUFFICES ASSUME ~ \E n \in 1..(c + 1) : Least(n) PROVE FALSE
    OBVIOUS
  <2> DEFINE U == {n \in Nat : n <= c + 1 => n \in T}
  <2>2. 0 \in U
    OBVIOUS
  <2>3. ASSUME NEW n \in U PROVE n + 1 \in U
    <3> SUFFICES ASSUME n + 1 <= c + 1 PROVE n + 1 \in T
      OBVIOUS
    <3>1. n \in Nat /\ n + 1 \in 1..(c + 1) /\ (n + 1) - 1 = n
      BY <1>1
    <3>2. \A k \in 1..n : ~Free(k)
      BY <1>1, <3>1
    <3>3. ~Least(n + 1)
      BY <2>1, <3>1
    <3>4. ~Free(n + 1)
      BY <3>1, <3>2, <3>3
    <3> HIDE DEF Free
    <3> QED BY <3>1, <3>2, <3>4
  <2>4. U = Nat
    <3> HIDE DEF U
    <3>1. U \in SUBSET Nat
      BY DEF U
    <3> QED BY <2>2, <2>3, <3>1, Induction
  <2>5. c + 1 \in T
    BY <1>1, <2>4
  <2> HIDE DEF Free
  <2> QED BY <1>1, <1>2, <2>5
<1> DEFINE N == CHOOSE n \in 1..(c + 1) : Least(n)
<1>4. N \in 1..(c + 1) /\ Least(N)
  <2> HIDE DEF Least
  <2> QED BY <1>3, Zenon
<1>5. UniqueName(taken, base) = Suffixed(base, N)
  BY DEF UniqueName
<1> HIDE DEF N
<1>6. N \in Nat \ {0}
  BY <1>1, <1>4
<1> QED BY <1>4, <1>5, <1>6

LEMMA FiniteEntries ==
    ASSUME NEW X, NEW s \in Seq(X)
    PROVE  IsFiniteSet(ToSet(s))
<1>1. Len(s) \in Nat /\ DOMAIN s = 1..Len(s) /\ s \in Surjection(1..Len(s), ToSet(s))
  BY DEF ToSet, Surjection
<1>2. IsFiniteSet(1..Len(s))
  BY <1>1, FS_Interval
<1> QED BY <1>1, <1>2, FS_Surjection, Zenon

(* Names given in turn are told apart, and each is its own base suffixed.  *)
AreNames(s, bases, n) ==
    /\ Len(s) = n
    /\ \A i, j \in 1..n : s[i] = s[j] => i = j
    /\ \A i \in 1..n : \E k \in Nat \ {0} : s[i] = Suffixed(bases[i], k)

LEMMA NamesAppend ==
    ASSUME NEW S, NEW bases \in Seq(Seq(S)), NEW n \in Nat, n + 1 \in 1..Len(bases),
           NEW X, NEW s \in Seq(X), AreNames(s, bases, n)
    PROVE  /\ \E k \in Nat \ {0} : UniqueName(ToSet(s), bases[n + 1]) = Suffixed(bases[n + 1], k)
           /\ AreNames(Append(s, UniqueName(ToSet(s), bases[n + 1])), bases, n + 1)
<1> DEFINE u == UniqueName(ToSet(s), bases[n + 1])
           t == Append(s, u)
<1>1. Len(s) = n /\ DOMAIN s = 1..n /\ bases[n + 1] \in Seq(S)
  BY DEF AreNames
<1>2. IsFiniteSet(ToSet(s))
  BY FiniteEntries
<1>3. PICK k \in Nat \ {0} : u = Suffixed(bases[n + 1], k) /\ u \notin ToSet(s)
  BY <1>1, <1>2, UniqueNameIs
<1> HIDE DEF u
<1>4. \A i \in 1..n : s[i] # u
  BY <1>1, <1>3 DEF ToSet
<1>5. /\ Len(t) = n + 1 /\ t[n + 1] = u
      /\ \A i \in 1..n : t[i] = s[i]
  <2>1. s \in Seq(X \cup {u})
    OBVIOUS
  <2> QED BY <1>1, <2>1
<1> HIDE DEF t
<1>6. ASSUME NEW i \in 1..(n + 1), NEW j \in 1..(n + 1), t[i] = t[j] PROVE i = j
  <2>1. \A l \in 1..(n + 1) : l = n + 1 \/ l \in 1..n
    OBVIOUS
  <2>2. CASE i \in 1..n /\ j \in 1..n
    BY <1>5, <1>6, <2>2 DEF AreNames
  <2>3. CASE i = n + 1 /\ j \in 1..n
    BY <1>4, <1>5, <1>6, <2>3
  <2>4. CASE i \in 1..n /\ j = n + 1
    BY <1>4, <1>5, <1>6, <2>4
  <2> QED BY <2>1, <2>2, <2>3, <2>4
<1>7. ASSUME NEW i \in 1..(n + 1) PROVE \E l \in Nat \ {0} : t[i] = Suffixed(bases[i], l)
  <2>1. CASE i = n + 1
    BY <1>3, <1>5, <2>1
  <2>2. CASE i # n + 1
    <3>1. i \in 1..n
      BY <2>2
    <3> QED BY <1>5, <3>1 DEF AreNames
  <2> QED BY <2>1, <2>2
<1>8. AreNames(t, bases, n + 1)
  BY <1>5, <1>6, <1>7 DEF AreNames
<1> QED BY <1>3, <1>8 DEF t, u

LEMMA NamedIs ==
    ASSUME NEW S, NEW bases \in Seq(Seq(S))
    PROVE  /\ AreNames(Named(bases), bases, Len(bases))
           /\ \E X : Named(bases) \in Seq(X)
<1> DEFINE m == Len(bases)
           Y == {Suffixed(bases[x[1]], x[2]) : x \in (1..m) \X (Nat \ {0})}
           D == Seq(Y)
           Val(n, s) == Append(s, UniqueName(ToSet(s), bases[n]))
           G == [x \in (1..m) \X D |-> Val(x[1], x[2])]
           Eq(f) == f = [n \in 0..m |-> IF n = 0 THEN <<>> ELSE Val(n, f[n - 1])]
<1>1. m \in Nat /\ \A n \in 1..m : bases[n] \in Seq(S)
  OBVIOUS
<1>2. ASSUME NEW n \in 1..m, NEW s \in D PROVE Val(n, s) \in D
  <2> HIDE DEF Y, m
  <2>1. IsFiniteSet(ToSet(s))
    BY FiniteEntries
  <2>2. PICK k \in Nat \ {0} : UniqueName(ToSet(s), bases[n]) = Suffixed(bases[n], k)
    BY <1>1, <2>1, UniqueNameIs
  <2>3. UniqueName(ToSet(s), bases[n]) \in Y
    <3>1. <<n, k>> \in (1..m) \X (Nat \ {0}) /\ <<n, k>>[1] = n /\ <<n, k>>[2] = k
      OBVIOUS
    <3> QED BY <2>2, <3>1 DEF Y
  <2> QED BY <2>3
<1> HIDE DEF Y
<1>3. G \in [(1..m) \X D -> D] /\ \A n \in 1..m, s \in D : G[<<n, s>>] = Val(n, s)
  <2> HIDE DEF Val, D, m
  <2> QED BY <1>2
<1>4. <<>> \in D
  OBVIOUS
<1>5. PICK h : IsWalk(h, m, D, <<>>, G)
  <2> HIDE DEF G, m, D
  <2> QED BY <1>1, <1>3, <1>4, WalkExists, Zenon
<1> HIDE DEF G, m, Val, D
<1>6. Eq(h)
  <2>1. ASSUME NEW n \in 0..m PROVE h[n] = IF n = 0 THEN <<>> ELSE Val(n, h[n - 1])
    <3>1. CASE n = 0
      BY <1>5, <3>1 DEF IsWalk
    <3>2. CASE n # 0
      <4>1. n \in 1..m
        BY <1>1, <3>2
      <4> QED BY <1>3, <1>5, <4>1 DEF IsWalk
    <3> QED BY <3>1, <3>2
  <2>2. h \in [0..m -> D]
    BY <1>5 DEF IsWalk
  <2> QED BY <2>1, <2>2
<1> DEFINE F == CHOOSE f : Eq(f)
<1>7. Eq(F)
  <2> HIDE DEF Eq
  <2> QED BY <1>6, Zenon
<1>8. Named(bases) = F[m]
  BY DEF Named, Val, m
<1> HIDE DEF F
<1>9. F[0] = <<>> /\ \A n \in 1..m : F[n] = Val(n, F[n - 1])
  <2>1. 0 \in 0..m /\ \A n \in 1..m : n \in 0..m /\ n # 0
    BY <1>1
  <2>2. \A n \in 0..m : F[n] = IF n = 0 THEN <<>> ELSE Val(n, F[n - 1])
    BY <1>7
  <2> QED BY <2>1, <2>2
<1> HIDE DEF Eq
<1> DEFINE T == {n \in Nat : n <= m => F[n] \in D /\ AreNames(F[n], bases, n)}
<1>10. 0 \in T
  <2>1. AreNames(<<>>, bases, 0)
    BY DEF AreNames
  <2> QED BY <1>4, <1>9, <2>1
<1>11. ASSUME NEW n \in T PROVE n + 1 \in T
  <2> SUFFICES ASSUME n + 1 <= m PROVE F[n + 1] \in D /\ AreNames(F[n + 1], bases, n + 1)
    OBVIOUS
  <2>1. n \in Nat /\ n + 1 \in 1..m /\ (n + 1) - 1 = n /\ F[n] \in D /\ AreNames(F[n], bases, n)
    BY <1>1
  <2>2. F[n + 1] = Val(n + 1, F[n])
    BY <1>9, <2>1
  <2>3. F[n + 1] \in D
    BY <1>2, <2>1, <2>2
  <2>4. AreNames(Append(F[n], UniqueName(ToSet(F[n]), bases[n + 1])), bases, n + 1)
    <3>1. n \in Nat /\ n + 1 \in 1..Len(bases) /\ F[n] \in Seq(Y) /\ AreNames(F[n], bases, n)
      BY <2>1 DEF D, m
    <3> QED BY <3>1, NamesAppend
  <2> QED BY <2>2, <2>3, <2>4 DEF Val
<1>12. T = Nat
  <2> HIDE DEF T
  <2>1. T \in SUBSET Nat
    BY DEF T
  <2> QED BY <1>10, <1>11, <2>1, Induction
<1>13. F[m] \in D /\ AreNames(F[m], bases, m)
  <2>1. m \in T
    BY <1>1, <1>12
  <2> QED BY <1>1, <2>1
<1> QED BY <1>8, <1>13 DEF m, D

(* The generated rules.  Limits are counted in sets of their own; what     *)
(* comes before a lock's trigger drops by its own condition only.          *)
IsSeq(s) == \E X : s \in Seq(X)

LEMMA SeqJoin ==
    ASSUME NEW s, NEW t, IsSeq(s), IsSeq(t)
    PROVE  /\ IsSeq(s \o t) /\ Len(s) \in Nat /\ Len(t) \in Nat
           /\ Len(s \o t) = Len(s) + Len(t)
           /\ \A i \in 1..Len(s \o t) :
                IF i <= Len(s) THEN i \in 1..Len(s) /\ (s \o t)[i] = s[i]
                ELSE i - Len(s) \in 1..Len(t) /\ (s \o t)[i] = t[i - Len(s)]
<1>0. PICK Y : s \in Seq(Y)
  BY DEF IsSeq
<1>9. PICK Z : t \in Seq(Z)
  BY DEF IsSeq
<1> DEFINE X == Y \cup Z
           u == s \o t
<1>1. s \in Seq(X) /\ t \in Seq(X)
  BY <1>0, <1>9
<1> HIDE DEF X
<1>2. /\ u \in Seq(X) /\ Len(s) \in Nat /\ Len(t) \in Nat /\ Len(u) = Len(s) + Len(t)
      /\ \A i \in 1..Len(u) :
           IF i <= Len(s) THEN i \in 1..Len(s) /\ u[i] = s[i]
           ELSE i - Len(s) \in 1..Len(t) /\ u[i] = t[i - Len(s)]
  BY <1>1
<1> HIDE DEF u
<1>3. IsSeq(u)
  BY <1>2 DEF IsSeq
<1> QED BY <1>2, <1>3 DEF u

LEMMA SeqFacts ==
    ASSUME NEW X, NEW s \in Seq(X)
    PROVE  IsSeq(s) /\ Len(s) \in Nat /\ \A i \in 1..Len(s) : s[i] \in X
<1>1. IsSeq(s)
  BY Zenon DEF IsSeq
<1>2. Len(s) \in Nat /\ \A i \in 1..Len(s) : s[i] \in X
  OBVIOUS
<1> QED BY <1>1, <1>2

Limiters(s) == {i \in 1..Len(s) : s[i].kind \in Limits}
LimitSets(s) == {s[i].set : i \in Limiters(s)}
Unshared(s) ==
    /\ IsSeq(s)
    /\ \A i \in Limiters(s) : s[i].most \in Nat
    /\ \A i, j \in Limiters(s) : s[i].set = s[j].set => i = j
    /\ \A i \in 1..Len(s) : s[i].kind # "trip"

LEMMA UnsharedJoin ==
    ASSUME NEW s, NEW t, Unshared(s), Unshared(t), LimitSets(s) \cap LimitSets(t) = {}
    PROVE  Unshared(s \o t) /\ LimitSets(s \o t) \subseteq LimitSets(s) \cup LimitSets(t)
<1> DEFINE u == s \o t
<1>1. /\ IsSeq(u) /\ Len(s) \in Nat /\ Len(t) \in Nat /\ Len(u) = Len(s) + Len(t)
      /\ \A i \in 1..Len(u) :
           IF i <= Len(s) THEN i \in 1..Len(s) /\ u[i] = s[i]
           ELSE i - Len(s) \in 1..Len(t) /\ u[i] = t[i - Len(s)]
  BY SeqJoin DEF Unshared
<1> HIDE DEF u
<1>2. ASSUME NEW i \in Limiters(u)
      PROVE  \/ i <= Len(s) /\ i \in Limiters(s) /\ u[i] = s[i] /\ u[i].set \in LimitSets(s)
             \/ /\ ~ (i <= Len(s)) /\ i - Len(s) \in Limiters(t) /\ u[i] = t[i - Len(s)]
                /\ u[i].set \in LimitSets(t)
  <2>1. i \in 1..Len(u) /\ u[i].kind \in Limits
    BY DEF Limiters
  <2>2. CASE i <= Len(s)
    <3>1. i \in 1..Len(s) /\ u[i] = s[i]
      BY <1>1, <2>1, <2>2
    <3>2. i \in Limiters(s)
      BY <2>1, <3>1 DEF Limiters
    <3> QED BY <2>2, <3>1, <3>2 DEF LimitSets
  <2>3. CASE ~ (i <= Len(s))
    <3>1. i - Len(s) \in 1..Len(t) /\ u[i] = t[i - Len(s)]
      BY <1>1, <2>1, <2>3
    <3>2. i - Len(s) \in Limiters(t)
      BY <2>1, <3>1 DEF Limiters
    <3> QED BY <2>3, <3>1, <3>2 DEF LimitSets
  <2> QED BY <2>2, <2>3
<1>3. \A i \in Limiters(u) : u[i].most \in Nat
  BY <1>2 DEF Unshared
<1>4. ASSUME NEW i \in Limiters(u), NEW j \in Limiters(u), u[i].set = u[j].set PROVE i = j
  <2>0. i \in Nat /\ j \in Nat
    BY <1>1 DEF Limiters
  <2>1. CASE i <= Len(s) /\ j <= Len(s)
    BY <1>2, <1>4, <2>1 DEF Unshared
  <2>2. CASE ~ (i <= Len(s)) /\ ~ (j <= Len(s))
    <3>1. i - Len(s) = j - Len(s)
      BY <1>2, <1>4, <2>2 DEF Unshared
    <3> QED BY <1>1, <2>0, <3>1
  <2>3. CASE (i <= Len(s)) # (j <= Len(s))
    <3>1. u[i].set \in LimitSets(s) \cap LimitSets(t)
      BY <1>2, <1>4, <2>3
    <3> QED BY <3>1
  <2> QED BY <2>1, <2>2, <2>3
<1>5. \A i \in 1..Len(u) : u[i].kind # "trip"
  BY <1>1 DEF Unshared
<1>6. LimitSets(u) \subseteq LimitSets(s) \cup LimitSets(t)
  <2>1. \A i \in Limiters(u) : u[i].set \in LimitSets(s) \cup LimitSets(t)
    BY <1>2
  <2> HIDE DEF Limiters
  <2>2. \A x \in LimitSets(u) : \E i \in Limiters(u) : x = u[i].set
    BY DEF LimitSets
  <2> QED BY <2>1, <2>2
<1>7. Unshared(u)
  BY <1>1, <1>3, <1>4, <1>5 DEF Unshared
<1> QED BY <1>6, <1>7 DEF u

(* A rule that is there under a condition.                                 *)
LEMMA UnsharedWhen ==
    ASSUME NEW c \in BOOLEAN, NEW r, c => r.kind # "trip" /\ (r.kind \in Limits => r.most \in Nat)
    PROVE  Unshared(When(c, <<r>>)) /\ LimitSets(When(c, <<r>>)) \subseteq {r.set}
<1>1. CASE c
  <2>1. When(c, <<r>>) = <<r>>
    BY <1>1 DEF When
  <2>2. <<r>> \in Seq({r}) /\ Len(<<r>>) = 1 /\ <<r>>[1] = r
    OBVIOUS
  <2>3. 1..Len(<<r>>) = {1}
    BY <2>2
  <2>4. IsSeq(<<r>>)
    BY <2>2, Zenon DEF IsSeq
  <2> DEFINE s == <<r>>
  <2> HIDE DEF s
  <2>5. IsSeq(s) /\ 1..Len(s) = {1} /\ s[1] = r
    BY <2>2, <2>3, <2>4 DEF s
  <2>6. Unshared(s) /\ LimitSets(s) \subseteq {r.set}
    BY <1>1, <2>5 DEF Unshared, LimitSets, Limiters
  <2> QED BY <2>1, <2>6 DEF s
<1>2. CASE ~c
  <2>1. When(c, <<r>>) = <<>>
    BY <1>2 DEF When
  <2>2. <<>> \in Seq({r}) /\ Len(<<>>) = 0
    OBVIOUS
  <2>3. 1..Len(<<>>) = {}
    BY <2>2
  <2>4. IsSeq(<<>>)
    BY <2>2, Zenon DEF IsSeq
  <2>5. Unshared(<<>>) /\ LimitSets(<<>>) = {}
    BY <2>3, <2>4 DEF Unshared, LimitSets, Limiters
  <2> QED BY <2>1, <2>5
<1> QED BY <1>1, <1>2

LEMMA FunctionSeq ==
    ASSUME NEW n \in Nat, NEW s, s = [k \in 1..n |-> s[k]]
    PROVE  IsSeq(s) /\ Len(s) = n
<1> DEFINE X == {s[k] : k \in 1..n}
<1>1. s \in [1..n -> X]
  OBVIOUS
<1> HIDE DEF X
<1>2. s \in Seq(X) /\ Len(s) = n
  BY <1>1
<1>3. IsSeq(s)
  BY <1>2, Zenon DEF IsSeq
<1> QED BY <1>2, <1>3

LEMMA Limitless ==
    ASSUME NEW s, IsSeq(s), \A i \in 1..Len(s) : s[i].kind \notin Limits \cup {"trip"}
    PROVE  Unshared(s) /\ LimitSets(s) = {}
  BY DEF Unshared, LimitSets, Limiters

LEMMA SpecFacts ==
    ASSUME spec \in Specs
    PROVE  /\ Rows \in Seq(Service) /\ Len(Rows) \in Nat /\ Indices = 1..Len(Rows)
           /\ \A i \in Indices : Rows[i] \in Service
           /\ spec.rate \in Nat /\ spec.count \in Nat /\ spec.pps \in Nat /\ spec.qps \in Nat
           /\ spec.drops \subseteq Drops /\ spec.park \in BOOLEAN
<1>1. /\ {spec.rate, spec.count, spec.pps, spec.qps} \subseteq Nat /\ spec.park \in BOOLEAN
      /\ spec.drops \subseteq Drops /\ spec.rows \in Seq(Service)
  BY EdgeAssumption
<1>2. Rows \in Seq(Service)
  BY <1>1 DEF Rows
<1>3. Len(Rows) \in Nat /\ DOMAIN Rows = 1..Len(Rows) /\ \A i \in 1..Len(Rows) : Rows[i] \in Service
  BY <1>2
<1> QED BY <1>1, <1>2, <1>3 DEF Indices

LEMMA KeysAre ==
    ASSUME spec \in Specs
    PROVE  /\ OverrideKeys \in Seq(Indices \X {"rate", "count"})
           /\ Len(OverrideKeys) \in Nat /\ DOMAIN OverrideKeys = 1..Len(OverrideKeys)
           /\ \A k \in 1..Len(OverrideKeys) :
                OverrideKeys[k][1] \in Indices /\ OverrideKeys[k][2] \in {"rate", "count"}
<1> DEFINE K == Indices \X {"rate", "count"}
           at(i) == When(Overrides(Rows[i], "rate"), << <<i, "rate">> >>)
                    \o When(Overrides(Rows[i], "count"), << <<i, "count">> >>)
           ss == [i \in Indices |-> at(i)]
<1>1. ASSUME NEW i \in Indices PROVE at(i) \in Seq(K)
  <2>1. << <<i, "rate">> >> \in Seq(K) /\ << <<i, "count">> >> \in Seq(K) /\ <<>> \in Seq(K)
    OBVIOUS
  <2>2. /\ When(Overrides(Rows[i], "rate"), << <<i, "rate">> >>) \in Seq(K)
        /\ When(Overrides(Rows[i], "count"), << <<i, "count">> >>) \in Seq(K)
    BY <2>1, Zenon DEF When
  <2> HIDE DEF K
  <2> QED BY <2>2
<1> HIDE DEF K, at
<1>2. ss \in Seq(Seq(K))
  BY <1>1, SpecFacts
<1>3. OverrideKeys = FlattenSeq(ss)
  BY DEF OverrideKeys, at
<1> HIDE DEF ss
<1>4. OverrideKeys \in Seq(K)
  BY <1>2, <1>3, FlattenIs
<1>5. /\ Len(OverrideKeys) \in Nat /\ DOMAIN OverrideKeys = 1..Len(OverrideKeys)
      /\ \A k \in 1..Len(OverrideKeys) : OverrideKeys[k] \in K
  BY <1>4
<1> QED BY <1>4, <1>5 DEF K

LEMMA SetsAre ==
    ASSUME spec \in Specs
    PROVE  \A i, j \in 1..Len(OverrideKeys) :
             /\ OverrideSets[i] = OverrideSets[j] => i = j
             /\ \A x : OverrideSets[i] # <<x>>
<1> DEFINE m == Len(OverrideKeys)
           base(k) == <<ConnSet[OverrideKeys[k][2]]>> \o Fold[Rows[OverrideKeys[k][1]].name]
           bases == [k \in DOMAIN OverrideKeys |-> base(k)]
           S == Nat \cup {"conn_rate", "conn_count"}
<1>1. m \in Nat /\ DOMAIN OverrideKeys = 1..m
  BY KeysAre
<1>2. ASSUME NEW k \in 1..m PROVE base(k) \in Seq(S) /\ Len(base(k)) > 1
  <2>1. OverrideKeys[k][1] \in Indices /\ OverrideKeys[k][2] \in {"rate", "count"}
    BY KeysAre
  <2>2. Rows[OverrideKeys[k][1]].name \in DOMAIN Fold
    BY <2>1, SpecFacts DEF Service
  <2> DEFINE f == Fold[Rows[OverrideKeys[k][1]].name]
             c == ConnSet[OverrideKeys[k][2]]
  <2>3. f \in Seq(Nat) /\ f # <<>>
    BY <2>2, EdgeAssumption
  <2>4. c \in S
    BY <2>1 DEF ConnSet
  <2> HIDE DEF f, c
  <2>5. <<c>> \in Seq(S) /\ Len(<<c>>) = 1 /\ f \in Seq(S) /\ Len(f) \in Nat /\ Len(f) # 0
    BY <2>3, <2>4
  <2> HIDE DEF S
  <2>6. <<c>> \o f \in Seq(S) /\ Len(<<c>> \o f) = 1 + Len(f)
    BY <2>5
  <2>7. Len(<<c>> \o f) > 1
    BY <2>5, <2>6
  <2> QED BY <2>6, <2>7 DEF f, c
<1> HIDE DEF base, S
<1>3. bases \in Seq(Seq(S)) /\ Len(bases) = m /\ \A k \in 1..m : bases[k] = base(k)
  BY <1>1, <1>2
<1>4. OverrideSets = Named(bases)
  BY DEF OverrideSets, base
<1> HIDE DEF bases
<1>5. AreNames(OverrideSets, bases, m)
  BY <1>3, <1>4, NamedIs
<1>6. ASSUME NEW i \in 1..m, NEW x PROVE OverrideSets[i] # <<x>>
  <2>1. PICK k \in Nat \ {0} : OverrideSets[i] = Suffixed(base(i), k)
    BY <1>3, <1>5 DEF AreNames
  <2>2. base(i) \in Seq(S) /\ Len(base(i)) > 1 /\ Len(base(i)) \in Nat
    BY <1>2
  <2>3. Len(Suffixed(base(i), k)) \in {Len(base(i)), Len(base(i)) + 1}
    <3> DEFINE b == base(i)
    <3> HIDE DEF b
    <3>1. b \in Seq(S \cup {k}) /\ k \in S \cup {k}
      BY <2>2 DEF b
    <3>2. Len(Append(b, k)) = Len(b) + 1
      BY <3>1
    <3> QED BY <3>2 DEF Suffixed, b
  <2>4. Len(<<x>>) = 1
    OBVIOUS
  <2>5. Len(OverrideSets[i]) # 1
    <3> DEFINE n == Len(base(i))
    <3>1. n \in Nat /\ n > 1 /\ Len(OverrideSets[i]) \in {n, n + 1}
      BY <2>1, <2>2, <2>3
    <3>2. \A v \in Nat : v > 1 => 1 # v /\ 1 # v + 1
      OBVIOUS
    <3> HIDE DEF n
    <3> QED BY <3>1, <3>2, Zenon
  <2> QED BY <2>4, <2>5
<1> QED BY <1>5, <1>6 DEF AreNames

LEMMA InvalidDrop ==
    LET s == [k \in DOMAIN Drop("invalid") |-> [Drop("invalid")[k] EXCEPT !.chain = "filter"]]
    IN  Unshared(s) /\ LimitSets(s) = {}
<1> DEFINE d == Drop("invalid")
           s == [k \in DOMAIN d |-> [d[k] EXCEPT !.chain = "filter"]]
           r == [Rule EXCEPT !.bad = "invalid"]
<1>1. d = <<r>> \/ d = <<>>
  BY DEF Drop, When
<1>2. DOMAIN <<r>> = 1..1 /\ DOMAIN <<>> = 1..0 /\ <<r>>[1] = r
  OBVIOUS
<1>3. [r EXCEPT !.chain = "filter"].kind = "drop"
  BY DEF Rule
<1> HIDE DEF d, r
<1>4. PICK n \in Nat : DOMAIN d = 1..n /\ \A k \in 1..n : d[k] = r
  <2>1. CASE d = <<r>>
    <3>1. DOMAIN d = 1..1 /\ \A k \in 1..1 : d[k] = r
      BY <1>2, <2>1
    <3> QED BY <3>1
  <2>2. CASE d = <<>>
    <3>1. DOMAIN d = 1..0 /\ \A k \in 1..0 : d[k] = r
      BY <1>2, <2>2
    <3> QED BY <3>1
  <2> QED BY <1>1, <2>1, <2>2
<1>5. s = [k \in 1..n |-> s[k]] /\ \A k \in 1..n : s[k].kind = "drop"
  BY <1>3, <1>4
<1> HIDE DEF s
<1>6. IsSeq(s) /\ Len(s) = n
  BY <1>5, FunctionSeq
<1>7. \A i \in 1..Len(s) : s[i].kind \notin Limits \cup {"trip"}
  BY <1>5, <1>6 DEF Limits
<1>8. Unshared(s) /\ LimitSets(s) = {}
  BY <1>6, <1>7, Limitless
<1> QED BY <1>8 DEF s, d

LEMMA OwnLimits ==
    ASSUME spec \in Specs
    PROVE  LET s == [k \in DOMAIN OverrideKeys |->
                       LET i == OverrideKeys[k][1]  limit == OverrideKeys[k][2]
                       IN  ConnRule(limit, <<Span(Rows[i])>>, OverrideSets[k], Rows[i][limit], i)]
           IN  Unshared(s) /\ \A x : <<x>> \notin LimitSets(s)
<1> DEFINE m == Len(OverrideKeys)
           at(k) == ConnRule(OverrideKeys[k][2], <<Span(Rows[OverrideKeys[k][1]])>>, OverrideSets[k],
                             Rows[OverrideKeys[k][1]][OverrideKeys[k][2]], OverrideKeys[k][1])
           s == [k \in DOMAIN OverrideKeys |-> at(k)]
<1>1. m \in Nat /\ DOMAIN OverrideKeys = 1..m
  BY KeysAre
<1>2. ASSUME NEW k \in 1..m
      PROVE  at(k).set = OverrideSets[k] /\ at(k).most \in Nat /\ at(k).kind # "trip"
  <2>1. OverrideKeys[k][1] \in Indices /\ OverrideKeys[k][2] \in {"rate", "count"}
    BY KeysAre
  <2> DEFINE i == OverrideKeys[k][1]
             limit == OverrideKeys[k][2]
             n == Rows[i][limit]
  <2>2. Rows[i] \in Service
    BY <2>1, SpecFacts
  <2>3. n \in Nat
    BY <2>1, <2>2 DEF Service
  <2>4. limit # "trip"
    BY <2>1
  <2> HIDE DEF n, limit, i
  <2>5. /\ ConnRule(limit, <<Span(Rows[i])>>, OverrideSets[k], n, i).set = OverrideSets[k]
        /\ ConnRule(limit, <<Span(Rows[i])>>, OverrideSets[k], n, i).most
             = IF limit = "rate" THEN 2 * n ELSE n
        /\ ConnRule(limit, <<Span(Rows[i])>>, OverrideSets[k], n, i).kind = limit
    BY DEF ConnRule, Rule
  <2>6. (IF limit = "rate" THEN 2 * n ELSE n) \in Nat
    BY <2>3
  <2> QED BY <2>4, <2>5, <2>6 DEF n, limit, i
<1> HIDE DEF at
<1>3. s = [k \in 1..m |-> s[k]] /\ \A k \in 1..m : s[k] = at(k)
  BY <1>1
<1>4. Unshared(s) /\ \A x : <<x>> \notin LimitSets(s)
  <2> HIDE DEF s
  <2>1. IsSeq(s) /\ Len(s) = m
    BY <1>1, <1>3, FunctionSeq
  <2>2. \A i \in Limiters(s) : i \in 1..m /\ s[i].set = OverrideSets[i] /\ s[i].most \in Nat
    BY <1>2, <1>3, <2>1 DEF Limiters
  <2>3. \A i, j \in Limiters(s) : s[i].set = s[j].set => i = j
    BY <2>2, SetsAre
  <2>4. \A i \in 1..Len(s) : s[i].kind # "trip"
    BY <1>2, <1>3, <2>1
  <2>5. ASSUME NEW x, <<x>> \in LimitSets(s) PROVE FALSE
    <3>1. PICK i \in Limiters(s) : <<x>> = s[i].set
      BY <2>5 DEF LimitSets
    <3> QED BY <2>2, <3>1, SetsAre
  <2> QED BY <2>1, <2>2, <2>3, <2>4, <2>5 DEF Unshared
<1> QED BY <1>4 DEF s, at

LEMMA Ceilings ==
    ASSUME spec \in Specs
    PROVE  LET s == FlattenSeq([i \in Indices |-> When(Rows[i].ceiling > 0,
                      <<[OfRow(i) EXCEPT !.kind = "ceiling", !.most = Rows[i].ceiling,
                                         !.chain = "filter"]>>)])
           IN  Unshared(s) /\ LimitSets(s) = {}
<1> DEFINE c(i) == [OfRow(i) EXCEPT !.kind = "ceiling", !.most = Rows[i].ceiling, !.chain = "filter"]
           C == {c(i) : i \in Indices}
           ss == [i \in Indices |-> When(Rows[i].ceiling > 0, <<c(i)>>)]
           s == FlattenSeq(ss)
<1>1. \A i \in Indices : c(i).kind = "ceiling"
  BY DEF OfRow, Rule
<1> HIDE DEF c
<1>2. \A i \in Indices : When(Rows[i].ceiling > 0, <<c(i)>>) \in Seq(C)
  <2> SUFFICES ASSUME NEW i \in Indices PROVE When(Rows[i].ceiling > 0, <<c(i)>>) \in Seq(C)
    OBVIOUS
  <2>1. <<c(i)>> \in Seq(C) /\ <<>> \in Seq(C)
    OBVIOUS
  <2> QED BY <2>1, Zenon DEF When
<1>3. \A r \in C : r.kind = "ceiling"
  BY <1>1
<1> HIDE DEF C
<1>4. ss \in Seq(Seq(C))
  BY <1>2, SpecFacts
<1> HIDE DEF ss
<1>5. s \in Seq(C)
  BY <1>4, FlattenIs
<1> HIDE DEF s
<1>6. IsSeq(s) /\ \A i \in 1..Len(s) : s[i].kind \notin Limits \cup {"trip"}
  <2>1. IsSeq(s) /\ \A i \in 1..Len(s) : s[i] \in C
    BY <1>5, SeqFacts
  <2> QED BY <1>3, <2>1 DEF Limits
<1>7. Unshared(s) /\ LimitSets(s) = {}
  BY <1>6, Limitless
<1> QED BY <1>7 DEF s, ss, c

(* The filter chain: the limits have sets of their own.                    *)
LEMMA FilterUnshared ==
    ASSUME spec \in Specs
    PROVE  Unshared(FilterChain)
<1> DEFINE s1 == [k \in DOMAIN Drop("invalid") |-> [Drop("invalid")[k] EXCEPT !.chain = "filter"]]
           s2 == SharedRule("rate")
           s3 == SharedRule("count")
           s4 == When(PortsOf("udp") # <<>> /\ spec.pps > 0,
                      <<UdpRule(PortsOf("udp"), <<"packet_rate">>, spec.pps, FALSE)>>)
           s5 == When(SourceEnginePorts # <<>> /\ spec.qps > 0,
                      <<UdpRule(SourceEnginePorts, <<"query_rate">>, spec.qps, TRUE)>>)
           s6 == [k \in DOMAIN OverrideKeys |->
                    LET i == OverrideKeys[k][1]  limit == OverrideKeys[k][2]
                    IN  ConnRule(limit, <<Span(Rows[i])>>, OverrideSets[k], Rows[i][limit], i)]
           s7 == FlattenSeq([i \in Indices |-> When(Rows[i].ceiling > 0,
                   <<[OfRow(i) EXCEPT !.kind = "ceiling", !.most = Rows[i].ceiling,
                                      !.chain = "filter"]>>)])
<1>1. Unshared(s1) /\ LimitSets(s1) = {}
  BY InvalidDrop
<1>2. Unshared(s2) /\ LimitSets(s2) \subseteq {<<"conn_rate">>}
  <2> DEFINE r == ConnRule("rate", SharedConnPorts("rate"), <<ConnSet["rate"]>>, spec["rate"], 0)
  <2>1. r.set = <<"conn_rate">> /\ r.kind = "rate" /\ r.most = 2 * spec.rate
    BY DEF ConnRule, Rule, ConnSet
  <2>2. s2 = When(SharedLimit("rate"), <<r>>) /\ SharedLimit("rate") \in BOOLEAN
    BY DEF SharedRule, SharedLimit
  <2>3. r.kind # "trip" /\ r.most \in Nat
    BY <2>1, SpecFacts
  <2> HIDE DEF r, s2
  <2>4. Unshared(When(SharedLimit("rate"), <<r>>))
        /\ LimitSets(When(SharedLimit("rate"), <<r>>)) \subseteq {r.set}
    BY <2>2, <2>3, UnsharedWhen
  <2> QED BY <2>1, <2>2, <2>4
<1>3. Unshared(s3) /\ LimitSets(s3) \subseteq {<<"conn_count">>}
  <2> DEFINE r == ConnRule("count", SharedConnPorts("count"), <<ConnSet["count"]>>, spec["count"], 0)
  <2>1. r.set = <<"conn_count">> /\ r.kind = "count" /\ r.most = spec.count
    BY DEF ConnRule, Rule, ConnSet
  <2>2. s3 = When(SharedLimit("count"), <<r>>) /\ SharedLimit("count") \in BOOLEAN
    BY DEF SharedRule, SharedLimit
  <2>3. r.kind # "trip" /\ r.most \in Nat
    BY <2>1, SpecFacts
  <2> HIDE DEF r, s3
  <2>4. Unshared(When(SharedLimit("count"), <<r>>))
        /\ LimitSets(When(SharedLimit("count"), <<r>>)) \subseteq {r.set}
    BY <2>2, <2>3, UnsharedWhen
  <2> QED BY <2>1, <2>2, <2>4
<1>4. Unshared(s4) /\ LimitSets(s4) \subseteq {<<"packet_rate">>}
  <2> DEFINE r == UdpRule(PortsOf("udp"), <<"packet_rate">>, spec.pps, FALSE)
             c == PortsOf("udp") # <<>> /\ spec.pps > 0
  <2>1. r.set = <<"packet_rate">> /\ r.kind = "packets" /\ r.most = 2 * spec.pps
    BY DEF UdpRule, Rule
  <2>2. r.kind # "trip" /\ r.most \in Nat
    <3> HIDE DEF r, c
    <3>1. spec.pps \in Nat
      BY SpecFacts
    <3>2. 2 * spec.pps \in Nat
      BY <3>1
    <3> QED BY <2>1, <3>2
  <2>3. c \in BOOLEAN
    BY Zenon
  <2> HIDE DEF r, c
  <2>4. Unshared(When(c, <<r>>)) /\ LimitSets(When(c, <<r>>)) \subseteq {r.set}
    BY <2>2, <2>3, UnsharedWhen
  <2> QED BY <2>1, <2>4 DEF r, c
<1>5. Unshared(s5) /\ LimitSets(s5) \subseteq {<<"query_rate">>}
  <2> DEFINE r == UdpRule(SourceEnginePorts, <<"query_rate">>, spec.qps, TRUE)
             c == SourceEnginePorts # <<>> /\ spec.qps > 0
  <2>1. r.set = <<"query_rate">> /\ r.kind = "packets" /\ r.most = 2 * spec.qps
    BY DEF UdpRule, Rule
  <2>2. r.kind # "trip" /\ r.most \in Nat
    <3> HIDE DEF r, c
    <3>1. spec.qps \in Nat
      BY SpecFacts
    <3>2. 2 * spec.qps \in Nat
      BY <3>1
    <3> QED BY <2>1, <3>2
  <2>3. c \in BOOLEAN
    BY Zenon
  <2> HIDE DEF r, c
  <2>4. Unshared(When(c, <<r>>)) /\ LimitSets(When(c, <<r>>)) \subseteq {r.set}
    BY <2>2, <2>3, UnsharedWhen
  <2> QED BY <2>1, <2>4 DEF r, c
<1>6. Unshared(s6) /\ \A x : <<x>> \notin LimitSets(s6)
  BY OwnLimits
<1>7. Unshared(s7) /\ LimitSets(s7) = {}
  BY Ceilings
<1>8. FilterChain = s1 \o s2 \o s3 \o s4 \o s5 \o s6 \o s7
  BY DEF FilterChain
<1> HIDE DEF s1, s2, s3, s4, s5, s6, s7
<1> DEFINE A == {<<"conn_rate">>}
           B == {<<"conn_rate">>, <<"conn_count">>}
           C == {<<"conn_rate">>, <<"conn_count">>, <<"packet_rate">>}
           E == {<<"conn_rate">>, <<"conn_count">>, <<"packet_rate">>, <<"query_rate">>}
<1>9. /\ A \cap {<<"conn_count">>} = {} /\ B \cap {<<"packet_rate">>} = {}
      /\ C \cap {<<"query_rate">>} = {} /\ E \cap LimitSets(s6) = {}
  <2>1. /\ <<"conn_rate">> # <<"conn_count">> /\ <<"conn_rate">> # <<"packet_rate">>
        /\ <<"conn_count">> # <<"packet_rate">> /\ <<"conn_rate">> # <<"query_rate">>
        /\ <<"conn_count">> # <<"query_rate">> /\ <<"packet_rate">> # <<"query_rate">>
    OBVIOUS
  <2>2. E \cap LimitSets(s6) = {}
    BY <1>6, Zenon
  <2> QED BY <2>1, <2>2
<1>10. Unshared(s1 \o s2) /\ LimitSets(s1 \o s2) \subseteq A
  BY <1>1, <1>2, UnsharedJoin
<1>11. Unshared(s1 \o s2 \o s3) /\ LimitSets(s1 \o s2 \o s3) \subseteq B
  <2>1. LimitSets(s1 \o s2) \cap LimitSets(s3) = {}
    BY <1>3, <1>9, <1>10
  <2> QED BY <1>3, <1>10, <2>1, UnsharedJoin
<1>12. Unshared(s1 \o s2 \o s3 \o s4) /\ LimitSets(s1 \o s2 \o s3 \o s4) \subseteq C
  <2>1. LimitSets(s1 \o s2 \o s3) \cap LimitSets(s4) = {}
    BY <1>4, <1>9, <1>11
  <2> QED BY <1>4, <1>11, <2>1, UnsharedJoin
<1>13. Unshared(s1 \o s2 \o s3 \o s4 \o s5) /\ LimitSets(s1 \o s2 \o s3 \o s4 \o s5) \subseteq E
  <2>1. LimitSets(s1 \o s2 \o s3 \o s4) \cap LimitSets(s5) = {}
    BY <1>5, <1>9, <1>12
  <2> QED BY <1>5, <1>12, <2>1, UnsharedJoin
<1>14. Unshared(s1 \o s2 \o s3 \o s4 \o s5 \o s6)
  <2>1. LimitSets(s1 \o s2 \o s3 \o s4 \o s5) \cap LimitSets(s6) = {}
    BY <1>9, <1>13
  <2> QED BY <1>6, <1>13, <2>1, UnsharedJoin
<1>15. Unshared(s1 \o s2 \o s3 \o s4 \o s5 \o s6 \o s7)
  BY <1>7, <1>14, UnsharedJoin
<1> QED BY <1>8, <1>15

(* The raw chain.  A rule of a lock carries its row; what is in front of   *)
(* a trigger is parked sources, malformed packets, or locks of rows above. *)
OfLock(r) ==
    /\ r.row \in Indices /\ r.proto = Rows[r.row].proto /\ r.ports = <<Span(Rows[r.row])>>
    /\ GeoService(Rows[r.row]) /\ r.bad = "none" /\ r.query = FALSE
RawRule(r) ==
    /\ r.kind \in {"blocked", "drop", "trip", "geo"}
    /\ r.kind = "drop" => r.bad \in spec.drops \ {"invalid"} /\ r.bad # "none"
    /\ r.kind = "trip" => OfLock(r) /\ r.most = Rows[r.row].auto
    /\ r.kind = "geo" => OfLock(r)
RawOk(s) ==
    /\ IsSeq(s) /\ \A i \in 1..Len(s) : RawRule(s[i])
    /\ \A i, j \in 1..Len(s) : i < j /\ s[i].kind = "geo" /\ s[j].kind = "trip" => s[i].row < s[j].row
Lockless(s) ==
    IsSeq(s) /\ \A i \in 1..Len(s) : RawRule(s[i]) /\ s[i].kind \in {"blocked", "drop"}
LockOf(i, s) ==
    IsSeq(s) /\ \A k \in 1..Len(s) : /\ RawRule(s[k]) /\ s[k].row = i /\ s[k].kind \in {"trip", "geo"}
                                     /\ s[k].kind = "trip" => k = 1

LEMMA SeqWithin ==
    ASSUME NEW s, IsSeq(s), NEW S, \A i \in 1..Len(s) : s[i] \in S
    PROVE  s \in Seq(S)
<1>1. PICK X : s \in Seq(X)
  BY DEF IsSeq
<1>2. Len(s) \in Nat /\ s \in [1..Len(s) -> S]
  BY <1>1
<1> QED BY <1>2

LEMMA LocklessWhen ==
    ASSUME NEW c \in BOOLEAN, NEW r, c => RawRule(r) /\ r.kind \in {"blocked", "drop"}
    PROVE  Lockless(When(c, <<r>>))
<1>1. <<r>> \in Seq({r}) /\ <<>> \in Seq({r}) /\ 1..Len(<<r>>) = {1} /\ <<r>>[1] = r /\ 1..Len(<<>>) = {}
  OBVIOUS
<1>2. IsSeq(<<r>>) /\ IsSeq(<<>>)
  BY <1>1, Zenon DEF IsSeq
<1>3. CASE c
  <2>1. When(c, <<r>>) = <<r>>
    BY <1>3 DEF When
  <2> DEFINE s == <<r>>
  <2>2. IsSeq(s) /\ 1..Len(s) = {1} /\ s[1] = r
    BY <1>1, <1>2
  <2> HIDE DEF s
  <2>3. Lockless(s)
    BY <1>3, <2>2 DEF Lockless
  <2> QED BY <2>1, <2>3 DEF s
<1>4. CASE ~c
  <2>1. When(c, <<r>>) = <<>>
    BY <1>4 DEF When
  <2> QED BY <1>1, <1>2, <2>1 DEF Lockless
<1> QED BY <1>3, <1>4

LEMMA RawJoin ==
    ASSUME NEW s, NEW t, Lockless(s)
    PROVE  (Lockless(t) => Lockless(s \o t)) /\ (RawOk(t) => RawOk(s \o t))
<1> DEFINE u == s \o t
<1>1. SUFFICES ASSUME IsSeq(t) PROVE (Lockless(t) => Lockless(u)) /\ (RawOk(t) => RawOk(u))
  BY DEF Lockless, RawOk
<1>2. /\ IsSeq(u) /\ Len(s) \in Nat /\ Len(t) \in Nat /\ Len(u) = Len(s) + Len(t)
      /\ \A i \in 1..Len(u) :
           IF i <= Len(s) THEN i \in 1..Len(s) /\ u[i] = s[i]
           ELSE i - Len(s) \in 1..Len(t) /\ u[i] = t[i - Len(s)]
  BY <1>1, SeqJoin DEF Lockless
<1> HIDE DEF u
<1>3. Lockless(t) => Lockless(u)
  <2> SUFFICES ASSUME Lockless(t) PROVE Lockless(u)
    OBVIOUS
  <2>1. \A i \in 1..Len(u) : RawRule(u[i]) /\ u[i].kind \in {"blocked", "drop"}
    <3> HIDE DEF RawRule
    <3> QED BY <1>2 DEF Lockless
  <2> QED BY <1>2, <2>1 DEF Lockless
<1>4. RawOk(t) => RawOk(u)
  <2> SUFFICES ASSUME RawOk(t) PROVE RawOk(u)
    OBVIOUS
  <2>1. \A i \in 1..Len(u) : RawRule(u[i])
    BY <1>2 DEF Lockless, RawOk
  <2>2. ASSUME NEW i \in 1..Len(u), NEW j \in 1..Len(u), i < j, u[i].kind = "geo", u[j].kind = "trip"
        PROVE  u[i].row < u[j].row
    <3>1. ~ (i <= Len(s))
      <4> SUFFICES ASSUME i <= Len(s) PROVE FALSE
        OBVIOUS
      <4>1. i \in 1..Len(s) /\ u[i] = s[i]
        BY <1>2
      <4>2. s[i].kind \in {"blocked", "drop"}
        BY <4>1 DEF Lockless
      <4> QED BY <2>2, <4>1, <4>2
    <3>2. ~ (j <= Len(s))
      BY <1>2, <2>2, <3>1
    <3>3. /\ i - Len(s) \in 1..Len(t) /\ u[i] = t[i - Len(s)]
          /\ j - Len(s) \in 1..Len(t) /\ u[j] = t[j - Len(s)]
      BY <1>2, <3>1, <3>2
    <3>4. i - Len(s) < j - Len(s)
      BY <1>2, <2>2
    <3> QED BY <2>2, <3>3, <3>4 DEF RawOk
  <2> QED BY <1>2, <2>1, <2>2 DEF RawOk
<1> QED BY <1>3, <1>4

(* One lock: its trigger, if it has one, and then its drops.               *)
LEMMA GeoRulesAre ==
    ASSUME spec \in Specs, NEW i \in Indices
    PROVE  LockOf(i, GeoRules(i))
<1>1. CASE ~GeoService(Rows[i])
  <2>1. GeoRules(i) = <<>>
    BY <1>1 DEF GeoRules, When
  <2>2. <<>> \in Seq({0}) /\ 1..Len(<<>>) = {}
    OBVIOUS
  <2>3. IsSeq(<<>>)
    BY <2>2, Zenon DEF IsSeq
  <2> QED BY <2>1, <2>2, <2>3 DEF LockOf
<1>2. CASE GeoService(Rows[i])
  <2> DEFINE trip == [OfRow(i) EXCEPT !.kind = "trip", !.most = Rows[i].auto, !.set = LockSet(Rows[i].proto)]
             drop == [OfRow(i) EXCEPT !.kind = "geo", !.locked = Locks(Rows[i]), !.block = Rows[i].block]
             Geo(r) == OfLock(r) /\ r.kind = "geo" /\ r.row = i
  <2>1. RawRule(trip) /\ trip.row = i /\ trip.kind = "trip"
    BY <1>2 DEF RawRule, OfLock, OfRow, Rule
  <2>2. \A x : Geo([drop EXCEPT !.regions = x])
    BY <1>2 DEF OfLock, OfRow, Rule
  <2>3. \A r : Geo(r) => RawRule(r) /\ r.row = i /\ r.kind = "geo"
    BY DEF RawRule
  <2> HIDE DEF trip, Geo
  <2>4. IsSeq(Trigger(i)) /\ Len(Trigger(i)) \in {0, 1} /\ \A k \in 1..Len(Trigger(i)) : Trigger(i)[k] = trip
    <3>1. Trigger(i) = <<trip>> \/ Trigger(i) = <<>>
      BY Zenon DEF Trigger, When, trip
    <3>2. <<trip>> \in Seq({trip}) /\ <<>> \in Seq({trip}) /\ Len(<<trip>>) = 1 /\ Len(<<>>) = 0 /\ <<trip>>[1] = trip
      OBVIOUS
    <3>3. IsSeq(<<trip>>) /\ IsSeq(<<>>)
      BY <3>2, Zenon DEF IsSeq
    <3>4. CASE Trigger(i) = <<trip>>
      BY <3>2, <3>3, <3>4
    <3>5. CASE Trigger(i) = <<>>
      BY <3>2, <3>3, <3>5
    <3> QED BY <3>1, <3>4, <3>5
  <2>5. IsSeq(GeoDrops(i)) /\ \A k \in 1..Len(GeoDrops(i)) : Geo(GeoDrops(i)[k])
    <3> DEFINE s == GeoDrops(i)
    <3>1. CASE Rows[i].block
      <4> DEFINE named == Rows[i].regions
                 at(k) == [drop EXCEPT !.regions = {GeoSetName(named[k])}]
                 S == {at(k) : k \in DOMAIN named}
                 ss == [k \in DOMAIN named |-> When(Resolves(named[k]), <<at(k)>>)]
      <4>1. named \in Seq(DOMAIN FoldGeo)
        BY SpecFacts DEF Service
      <4>2. \A x \in S : Geo(x)
        BY <2>2
      <4>3. s = FlattenSeq(ss)
        BY <3>1 DEF GeoDrops
      <4>4. \A k \in DOMAIN named : at(k) \in S
        OBVIOUS
      <4> HIDE DEF drop, at, S, s
      <4>5. \A k \in DOMAIN named : <<at(k)>> \in Seq(S) /\ <<>> \in Seq(S)
        BY <4>4
      <4>6. \A k \in DOMAIN named : When(Resolves(named[k]), <<at(k)>>) \in Seq(S)
        BY <4>5, Zenon DEF When
      <4> HIDE DEF named
      <4>7. Len(named) \in Nat /\ DOMAIN named = 1..Len(named)
        BY <4>1
      <4>8. ss \in Seq(Seq(S))
        BY <4>6, <4>7
      <4> HIDE DEF ss
      <4>9. s \in Seq(S)
        BY <4>3, <4>8, FlattenIs
      <4>10. \A k \in 1..Len(s) : s[k] \in S
        BY <4>9
      <4>11. IsSeq(s)
        BY <4>9, Zenon DEF IsSeq
      <4> QED BY <4>2, <4>10, <4>11 DEF s
    <3>2. CASE ~Rows[i].block
      <4> DEFINE r == [drop EXCEPT !.regions = {GeoSetName(g) : g \in ToSet(Rows[i].regions)}]
      <4>1. s = <<r>>
        BY <3>2 DEF GeoDrops
      <4>2. Geo(r)
        BY <2>2
      <4> HIDE DEF r, s
      <4>3. <<r>> \in Seq({r}) /\ 1..Len(<<r>>) = {1} /\ <<r>>[1] = r
        OBVIOUS
      <4>4. IsSeq(<<r>>)
        BY <4>3, Zenon DEF IsSeq
      <4>5. IsSeq(s) /\ \A k \in 1..Len(s) : Geo(s[k])
        BY <4>1, <4>2, <4>3, <4>4
      <4> QED BY <4>5 DEF s
    <3> QED BY <3>1, <3>2
  <2>6. GeoRules(i) = Trigger(i) \o GeoDrops(i)
    BY <1>2 DEF GeoRules, When
  <2> DEFINE t == Trigger(i)
             g == GeoDrops(i)
             u == t \o g
  <2>7. /\ IsSeq(u) /\ Len(t) \in Nat /\ Len(u) = Len(t) + Len(g)
        /\ \A k \in 1..Len(u) :
             IF k <= Len(t) THEN k \in 1..Len(t) /\ u[k] = t[k]
             ELSE k - Len(t) \in 1..Len(g) /\ u[k] = g[k - Len(t)]
    BY <2>4, <2>5, SeqJoin
  <2> HIDE DEF t, g, u
  <2>8. ASSUME NEW k \in 1..Len(u)
        PROVE  /\ RawRule(u[k]) /\ u[k].row = i /\ u[k].kind \in {"trip", "geo"}
               /\ u[k].kind = "trip" => k = 1
    <3>1. CASE k <= Len(t)
      <4>1. k \in 1..Len(t) /\ u[k] = trip
        BY <2>4, <2>7, <3>1 DEF t
      <4>2. k = 1
        BY <2>4, <4>1 DEF t
      <4> QED BY <2>1, <4>1, <4>2
    <3>2. CASE ~ (k <= Len(t))
      <4>1. Geo(u[k])
        BY <2>5, <2>7, <3>2 DEF g
      <4> QED BY <2>3, <4>1
    <3> QED BY <3>1, <3>2
  <2>9. LockOf(i, u)
    BY <2>7, <2>8 DEF LockOf
  <2> QED BY <2>6, <2>9 DEF u, t, g
<1> QED BY <1>1, <1>2

LEMMA LocksInOrder ==
    ASSUME spec \in Specs
    PROVE  RawOk(FlattenSeq([i \in Indices |-> GeoRules(i)]))
<1> DEFINE S == UNION {{GeoRules(i)[k] : k \in 1..Len(GeoRules(i))} : i \in Indices}
           ss == [i \in Indices |-> GeoRules(i)]
           u == FlattenSeq(ss)
           n == Len(Rows)
<1>1. n \in Nat /\ Indices = 1..n
  BY SpecFacts
<1>2. ASSUME NEW i \in Indices PROVE GeoRules(i) \in Seq(S)
  <2>1. IsSeq(GeoRules(i))
    BY GeoRulesAre DEF LockOf
  <2>2. ASSUME NEW k \in 1..Len(GeoRules(i)) PROVE GeoRules(i)[k] \in S
    <3> DEFINE at(h) == {GeoRules(h)[l] : l \in 1..Len(GeoRules(h))}
    <3>1. GeoRules(i)[k] \in at(i)
      OBVIOUS
    <3>2. S = UNION {at(h) : h \in Indices}
      OBVIOUS
    <3> HIDE DEF at, S
    <3> QED BY <3>1, <3>2
  <2> HIDE DEF S
  <2> QED BY <2>1, <2>2, SeqWithin
<1> HIDE DEF S, n
<1>3. ss \in Seq(Seq(S)) /\ Len(ss) = n /\ \A i \in 1..n : ss[i] = GeoRules(i)
  BY <1>1, <1>2
<1> HIDE DEF ss
<1>4. u \in Seq(S) /\ IsFlat(u, ss, n)
  BY <1>3, FlattenIs
<1> HIDE DEF u
<1>5. IsSeq(u)
  BY <1>4, SeqFacts
<1>6. PICK b \in [1..Len(u) -> 1..n], o \in [1..Len(u) -> Nat] :
        /\ \A i \in 1..Len(u) : o[i] \in 1..Len(ss[b[i]]) /\ u[i] = ss[b[i]][o[i]]
        /\ \A i, j \in 1..Len(u) : i < j => b[i] < b[j] \/ (b[i] = b[j] /\ o[i] < o[j])
  BY <1>4 DEF IsFlat
<1>7. ASSUME NEW i \in 1..Len(u)
      PROVE  /\ b[i] \in 1..n /\ o[i] \in Nat \ {0} /\ RawRule(u[i]) /\ u[i].row = b[i]
             /\ u[i].kind = "trip" => o[i] = 1
  <2>1. b[i] \in 1..n /\ b[i] \in Indices /\ o[i] \in 1..Len(GeoRules(b[i])) /\ u[i] = GeoRules(b[i])[o[i]]
    BY <1>1, <1>3, <1>6
  <2>2. LockOf(b[i], GeoRules(b[i]))
    BY <2>1, GeoRulesAre
  <2>3. o[i] \in Nat \ {0}
    BY <1>6, <2>1
  <2> QED BY <2>1, <2>2, <2>3 DEF LockOf
<1>8. ASSUME NEW i \in 1..Len(u), NEW j \in 1..Len(u), i < j, u[j].kind = "trip"
      PROVE  u[i].row < u[j].row
  <2>1. o[j] = 1 /\ o[i] \in Nat \ {0} /\ u[i].row = b[i] /\ u[j].row = b[j]
    BY <1>7, <1>8
  <2>2. ~ (o[i] < o[j])
    BY <2>1
  <2>3. b[i] < b[j]
    BY <1>6, <1>8, <2>2
  <2> QED BY <2>1, <2>3
<1>9. RawOk(u)
  BY <1>5, <1>7, <1>8 DEF RawOk
<1> QED BY <1>9 DEF u, ss

LEMMA DropLockless ==
    ASSUME spec \in Specs, NEW bad \in {"bogus", "spoofed", "legacy"}
    PROVE  /\ Lockless(Drop(bad))
           /\ \A i \in 1..Len(Drop(bad)) : Drop(bad)[i].kind = "drop" /\ Drop(bad)[i] = [Rule EXCEPT !.bad = bad]
           /\ Len(Drop(bad)) > 0 => bad \in spec.drops
<1> DEFINE r == [Rule EXCEPT !.bad = bad]
           c == bad \in spec.drops
<1>1. r.kind = "drop" /\ r.bad = bad
  BY DEF Rule
<1>2. Drop(bad) = When(c, <<r>>)
  BY DEF Drop
<1>3. c => RawRule(r) /\ r.kind \in {"blocked", "drop"}
  BY <1>1 DEF RawRule
<1>4. c \in BOOLEAN
  OBVIOUS
<1> HIDE DEF r, c
<1>5. Lockless(Drop(bad))
  BY <1>2, <1>3, <1>4, LocklessWhen
<1>6. \A i \in 1..Len(Drop(bad)) : Drop(bad)[i] = r
  <2>1. CASE c
    BY <1>2, <2>1 DEF When
  <2>2. CASE ~c
    BY <1>2, <2>2 DEF When
  <2> QED BY <2>1, <2>2
<1>7. Len(Drop(bad)) > 0 => c
  <2> SUFFICES ASSUME ~c PROVE ~ (Len(Drop(bad)) > 0)
    OBVIOUS
  <2>1. Drop(bad) = <<>>
    BY <1>2 DEF When
  <2> QED BY <2>1
<1> QED BY <1>1, <1>5, <1>6, <1>7 DEF r, c

LEMMA LegacyLockless ==
    ASSUME spec \in Specs
    PROVE  Lockless(When(SourceEnginePorts # <<>>,
             LET drop == Drop("legacy") IN
             [k \in DOMAIN drop |-> [drop[k] EXCEPT !.proto = "udp", !.ports = SourceEnginePorts]]))
<1> DEFINE d == Drop("legacy")
           s == [k \in DOMAIN d |-> [d[k] EXCEPT !.proto = "udp", !.ports = SourceEnginePorts]]
           r == [Rule EXCEPT !.bad = "legacy"]
<1>1. /\ IsSeq(d) /\ \A i \in 1..Len(d) : d[i] = r
      /\ Len(d) > 0 => "legacy" \in spec.drops
  BY DropLockless DEF Lockless
<1>2. Len(d) \in Nat /\ DOMAIN d = 1..Len(d)
  <2>1. PICK X : d \in Seq(X)
    BY <1>1 DEF IsSeq
  <2> QED BY <2>1
<1>3. [r EXCEPT !.proto = "udp", !.ports = SourceEnginePorts].kind = "drop"
      /\ [r EXCEPT !.proto = "udp", !.ports = SourceEnginePorts].bad = "legacy"
  BY DEF Rule
<1> HIDE DEF d, r
<1>4. s = [k \in 1..Len(d) |-> s[k]] /\ \A k \in 1..Len(d) : s[k].kind = "drop" /\ s[k].bad = "legacy"
  BY <1>1, <1>2, <1>3
<1> HIDE DEF s
<1>5. IsSeq(s) /\ Len(s) = Len(d)
  BY <1>2, <1>4, FunctionSeq
<1>6. ASSUME NEW i \in 1..Len(s) PROVE RawRule(s[i]) /\ s[i].kind \in {"blocked", "drop"}
  <2>1. s[i].kind = "drop" /\ s[i].bad = "legacy" /\ "legacy" \in spec.drops
    BY <1>1, <1>2, <1>4, <1>5
  <2> QED BY <2>1 DEF RawRule
<1>7. Lockless(s)
  BY <1>5, <1>6 DEF Lockless
<1>8. <<>> \in Seq({0}) /\ 1..Len(<<>>) = {}
  OBVIOUS
<1>9. IsSeq(<<>>)
  BY <1>8, Zenon DEF IsSeq
<1>10. Lockless(<<>>)
  BY <1>8, <1>9 DEF Lockless
<1>11. When(SourceEnginePorts # <<>>, s) \in {s, <<>>}
  BY Zenon DEF When
<1> QED BY <1>7, <1>10, <1>11 DEF s, d

LEMMA RawChainOk ==
    ASSUME spec \in Specs
    PROVE  RawOk(RawChain)
<1> DEFINE b == [Rule EXCEPT !.kind = "blocked", !.set = <<"blocked">>]
           s1 == When(spec.park, <<b>>)
           s2 == Drop("bogus")
           s3 == Drop("spoofed")
           s4 == When(SourceEnginePorts # <<>>,
                   LET drop == Drop("legacy") IN
                   [k \in DOMAIN drop |-> [drop[k] EXCEPT !.proto = "udp", !.ports = SourceEnginePorts]])
           s5 == FlattenSeq([i \in Indices |-> GeoRules(i)])
<1>1. Lockless(s1)
  <2>1. b.kind = "blocked"
    BY DEF Rule
  <2> HIDE DEF b
  <2>2. RawRule(b)
    BY <2>1 DEF RawRule
  <2>3. spec.park \in BOOLEAN
    BY SpecFacts
  <2> QED BY <2>1, <2>2, <2>3, LocklessWhen
<1>2. Lockless(s2) /\ Lockless(s3)
  BY DropLockless
<1>3. Lockless(s4)
  BY LegacyLockless
<1>4. RawOk(s5)
  BY LocksInOrder
<1>5. RawChain = s1 \o s2 \o s3 \o s4 \o s5
  BY DEF RawChain
<1> HIDE DEF s1, s2, s3, s4, s5
<1>6. Lockless(s1 \o s2)
  BY <1>1, <1>2, RawJoin
<1>7. Lockless(s1 \o s2 \o s3)
  BY <1>2, <1>6, RawJoin
<1>8. Lockless(s1 \o s2 \o s3 \o s4)
  BY <1>3, <1>7, RawJoin
<1>9. RawOk(s1 \o s2 \o s3 \o s4 \o s5)
  BY <1>4, <1>8, RawJoin
<1> QED BY <1>5, <1>9

(* What the packets meet.                                                  *)
RulesOk ==
    /\ spec \in Specs /\ IsSeq(rules)
    /\ \A i \in Limiters(rules) : rules[i].most \in Nat
    /\ \A i, j \in Limiters(rules) : rules[i].set = rules[j].set => i = j
    /\ \A i \in 1..Len(rules) : rules[i].kind = "trip" => RawRule(rules[i])
    /\ \A i, j \in 1..Len(rules) : i < j /\ rules[j].kind = "trip" =>
          RawRule(rules[i]) /\ (rules[i].kind = "geo" => rules[i].row < rules[j].row)

LEMMA RulesInit ==
    ASSUME spec \in Specs, rules = BuildProtectRuleset
    PROVE  RulesOk
<1>1. CASE ~Active
  <2>1. rules = <<>>
    BY <1>1 DEF BuildProtectRuleset
  <2>2. <<>> \in Seq({0}) /\ 1..Len(<<>>) = {}
    OBVIOUS
  <2>3. IsSeq(<<>>)
    BY <2>2, Zenon DEF IsSeq
  <2> QED BY <2>1, <2>2, <2>3 DEF RulesOk, Limiters
<1>2. CASE Active
  <2> DEFINE s == RawChain
             t == FilterChain
             u == s \o t
  <2>1. rules = u
    BY <1>2 DEF BuildProtectRuleset
  <2>2. RawOk(s) /\ Unshared(t)
    BY RawChainOk, FilterUnshared
  <2> HIDE DEF s, t
  <2>3. /\ IsSeq(u) /\ Len(s) \in Nat /\ Len(t) \in Nat /\ Len(u) = Len(s) + Len(t)
        /\ \A i \in 1..Len(u) :
             IF i <= Len(s) THEN i \in 1..Len(s) /\ u[i] = s[i]
             ELSE i - Len(s) \in 1..Len(t) /\ u[i] = t[i - Len(s)]
    BY <2>2, SeqJoin DEF RawOk, Unshared
  <2> HIDE DEF u
  <2>4. ASSUME NEW i \in Limiters(u)
        PROVE  i \in Nat /\ i - Len(s) \in Limiters(t) /\ u[i] = t[i - Len(s)]
    <3>1. i \in 1..Len(u) /\ u[i].kind \in Limits /\ i \in Nat
      BY <2>3 DEF Limiters
    <3>2. ~ (i <= Len(s))
      <4> SUFFICES ASSUME i <= Len(s) PROVE FALSE
        OBVIOUS
      <4>1. i \in 1..Len(s) /\ u[i] = s[i]
        BY <2>3, <3>1
      <4>2. s[i].kind \in {"blocked", "drop", "trip", "geo"}
        BY <2>2, <4>1 DEF RawOk, RawRule
      <4> QED BY <3>1, <4>1, <4>2 DEF Limits
    <3>3. i - Len(s) \in 1..Len(t) /\ u[i] = t[i - Len(s)]
      BY <2>3, <3>1, <3>2
    <3> QED BY <3>1, <3>3 DEF Limiters
  <2>5. \A i \in Limiters(u) : u[i].most \in Nat
    BY <2>2, <2>4 DEF Unshared
  <2>6. ASSUME NEW i \in Limiters(u), NEW j \in Limiters(u), u[i].set = u[j].set PROVE i = j
    <3>1. i - Len(s) = j - Len(s)
      BY <2>2, <2>4, <2>6 DEF Unshared
    <3> QED BY <2>3, <2>4, <3>1
  <2>7. ASSUME NEW i \in 1..Len(u), u[i].kind = "trip" PROVE i \in 1..Len(s) /\ u[i] = s[i]
    <3>1. CASE i <= Len(s)
      BY <2>3, <3>1
    <3>2. CASE ~ (i <= Len(s))
      <4>1. i - Len(s) \in 1..Len(t) /\ u[i] = t[i - Len(s)]
        BY <2>3, <3>2
      <4> QED BY <2>2, <2>7, <4>1 DEF Unshared
    <3> QED BY <3>1, <3>2
  <2>8. \A i \in 1..Len(u) : u[i].kind = "trip" => RawRule(u[i])
    BY <2>2, <2>7 DEF RawOk
  <2>9. ASSUME NEW i \in 1..Len(u), NEW j \in 1..Len(u), i < j, u[j].kind = "trip"
        PROVE  RawRule(u[i]) /\ (u[i].kind = "geo" => u[i].row < u[j].row)
    <3>1. j \in 1..Len(s) /\ u[j] = s[j]
      BY <2>7, <2>9
    <3>2. i <= Len(s)
      BY <2>3, <2>9, <3>1
    <3>3. i \in 1..Len(s) /\ u[i] = s[i]
      BY <2>3, <3>2
    <3> QED BY <2>2, <2>9, <3>1, <3>3 DEF RawOk
  <2> QED BY <2>1, <2>3, <2>5, <2>6, <2>8, <2>9 DEF RulesOk
<1> QED BY <1>1, <1>2


(* What the kernel keeps.                                                  *)
Maps(S) == UNION {[T -> Nat] : T \in SUBSET S}
Senders == {p.src : p \in Packets}
Ends == {<<p.proto, p.port>> : p \in Packets}
KState == [blocked : Maps(Senders), seen : [LimitSets(rules) -> Maps(Senders)], locked : Maps(Ends),
           hits : [1..Len(rules) -> Nat], out : {"pass", "drop"}]

LEMMA MapIs ==
    ASSUME NEW S, NEW f
    PROVE  /\ f \in Maps(S) => f \in [DOMAIN f -> Nat] /\ DOMAIN f \subseteq S
           /\ \A T \in SUBSET S : f \in [T -> Nat] => f \in Maps(S)
  BY DEF Maps

LEMMA PutIs ==
    ASSUME NEW S, NEW f \in Maps(S), NEW x \in S, NEW v \in Nat
    PROVE  /\ Put(f, x, v) \in Maps(S) /\ DOMAIN Put(f, x, v) = DOMAIN f \cup {x}
           /\ Put(f, x, v)[x] = v /\ \A y \in DOMAIN f \ {x} : Put(f, x, v)[y] = f[y]
<1>1. f \in [DOMAIN f -> Nat] /\ DOMAIN f \subseteq S
  BY MapIs
<1>2. Put(f, x, v) \in [DOMAIN f \cup {x} -> Nat] /\ DOMAIN f \cup {x} \in SUBSET S
  BY <1>1 DEF Put
<1>3. Put(f, x, v) \in Maps(S)
  BY <1>2, MapIs
<1> QED BY <1>3 DEF Put

LEMMA RuleFacts ==
    ASSUME RulesOk
    PROVE  /\ Len(rules) \in Nat /\ DOMAIN rules = 1..Len(rules)
           /\ Limiters(rules) = {i \in DOMAIN rules : rules[i].kind \in Limits}
           /\ LimitSets(rules) = {rules[i].set : i \in Limiters(rules)}
<1>1. PICK X : rules \in Seq(X)
  BY DEF RulesOk, IsSeq
<1> QED BY <1>1 DEF Limiters, LimitSets

(* A limiter counts a source in its own set, and drops it when it is over. *)
LEMMA LimitedIs ==
    ASSUME RulesOk, NEW p \in Packets, NEW i \in Limiters(rules), NEW k \in KState
    PROVE  LET s == rules[i].set
               f == k.seen[s]
               n == IF p.src \in DOMAIN f THEN f[p.src] + 1 ELSE 1
               v == IF n > rules[i].most THEN rules[i].most + 1 ELSE n
               k1 == Limited(k, rules[i], p)
           IN  /\ k1 \in KState /\ k1.locked = k.locked /\ k1.hits = k.hits
               /\ \/ k1 = k /\ p.src \notin DOMAIN f
                  \/ /\ k1.seen = [k.seen EXCEPT ![s] = Put(f, p.src, v)]
                     /\ n > rules[i].most => k1.out = "drop"
<1> DEFINE r == rules[i]
           s == r.set
           f == k.seen[s]
           n == IF p.src \in DOMAIN f THEN f[p.src] + 1 ELSE 1
           v == IF n > r.most THEN r.most + 1 ELSE n
           c == [k EXCEPT !.seen[s] = Put(f, p.src, v)]
           k1 == Limited(k, r, p)
<1>1. s \in LimitSets(rules) /\ r.most \in Nat /\ p.src \in Senders
  BY DEF LimitSets, RulesOk, Senders
<1>2. /\ k.seen \in [LimitSets(rules) -> Maps(Senders)] /\ k.blocked \in Maps(Senders)
      /\ k.locked \in Maps(Ends) /\ k.hits \in [1..Len(rules) -> Nat] /\ k.out \in {"pass", "drop"}
  BY DEF KState
<1>3. f \in Maps(Senders)
  BY <1>1, <1>2
<1>4. n \in Nat /\ v \in Nat
  <2>1. f \in [DOMAIN f -> Nat]
    BY <1>3, MapIs
  <2>2. n \in Nat
    BY <2>1
  <2> HIDE DEF n
  <2> QED BY <1>1, <2>2
<1>5. Put(f, p.src, v) \in Maps(Senders)
  BY <1>1, <1>3, <1>4, PutIs
<1>6. k1 = IF Full(f, p.src) THEN k ELSE IF n > r.most THEN Park(c, p) ELSE c
  BY DEF Limited
<1>7. Full(f, p.src) => p.src \notin DOMAIN f
  BY DEF Full
<1> HIDE DEF n, v, f
<1>8. /\ c \in KState /\ c.locked = k.locked /\ c.hits = k.hits /\ c.out = k.out
      /\ c.seen = [k.seen EXCEPT ![s] = Put(f, p.src, v)] /\ c.blocked = k.blocked
  <2>1. [k.seen EXCEPT ![s] = Put(f, p.src, v)] \in [LimitSets(rules) -> Maps(Senders)]
    BY <1>1, <1>2, <1>5
  <2> QED BY <1>2, <2>1 DEF KState
<1> HIDE DEF c, s, r
<1>9. /\ Park(c, p) \in KState /\ Park(c, p).locked = c.locked /\ Park(c, p).hits = c.hits
      /\ Park(c, p).seen = c.seen /\ Park(c, p).out = "drop"
  <2> DEFINE b == IF ~spec.park \/ Full(c.blocked, p.src) THEN c.blocked
                  ELSE Put(c.blocked, p.src, BlockTicks)
  <2>1. BlockTicks \in Nat
    BY EdgeAssumption
  <2>2. c.blocked \in Maps(Senders) /\ Put(c.blocked, p.src, BlockTicks) \in Maps(Senders)
    BY <1>1, <1>2, <1>8, <2>1, PutIs
  <2>3. Park(c, p) = [c EXCEPT !.out = "drop", !.blocked = b]
    BY <1>8 DEF Park, KState
  <2>4. b \in Maps(Senders)
    BY <2>2
  <2> HIDE DEF b
  <2> QED BY <1>8, <2>3, <2>4 DEF KState
<1> HIDE DEF k1
<1>10. /\ k1 \in KState /\ k1.locked = k.locked /\ k1.hits = k.hits
       /\ \/ k1 = k /\ p.src \notin DOMAIN f
          \/ /\ k1.seen = [k.seen EXCEPT ![s] = Put(f, p.src, v)]
             /\ n > r.most => k1.out = "drop"
  <2>1. CASE Full(f, p.src)
    BY <1>6, <1>7, <2>1
  <2>2. CASE ~Full(f, p.src) /\ n > r.most
    <3>1. k1 = Park(c, p)
      BY <1>6, <2>2
    <3> QED BY <1>8, <1>9, <3>1
  <2>3. CASE ~Full(f, p.src) /\ ~ (n > r.most)
    <3>1. k1 = c
      BY <1>6, <2>3
    <3> QED BY <1>8, <2>3, <3>1
  <2> QED BY <2>1, <2>2, <2>3
<1> QED BY <1>10 DEF k1, c, v, n, f, s, r

(* A rule's counter, up to one over the rule's limit.                      *)
NextHit(h, most) == IF h > most THEN h ELSE h + 1

(* What one rule does to a packet and to the kernel's state.               *)
PassesIt(k1, k) == k1 = k
LimitsIt(k1, k, i, p) ==
    /\ i \in Limiters(rules) /\ k.out # "drop" /\ Matches(rules[i], p, k)
    /\ k1 = Limited(k, rules[i], p)
TripsIt(k1, k, i, p) ==
    /\ rules[i].kind = "trip" /\ k.out # "drop" /\ Matches(rules[i], p, k)
    /\ k1.out = k.out /\ k1.blocked = k.blocked /\ k1.seen = k.seen
    /\ k1.hits = [k.hits EXCEPT ![i] = NextHit(k.hits[i], rules[i].most)]
    /\ k1.locked = IF k1.hits[i] > rules[i].most THEN Put(k.locked, <<p.proto, p.port>>, LockTicks)
                   ELSE k.locked
CapsIt(k1, k, i) ==
    /\ rules[i].kind = "ceiling" /\ k.out # "drop"
    /\ k1.blocked = k.blocked /\ k1.seen = k.seen /\ k1.locked = k.locked
    /\ k1.hits = [k.hits EXCEPT ![i] = NextHit(k.hits[i], rules[i].most)]
DropsIt(k1, k, i, p) ==
    /\ rules[i].kind \notin Limits \cup {"trip", "ceiling"} /\ k.out # "drop" /\ Matches(rules[i], p, k)
    /\ k1 = [k EXCEPT !.out = "drop"]

LEMMA StepIs ==
    ASSUME RulesOk, NEW p \in Packets, NEW i \in 1..Len(rules), NEW k \in KState
    PROVE  LET k1 == RuleStep(k, i, p)
           IN  /\ k1 \in KState
               /\ \/ PassesIt(k1, k) /\ (k.out = "drop" \/ ~Matches(rules[i], p, k))
                  \/ LimitsIt(k1, k, i, p) \/ TripsIt(k1, k, i, p) \/ CapsIt(k1, k, i) \/ DropsIt(k1, k, i, p)
<1> DEFINE r == rules[i]
           k1 == RuleStep(k, i, p)
           c == Counted(k, i, r.most)
<1>1. /\ k.seen \in [LimitSets(rules) -> Maps(Senders)] /\ k.blocked \in Maps(Senders)
      /\ k.locked \in Maps(Ends) /\ k.hits \in [1..Len(rules) -> Nat] /\ k.out \in {"pass", "drop"}
  BY DEF KState
<1>2. /\ c.hits = [k.hits EXCEPT ![i] = NextHit(k.hits[i], r.most)] /\ c.hits \in [1..Len(rules) -> Nat]
      /\ c.seen = k.seen /\ c.blocked = k.blocked /\ c.locked = k.locked /\ c.out = k.out /\ c \in KState
  <2>1. NextHit(k.hits[i], r.most) \in Nat
    BY <1>1 DEF NextHit
  <2>2. [k.hits EXCEPT ![i] = NextHit(k.hits[i], r.most)] \in [1..Len(rules) -> Nat]
    BY <1>1, <2>1
  <2>3. c = [k EXCEPT !.hits = [k.hits EXCEPT ![i] = NextHit(k.hits[i], r.most)]]
    BY <1>1 DEF Counted, NextHit, KState
  <2> QED BY <1>1, <2>2, <2>3 DEF KState
<1> HIDE DEF c
<1>3. CASE k.out = "drop" \/ ~Matches(r, p, k)
  <2>1. k1 = k
    BY <1>3, Zenon DEF RuleStep
  <2> QED BY <1>3, <2>1 DEF PassesIt
<1>4. CASE ~ (k.out = "drop" \/ ~Matches(r, p, k)) /\ r.kind \in Limits
  <2>1. k1 = Limited(k, r, p)
    BY <1>4 DEF RuleStep, Limits
  <2>2. i \in Limiters(rules)
    BY <1>4 DEF Limiters
  <2>3. k1 \in KState
    <3>1. Limited(k, rules[i], p) \in KState
      BY <2>2, LimitedIs
    <3> QED BY <2>1, <3>1
  <2> QED BY <1>4, <2>1, <2>2, <2>3 DEF LimitsIt
<1>5. CASE ~ (k.out = "drop" \/ ~Matches(r, p, k)) /\ r.kind = "trip"
  <2>1. k1 = IF c.hits[i] > r.most
               THEN [c EXCEPT !.locked = Put(@, <<p.proto, p.port>>, LockTicks)] ELSE c
    BY <1>5 DEF RuleStep, Limits, c
  <2>2. /\ <<p.proto, p.port>> \in Ends /\ LockTicks \in Nat
    BY EdgeAssumption DEF Ends
  <2>3. Put(k.locked, <<p.proto, p.port>>, LockTicks) \in Maps(Ends)
    BY <1>1, <2>2, PutIs
  <2> HIDE DEF k1, r
  <2>4. CASE c.hits[i] > r.most
    <3>1. k1 = [c EXCEPT !.locked = Put(k.locked, <<p.proto, p.port>>, LockTicks)]
      BY <1>2, <2>1, <2>4 DEF KState
    <3> DEFINE l == Put(k.locked, <<p.proto, p.port>>, LockTicks)
    <3> HIDE DEF l
    <3>2. k1 = [c EXCEPT !.locked = l] /\ l \in Maps(Ends)
      BY <2>3, <3>1 DEF l
    <3>3. /\ k1 \in KState /\ k1.out = k.out /\ k1.blocked = k.blocked /\ k1.seen = k.seen
          /\ k1.hits = c.hits /\ k1.locked = l
      BY <1>2, <3>2 DEF KState
    <3>4. TripsIt(k1, k, i, p)
      BY <1>2, <1>5, <2>4, <3>3 DEF TripsIt, r, l
    <3> QED BY <3>3, <3>4 DEF k1
  <2>5. CASE ~ (c.hits[i] > r.most)
    <3>1. k1 = c
      BY <2>1, <2>5
    <3>2. TripsIt(k1, k, i, p)
      BY <1>2, <1>5, <2>5, <3>1 DEF TripsIt, r
    <3> QED BY <1>2, <3>1, <3>2 DEF k1
  <2> QED BY <2>4, <2>5
<1>6. CASE ~ (k.out = "drop" \/ ~Matches(r, p, k)) /\ r.kind = "ceiling"
  <2>1. k1 = IF c.hits[i] > r.most THEN [c EXCEPT !.out = "drop"] ELSE c
    BY <1>6 DEF RuleStep, Limits, c
  <2> HIDE DEF k1, r
  <2>2. /\ k1 \in KState /\ k1.blocked = k.blocked /\ k1.seen = k.seen /\ k1.locked = k.locked
        /\ k1.hits = c.hits
    <3>1. CASE c.hits[i] > r.most
      <4>1. k1 = [c EXCEPT !.out = "drop"]
        BY <2>1, <3>1
      <4> QED BY <1>2, <4>1 DEF KState
    <3>2. CASE ~ (c.hits[i] > r.most)
      <4>1. k1 = c
        BY <2>1, <3>2
      <4> QED BY <1>2, <4>1
    <3> QED BY <3>1, <3>2
  <2>3. CapsIt(k1, k, i)
    BY <1>2, <1>6, <2>2 DEF CapsIt, r
  <2> QED BY <2>2, <2>3 DEF k1
<1>7. CASE /\ ~ (k.out = "drop" \/ ~Matches(r, p, k))
           /\ r.kind \notin Limits \cup {"trip", "ceiling"}
  <2>1. k1 = [k EXCEPT !.out = "drop"]
    BY <1>7 DEF RuleStep
  <2>2. k1 \in KState
    BY <2>1 DEF KState
  <2>3. DropsIt(k1, k, i, p)
    BY <1>7, <2>1 DEF DropsIt
  <2> QED BY <2>2, <2>3
<1> QED BY <1>3, <1>4, <1>5, <1>6, <1>7

(* A packet's way through the rules.                                       *)
Start == [blocked |-> blocked, seen |-> seen, locked |-> locked, hits |-> hits, out |-> "pass"]
Way(w, p) ==
    /\ w \in [0..Len(rules) -> KState] /\ w[0] = Start /\ Traverse(p) = w[Len(rules)]
    /\ \A i \in 1..Len(rules) : w[i] = RuleStep(w[i - 1], i, p)

LEMMA TraverseIs ==
    ASSUME RulesOk, NEW p \in Packets, Start \in KState
    PROVE  \E w : Way(w, p)
<1> DEFINE m == Len(rules)
           Val(n, k) == RuleStep(k, n, p)
           G == [x \in (1..m) \X KState |-> Val(x[1], x[2])]
           Eq(f) == f = [i \in 0..m |-> IF i = 0 THEN Start ELSE Val(i, f[i - 1])]
<1>1. m \in Nat
  BY RuleFacts
<1>2. ASSUME NEW n \in 1..m, NEW k \in KState PROVE Val(n, k) \in KState
  BY StepIs
<1> DEFINE D == KState
<1> HIDE DEF D
<1>3. G \in [(1..m) \X D -> D] /\ \A n \in 1..m, k \in D : G[<<n, k>>] = Val(n, k)
  <2> HIDE DEF Val, m
  <2> QED BY <1>2 DEF D
<1>4. Start \in D
  BY DEF D
<1>5. PICK h : IsWalk(h, m, D, Start, G)
  <2> HIDE DEF G, m
  <2> QED BY <1>1, <1>3, <1>4, WalkExists, Zenon
<1> HIDE DEF G, m, Val
<1>6. Eq(h)
  <2>1. ASSUME NEW n \in 0..m PROVE h[n] = IF n = 0 THEN Start ELSE Val(n, h[n - 1])
    <3>1. CASE n = 0
      BY <1>5, <3>1 DEF IsWalk
    <3>2. CASE n # 0
      <4>1. n \in 1..m
        BY <1>1, <3>2
      <4> QED BY <1>3, <1>5, <4>1 DEF IsWalk
    <3> QED BY <3>1, <3>2
  <2>2. h \in [0..m -> D]
    BY <1>5 DEF IsWalk
  <2> QED BY <2>1, <2>2
<1> DEFINE F == CHOOSE f : Eq(f)
<1>7. Eq(F)
  <2> HIDE DEF Eq
  <2> QED BY <1>6, Zenon
<1>8. Traverse(p) = F[m]
  BY DEF Traverse, Val, m, Start
<1> HIDE DEF F
<1>9. F[0] = Start /\ \A n \in 1..m : F[n] = Val(n, F[n - 1])
  <2>1. 0 \in 0..m /\ \A n \in 1..m : n \in 0..m /\ n # 0
    BY <1>1
  <2>2. \A n \in 0..m : F[n] = IF n = 0 THEN Start ELSE Val(n, F[n - 1])
    BY <1>7
  <2> QED BY <2>1, <2>2
<1>10. F = [i \in 0..m |-> F[i]]
  BY <1>7
<1> HIDE DEF Eq
<1> DEFINE T == {n \in Nat : n <= m => F[n] \in D}
<1>11. 0 \in T
  BY <1>4, <1>9
<1>12. ASSUME NEW n \in T PROVE n + 1 \in T
  <2> SUFFICES ASSUME n + 1 <= m PROVE F[n + 1] \in D
    OBVIOUS
  <2>1. n \in Nat /\ n + 1 \in 1..m /\ (n + 1) - 1 = n /\ F[n] \in D
    BY <1>1
  <2>2. F[n + 1] = Val(n + 1, F[n])
    BY <1>9, <2>1
  <2> QED BY <1>2, <2>1, <2>2 DEF D
<1>13. T = Nat
  <2> HIDE DEF T
  <2>1. T \in SUBSET Nat
    BY DEF T
  <2> QED BY <1>11, <1>12, <2>1, Induction
<1>14. F \in [0..m -> D]
  <2>1. \A n \in 0..m : n \in Nat /\ n <= m
    BY <1>1
  <2>2. \A n \in 0..m : F[n] \in D
    BY <1>13, <2>1
  <2> QED BY <1>10, <2>2
<1>15. Way(F, p)
  BY <1>8, <1>9, <1>14 DEF Way, m, Val, D
<1> QED BY <1>15

(* What holds after one rule and is kept by those behind it holds at the   *)
(* end.                                                                    *)
LEMMA Upward ==
    ASSUME NEW m \in Nat, NEW a \in 0..m, NEW T, a \in T,
           \A n \in 0..m : a <= n /\ n < m /\ n \in T => n + 1 \in T
    PROVE  \A n \in 0..m : a <= n => n \in T
<1> DEFINE S == {k \in Nat : a + k <= m => a + k \in T}
<1>1. 0 \in S
  OBVIOUS
<1>2. ASSUME NEW k \in S PROVE k + 1 \in S
  <2> SUFFICES ASSUME a + (k + 1) <= m PROVE a + (k + 1) \in T
    OBVIOUS
  <2>1. k \in Nat /\ a + k \in T /\ a + k \in 0..m /\ a + k < m /\ a <= a + k
    OBVIOUS
  <2>2. (a + k) + 1 \in T
    BY <2>1
  <2> QED BY <2>1, <2>2
<1>3. S = Nat
  <2> HIDE DEF S
  <2>1. S \in SUBSET Nat
    BY DEF S
  <2> QED BY <1>1, <1>2, <2>1, Induction
<1>4. ASSUME NEW n \in 0..m, a <= n PROVE n \in T
  <2>1. n - a \in Nat /\ a + (n - a) = n /\ n <= m
    BY <1>4
  <2>2. n - a \in S
    <3> HIDE DEF S
    <3> QED BY <1>3, <2>1
  <2>3. a + (n - a) <= m => a + (n - a) \in T
    BY <2>2
  <2> QED BY <2>1, <2>3
<1> QED BY <1>4

LEMMA WaySteps ==
    ASSUME RulesOk, NEW p \in Packets, NEW w, Way(w, p), NEW n \in 0..Len(rules), n < Len(rules)
    PROVE  /\ n + 1 \in 1..Len(rules) /\ w[n] \in KState /\ w[n + 1] \in KState
           /\ \/ w[n + 1] = w[n] /\ (w[n].out = "drop" \/ ~Matches(rules[n + 1], p, w[n]))
              \/ LimitsIt(w[n + 1], w[n], n + 1, p) \/ TripsIt(w[n + 1], w[n], n + 1, p)
              \/ CapsIt(w[n + 1], w[n], n + 1) \/ DropsIt(w[n + 1], w[n], n + 1, p)
<1>1. n + 1 \in 1..Len(rules) /\ n + 1 \in 0..Len(rules) /\ (n + 1) - 1 = n
  BY RuleFacts
<1>2. w[n] \in KState /\ w[n + 1] = RuleStep(w[n], n + 1, p)
  BY <1>1 DEF Way
<1> QED BY <1>1, <1>2, StepIs DEF PassesIt

(* A packet dropped at one rule stays dropped.                             *)
LEMMA DropStays ==
    ASSUME RulesOk, NEW p \in Packets, NEW w, Way(w, p), NEW a \in 0..Len(rules), w[a].out = "drop"
    PROVE  w[Len(rules)].out = "drop"
<1> DEFINE m == Len(rules)
           T == {n \in 0..m : w[n].out = "drop"}
<1>1. m \in Nat
  BY RuleFacts
<1>2. ASSUME NEW n \in 0..m, n < m, n \in T PROVE n + 1 \in T
  <2>1. n + 1 \in 0..m /\ w[n].out = "drop"
    BY <1>1, <1>2
  <2>2. \/ w[n + 1] = w[n]
        \/ LimitsIt(w[n + 1], w[n], n + 1, p) \/ TripsIt(w[n + 1], w[n], n + 1, p)
        \/ CapsIt(w[n + 1], w[n], n + 1) \/ DropsIt(w[n + 1], w[n], n + 1, p)
    BY <1>2, WaySteps
  <2>3. w[n + 1] = w[n]
    BY <2>1, <2>2, Zenon DEF LimitsIt, TripsIt, CapsIt, DropsIt
  <2> QED BY <2>1, <2>3
<1>3. a \in T
  OBVIOUS
<1> HIDE DEF T
<1>4. \A n \in 0..m : a <= n => n \in T
  BY <1>1, <1>2, <1>3, Upward
<1>5. m \in 0..m /\ a <= m
  BY <1>1
<1> QED BY <1>4, <1>5 DEF T

(* Only a limiter touches the set it counts in, at its own place.          *)
LEMMA SeenOnce ==
    ASSUME RulesOk, NEW p \in Packets, NEW w, Way(w, p), NEW i \in Limiters(rules)
    PROVE  LET s == rules[i].set
           IN  w[i - 1].seen[s] = seen[s] /\ w[Len(rules)].seen[s] = w[i].seen[s]
<1> DEFINE m == Len(rules)
           s == rules[i].set
<1>1. m \in Nat /\ i \in 1..m /\ i - 1 \in 0..m /\ i \in 0..m /\ rules[i].kind \in Limits
  BY RuleFacts DEF Limiters
<1>2. ASSUME NEW n \in 0..m, n < m, n + 1 # i PROVE w[n + 1].seen[s] = w[n].seen[s]
  <2>1. n + 1 \in 1..m /\ w[n] \in KState /\ w[n].seen \in [LimitSets(rules) -> Maps(Senders)]
    BY <1>2, WaySteps DEF KState
  <2>2. CASE LimitsIt(w[n + 1], w[n], n + 1, p)
    <3>1. n + 1 \in Limiters(rules) /\ w[n + 1] = Limited(w[n], rules[n + 1], p)
      BY <2>2 DEF LimitsIt
    <3>2. rules[n + 1].set # s /\ s \in LimitSets(rules)
      BY <1>2, <3>1 DEF RulesOk, LimitSets
    <3> DEFINE t == rules[n + 1].set
               x == Put(w[n].seen[t], p.src,
                    IF (IF p.src \in DOMAIN w[n].seen[t] THEN w[n].seen[t][p.src] + 1 ELSE 1)
                         > rules[n + 1].most
                      THEN rules[n + 1].most + 1
                      ELSE IF p.src \in DOMAIN w[n].seen[t] THEN w[n].seen[t][p.src] + 1 ELSE 1)
    <3>3. w[n + 1] = w[n] \/ w[n + 1].seen = [w[n].seen EXCEPT ![t] = x]
      <4>1. w[n] \in KState /\ n + 1 \in Limiters(rules)
        BY <2>1, <3>1
      <4> QED BY <3>1, <4>1, LimitedIs, SMTT(20)
    <3> HIDE DEF x, t
    <3>4. t # s
      BY <3>2 DEF t
    <3> QED BY <2>1, <3>2, <3>3, <3>4
  <2>3. CASE DropsIt(w[n + 1], w[n], n + 1, p)
    BY <2>1, <2>3 DEF DropsIt, KState
  <2>4. CASE TripsIt(w[n + 1], w[n], n + 1, p) \/ CapsIt(w[n + 1], w[n], n + 1)
    BY <2>4 DEF TripsIt, CapsIt
  <2> QED BY <1>2, <2>2, <2>3, <2>4, WaySteps
<1> HIDE DEF s
<1> DEFINE T == {n \in 0..m : n < i => w[n].seen[s] = w[0].seen[s]}
           U == {n \in 0..m : w[n].seen[s] = w[i].seen[s]}
<1>3. w[i - 1].seen[s] = w[0].seen[s]
  <2>1. 0 \in T /\ 0 \in 0..m
    BY <1>1
  <2>2. ASSUME NEW n \in 0..m, n < m, n \in T PROVE n + 1 \in T
    <3>1. n + 1 \in 0..m
      BY <1>1, <2>2
    <3>2. CASE n + 1 < i
      <4>1. w[n].seen[s] = w[0].seen[s] /\ n + 1 # i
        BY <1>1, <2>2, <3>2
      <4> QED BY <1>2, <2>2, <3>1, <4>1
    <3> QED BY <3>1, <3>2
  <2> HIDE DEF T
  <2>3. \A n \in 0..m : 0 <= n => n \in T
    BY <1>1, <2>1, <2>2, Upward
  <2>4. i - 1 \in T /\ i - 1 < i
    BY <1>1, <2>3
  <2> QED BY <2>4 DEF T
<1>4. w[m].seen[s] = w[i].seen[s]
  <2>1. i \in U
    BY <1>1
  <2>2. ASSUME NEW n \in 0..m, i <= n, n < m, n \in U PROVE n + 1 \in U
    <3>1. n + 1 \in 0..m /\ n + 1 # i
      BY <1>1, <2>2
    <3> QED BY <1>2, <2>2, <3>1
  <2> HIDE DEF U
  <2>3. \A n \in 0..m : i <= n => n \in U
    BY <1>1, <2>1, <2>2, Upward
  <2>4. m \in U
    BY <1>1, <2>3
  <2> QED BY <2>4 DEF U
<1>5. w[0].seen = seen
  BY DEF Way, Start
<1> QED BY <1>3, <1>4, <1>5 DEF s

(* What a packet does to one limit: nothing, or one more of its sender; a  *)
(* packet let through and counted was within the limit.                    *)
LEMMA OneMore ==
    ASSUME RulesOk, NEW p \in Packets, NEW w, Way(w, p), NEW i \in Limiters(rules),
           LET f == seen[rules[i].set] IN \A y \in DOMAIN f : f[y] <= rules[i].most + 1
    PROVE  LET f == seen[rules[i].set]
               k == w[Len(rules)]
               g == k.seen[rules[i].set]
           IN  /\ DOMAIN f \subseteq DOMAIN g
               /\ \A y \in DOMAIN g : g[y] <= rules[i].most + 1
               /\ \A y \in DOMAIN f : f[y] <= g[y]
               /\ k.out # "drop" /\ Matches(rules[i], p, k) /\ p.src \in DOMAIN g =>
                    /\ g[p.src] <= rules[i].most /\ 1 <= g[p.src]
                    /\ p.src \in DOMAIN f => f[p.src] + 1 <= g[p.src]
<1> DEFINE m == Len(rules)
           s == rules[i].set
           most == rules[i].most
           f == seen[s]
           k == w[m]
           g == k.seen[s]
           n == IF p.src \in DOMAIN f THEN f[p.src] + 1 ELSE 1
           v == IF n > most THEN most + 1 ELSE n
<1>1. m \in Nat /\ i \in 1..m /\ i - 1 \in 0..m /\ i \in 0..m /\ most \in Nat /\ rules[i].kind \in Limits
  BY RuleFacts DEF Limiters, RulesOk
<1>2. w[i - 1].seen[s] = f /\ g = w[i].seen[s]
  BY SeenOnce
<1>3. w[i - 1] \in KState /\ w[i] = RuleStep(w[i - 1], i, p) /\ s \in LimitSets(rules) /\ p.src \in Senders
  BY <1>1 DEF Way, LimitSets, Senders
<1>4. f \in Maps(Senders) /\ f \in [DOMAIN f -> Nat]
  <2>1. w[i - 1].seen \in [LimitSets(rules) -> Maps(Senders)]
    BY <1>3 DEF KState
  <2>2. f \in Maps(Senders)
    BY <1>2, <1>3, <2>1
  <2> QED BY <2>2, MapIs
<1>5. n \in Nat /\ v \in Nat /\ v <= most + 1 /\ 1 <= n
      /\ (p.src \in DOMAIN f => f[p.src] <= v) /\ (~ (n > most) => v = n)
  BY <1>1, <1>4
<1>6. Matches(rules[i], p, k) => Matches(rules[i], p, w[i - 1])
  BY <1>1 DEF Matches, Limits
<1> HIDE DEF n, v, f, k, g, most, s, m
<1>7. \/ g = f /\ (w[i - 1].out = "drop" \/ ~Matches(rules[i], p, w[i - 1]) \/ p.src \notin DOMAIN f)
      \/ g = Put(f, p.src, v) /\ (n > most => w[i].out = "drop")
  <2>1. \/ w[i] = w[i - 1] /\ (w[i - 1].out = "drop" \/ ~Matches(rules[i], p, w[i - 1]))
        \/ LimitsIt(w[i], w[i - 1], i, p)
    <3>1. ~TripsIt(w[i], w[i - 1], i, p) /\ ~CapsIt(w[i], w[i - 1], i) /\ ~DropsIt(w[i], w[i - 1], i, p)
      BY <1>1 DEF TripsIt, CapsIt, DropsIt, Limits
    <3>2. \/ PassesIt(w[i], w[i - 1]) /\ (w[i - 1].out = "drop" \/ ~Matches(rules[i], p, w[i - 1]))
          \/ LimitsIt(w[i], w[i - 1], i, p) \/ TripsIt(w[i], w[i - 1], i, p) \/ CapsIt(w[i], w[i - 1], i)
          \/ DropsIt(w[i], w[i - 1], i, p)
      BY <1>1, <1>3, StepIs DEF m
    <3> QED BY <3>1, <3>2 DEF PassesIt
  <2>2. CASE w[i] = w[i - 1] /\ (w[i - 1].out = "drop" \/ ~Matches(rules[i], p, w[i - 1]))
    BY <1>2, <2>2
  <2>3. CASE LimitsIt(w[i], w[i - 1], i, p)
    <3>1. w[i] = Limited(w[i - 1], rules[i], p)
      BY <2>3 DEF LimitsIt
    <3>2. \/ w[i] = w[i - 1] /\ p.src \notin DOMAIN f
          \/ /\ w[i].seen = [w[i - 1].seen EXCEPT ![s] = Put(f, p.src, v)]
             /\ n > most => w[i].out = "drop"
      BY <1>2, <1>3, <3>1, LimitedIs DEF n, v, most, s
    <3>3. w[i - 1].seen \in [LimitSets(rules) -> Maps(Senders)]
      BY <1>3 DEF KState
    <3> QED BY <1>2, <1>3, <3>2, <3>3
  <2> QED BY <2>1, <2>2, <2>3
<1>8. \A y \in DOMAIN f : f[y] <= most + 1
  BY DEF f, most, s
<1>9. k.out # "drop" => w[i - 1].out # "drop" /\ w[i].out # "drop"
  BY <1>1, DropStays DEF k, m
<1>10. CASE g = f /\ (w[i - 1].out = "drop" \/ ~Matches(rules[i], p, w[i - 1]) \/ p.src \notin DOMAIN f)
  <2>1. ~ (k.out # "drop" /\ Matches(rules[i], p, k) /\ p.src \in DOMAIN g)
    BY <1>6, <1>9, <1>10
  <2>2. \A y \in DOMAIN f : f[y] <= f[y]
    BY <1>4
  <2> QED BY <1>8, <1>10, <2>1, <2>2 DEF f, g, k, most, s, m
<1>11. CASE g = Put(f, p.src, v) /\ (n > most => w[i].out = "drop")
  <2>1. /\ DOMAIN g = DOMAIN f \cup {p.src} /\ g[p.src] = v
        /\ \A y \in DOMAIN f \ {p.src} : g[y] = f[y]
    BY <1>11 DEF Put
  <2>2. \A y \in DOMAIN g : g[y] <= most + 1
    BY <1>5, <1>8, <2>1
  <2>3. \A y \in DOMAIN f : f[y] <= g[y]
    BY <1>4, <1>5, <2>1
  <2>4. k.out # "drop" => /\ g[p.src] <= most /\ 1 <= g[p.src]
                          /\ p.src \in DOMAIN f => f[p.src] + 1 <= g[p.src]
    <3> SUFFICES ASSUME k.out # "drop"
                 PROVE  /\ g[p.src] <= most /\ 1 <= g[p.src]
                        /\ p.src \in DOMAIN f => f[p.src] + 1 <= g[p.src]
      OBVIOUS
    <3>1. ~ (n > most)
      BY <1>9, <1>11
    <3>2. g[p.src] = n
      BY <1>5, <2>1, <3>1
    <3>3. p.src \in DOMAIN f => n = f[p.src] + 1
      BY DEF n
    <3> QED BY <1>1, <1>4, <1>5, <3>1, <3>2, <3>3
  <2> QED BY <2>1, <2>2, <2>3, <2>4 DEF f, g, k, most, s, m
<1> QED BY <1>7, <1>10, <1>11

(* The state's types.                                                      *)
EdgeTypes ==
    /\ RulesOk
    /\ blocked \in Maps(Senders) /\ seen \in [LimitSets(rules) -> Maps(Senders)]
    /\ locked \in Maps(Ends) /\ hits \in [1..Len(rules) -> Nat] /\ arrived \in [Indices -> Nat]

LEMMA AgedIs ==
    ASSUME NEW S, NEW f \in Maps(S)
    PROVE  Aged(f) \in Maps(S) /\ \A x \in DOMAIN f : f[x] > 1 => x \in DOMAIN Aged(f)
<1>1. f \in [DOMAIN f -> Nat] /\ DOMAIN f \subseteq S
  BY MapIs
<1> DEFINE T == {y \in DOMAIN f : f[y] > 1}
<1>2. Aged(f) \in [T -> Nat] /\ T \in SUBSET S
  BY <1>1 DEF Aged
<1>3. Aged(f) \in Maps(S)
  <2> HIDE DEF T
  <2> QED BY <1>2, MapIs
<1> QED BY <1>3 DEF Aged

LEMMA NothingIs == \A S : Nothing \in Maps(S)
<1> SUFFICES ASSUME NEW S PROVE Nothing \in Maps(S)
  OBVIOUS
<1>1. {} \in SUBSET S /\ Nothing \in [{} -> Nat]
  BY DEF Nothing
<1> QED BY <1>1, MapIs

LEMMA SameRules ==
    ASSUME RulesOk, spec' = spec, rules' = rules
    PROVE  /\ RulesOk' /\ LimitSets(rules)' = LimitSets(rules) /\ Limiters(rules)' = Limiters(rules)
           /\ Indices' = Indices /\ Rows' = Rows /\ \A sv : GeoService(sv)' = GeoService(sv)
<1>1. Rows' = Rows
  BY DEF Rows
<1>2. Indices' = Indices
  BY <1>1 DEF Indices
<1>3. GeoRegionElems' = GeoRegionElems
  BY <1>1, <1>2 DEF GeoRegionElems
<1>4. \A r : Resolves(r)' = Resolves(r)
  BY <1>3 DEF Resolves
<1>5. \A sv : GeoService(sv)' = GeoService(sv)
  BY <1>4 DEF GeoService
<1>6. \A sv : Span(sv)' = Span(sv)
  BY DEF Span
<1>7. \A r : OfLock(r)' = OfLock(r)
  BY <1>1, <1>2, <1>5, <1>6 DEF OfLock
<1>8. \A r : RawRule(r)' = RawRule(r)
  BY <1>1, <1>7 DEF RawRule
<1>9. LimitSets(rules)' = LimitSets(rules) /\ Limiters(rules)' = Limiters(rules)
  BY DEF LimitSets, Limiters
<1>10. RulesOk'
  BY <1>8, <1>9 DEF RulesOk
<1> QED BY <1>1, <1>2, <1>5, <1>9, <1>10

LEMMA TypesInit == EdgeInit => EdgeTypes
<1> SUFFICES ASSUME EdgeInit PROVE EdgeTypes
  OBVIOUS
<1>1. RulesOk
  BY RulesInit DEF EdgeInit
<1>2. blocked \in Maps(Senders) /\ locked \in Maps(Ends)
  BY NothingIs DEF EdgeInit
<1>3. seen \in [LimitSets(rules) -> Maps(Senders)]
  <2>1. {rules[i].set : i \in {j \in DOMAIN rules : rules[j].kind \in Limits}} = LimitSets(rules)
    BY <1>1, RuleFacts
  <2>2. seen = [s \in LimitSets(rules) |-> Nothing]
    BY <2>1 DEF EdgeInit
  <2> QED BY <2>2, NothingIs
<1>4. hits \in [1..Len(rules) -> Nat]
  BY <1>1, RuleFacts DEF EdgeInit
<1>5. arrived \in [Indices -> Nat]
  BY DEF EdgeInit
<1> QED BY <1>1, <1>2, <1>3, <1>4, <1>5 DEF EdgeTypes

LEMMA TypesSend ==
    ASSUME EdgeTypes, NEW p \in Packets, Send(p)
    PROVE  /\ EdgeTypes' /\ \E w : Way(w, p)
           /\ blocked' = Traverse(p).blocked /\ seen' = Traverse(p).seen
           /\ locked' = Traverse(p).locked /\ hits' = Traverse(p).hits
<1>1. Start \in KState
  BY DEF Start, KState, EdgeTypes
<1>2. PICK w : Way(w, p)
  BY <1>1, TraverseIs DEF EdgeTypes
<1>3. Traverse(p) \in KState
  BY <1>2, RuleFacts DEF Way, EdgeTypes
<1>4. /\ blocked' = Traverse(p).blocked /\ seen' = Traverse(p).seen
      /\ locked' = Traverse(p).locked /\ hits' = Traverse(p).hits
  BY DEF Send
<1>5. spec' = spec /\ rules' = rules
  BY DEF Send, table
<1>6. /\ RulesOk' /\ LimitSets(rules)' = LimitSets(rules) /\ Indices' = Indices
  BY <1>5, SameRules DEF EdgeTypes
<1>7. arrived' \in [Indices -> Nat]
  BY DEF Send, EdgeTypes
<1>8. EdgeTypes'
  BY <1>3, <1>4, <1>5, <1>6, <1>7 DEF EdgeTypes, KState
<1> QED BY <1>2, <1>4, <1>8

LEMMA TypesTick ==
    ASSUME EdgeTypes, Tick
    PROVE  EdgeTypes'
<1>1. spec' = spec /\ rules' = rules
  BY DEF Tick, table
<1>2. /\ RulesOk' /\ LimitSets(rules)' = LimitSets(rules) /\ Indices' = Indices
  BY <1>1, SameRules DEF EdgeTypes
<1>3. blocked' \in Maps(Senders) /\ locked' \in Maps(Ends)
  BY AgedIs DEF Tick, EdgeTypes
<1>4. seen' \in [LimitSets(rules) -> Maps(Senders)]
  BY NothingIs DEF Tick, EdgeTypes
<1>5. hits' \in [1..Len(rules) -> Nat] /\ arrived' \in [Indices -> Nat]
  BY DEF Tick, EdgeTypes
<1> QED BY <1>1, <1>2, <1>3, <1>4, <1>5 DEF EdgeTypes

LEMMA TypesClosed ==
    ASSUME EdgeTypes, NEW set, NEW src, Closed(set, src), set \in DOMAIN seen
    PROVE  EdgeTypes'
<1>1. spec' = spec /\ rules' = rules
  BY DEF Closed, table
<1>2. /\ RulesOk' /\ LimitSets(rules)' = LimitSets(rules) /\ Indices' = Indices
  BY <1>1, SameRules DEF EdgeTypes
<1> DEFINE f == seen[set]
           g == [x \in DOMAIN f \ {src} |-> f[x]]
<1>3. f \in Maps(Senders) /\ f \in [DOMAIN f -> Nat] /\ DOMAIN f \subseteq Senders
  BY MapIs DEF EdgeTypes
<1>4. g \in Maps(Senders)
  <2>1. g \in [DOMAIN f \ {src} -> Nat] /\ DOMAIN f \ {src} \in SUBSET Senders
    BY <1>3
  <2> HIDE DEF f, g
  <2> QED BY <2>1, MapIs
<1>5. seen' = [seen EXCEPT ![set] = g]
  BY DEF Closed
<1> HIDE DEF g
<1>6. seen' \in [LimitSets(rules) -> Maps(Senders)]
  BY <1>4, <1>5 DEF EdgeTypes
<1>7. blocked' = blocked /\ locked' = locked /\ hits' = hits /\ arrived' = arrived
  BY DEF Closed
<1> QED BY <1>1, <1>2, <1>6, <1>7 DEF EdgeTypes

(* The packets let through under a limit are among those its set counts.   *)
Tallied(x) ==
    \E i \in Limiters(rules), y \in Senders :
      /\ x = <<rules[i].set, y>> /\ y \in DOMAIN seen[rules[i].set] /\ passed[x] \in Nat
      /\ passed[x] <= seen[rules[i].set][y] /\ passed[x] <= rules[i].most
LimitInv ==
    /\ \A i \in Limiters(rules) :
         \A y \in DOMAIN seen[rules[i].set] : seen[rules[i].set][y] <= rules[i].most + 1
    /\ \A x \in DOMAIN passed : Tallied(x)

LEMMA LimitInit == EdgeInit /\ EdgeTypes => LimitInv
<1> SUFFICES ASSUME EdgeInit, EdgeTypes PROVE LimitInv
  OBVIOUS
<1>1. DOMAIN Nothing = {}
  BY DEF Nothing
<1>2. DOMAIN passed = {}
  BY <1>1 DEF EdgeInit
<1>3. \A i \in Limiters(rules) : seen[rules[i].set] = Nothing
  BY RuleFacts DEF EdgeInit, EdgeTypes
<1> QED BY <1>1, <1>2, <1>3 DEF LimitInv

LEMMA LimitSend ==
    ASSUME EdgeTypes, LimitInv, NEW p \in Packets, Send(p)
    PROVE  LimitInv'
<1> DEFINE k == Traverse(p)
           tracked == {<<r.set, p.src>> : r \in {rules[i] : i \in {j \in DOMAIN rules :
                         /\ rules[j].kind \in Limits /\ Matches(rules[j], p, k)
                         /\ p.src \in DOMAIN k.seen[rules[j].set]}}}
           f(i) == seen[rules[i].set]
           g(i) == k.seen[rules[i].set]
<1>1. PICK w : Way(w, p)
  BY TypesSend
<1>2. /\ seen' = k.seen /\ rules' = rules /\ spec' = spec
      /\ passed' = IF k.out = "drop" THEN passed
                   ELSE [x \in DOMAIN passed \cup tracked |->
                           (IF x \in DOMAIN passed THEN passed[x] ELSE 0)
                           + (IF x \in tracked THEN 1 ELSE 0)]
  BY DEF Send, table
<1>3. Limiters(rules)' = Limiters(rules)
  BY <1>2 DEF Limiters
<1>4. ASSUME NEW i \in Limiters(rules)
      PROVE  /\ DOMAIN f(i) \subseteq DOMAIN g(i)
             /\ \A y \in DOMAIN g(i) : g(i)[y] <= rules[i].most + 1
             /\ \A y \in DOMAIN f(i) : f(i)[y] <= g(i)[y]
             /\ k.out # "drop" /\ Matches(rules[i], p, k) /\ p.src \in DOMAIN g(i) =>
                  /\ g(i)[p.src] <= rules[i].most /\ 1 <= g(i)[p.src]
                  /\ p.src \in DOMAIN f(i) => f(i)[p.src] + 1 <= g(i)[p.src]
  <2>1. \A y \in DOMAIN f(i) : f(i)[y] <= rules[i].most + 1
    BY DEF LimitInv
  <2>2. k = w[Len(rules)]
    BY <1>1 DEF Way
  <2> HIDE DEF k
  <2> QED BY <1>1, <2>1, <2>2, OneMore DEF EdgeTypes
<1>5. ASSUME NEW x \in tracked
      PROVE  \E i \in Limiters(rules) :
               x = <<rules[i].set, p.src>> /\ Matches(rules[i], p, k) /\ p.src \in DOMAIN g(i)
  <2>1. PICK j \in DOMAIN rules : /\ rules[j].kind \in Limits /\ Matches(rules[j], p, k)
                                  /\ p.src \in DOMAIN k.seen[rules[j].set] /\ x = <<rules[j].set, p.src>>
    BY <1>5
  <2>2. j \in Limiters(rules)
    BY <2>1, RuleFacts DEF EdgeTypes
  <2> QED BY <2>1, <2>2
<1>6. p.src \in Senders
  BY DEF Senders
<1>7. ASSUME NEW i \in Limiters(rules)
      PROVE  /\ f(i) \in [DOMAIN f(i) -> Nat] /\ g(i) \in [DOMAIN g(i) -> Nat] /\ rules[i].most \in Nat
  <2>1. rules[i].set \in LimitSets(rules)
    BY DEF LimitSets
  <2>2. seen' \in [LimitSets(rules) -> Maps(Senders)]
    <3>1. LimitSets(rules)' = LimitSets(rules)
      BY <1>2 DEF LimitSets, Limiters
    <3> QED BY <3>1, TypesSend DEF EdgeTypes
  <2>3. f(i) \in Maps(Senders) /\ g(i) \in Maps(Senders)
    BY <1>2, <2>1, <2>2 DEF EdgeTypes
  <2> QED BY <2>3, MapIs DEF EdgeTypes, RulesOk
<1> HIDE DEF tracked, k
<1>8. ASSUME NEW i \in Limiters(rules), NEW j \in Limiters(rules), rules[i].set = rules[j].set PROVE i = j
  BY <1>8 DEF EdgeTypes, RulesOk
<1>9. ASSUME NEW x \in DOMAIN passed' PROVE Tallied(x)'
  <2>1. CASE x \in DOMAIN passed /\ (k.out = "drop" \/ x \notin tracked)
    <3>1. PICK i \in Limiters(rules), y \in Senders :
            /\ x = <<rules[i].set, y>> /\ y \in DOMAIN f(i) /\ passed[x] \in Nat
            /\ passed[x] <= f(i)[y] /\ passed[x] <= rules[i].most
      BY <2>1 DEF LimitInv, Tallied
    <3>2. passed'[x] = passed[x]
      BY <1>2, <2>1, <3>1
    <3>3. y \in DOMAIN g(i) /\ passed[x] <= g(i)[y]
      BY <1>4, <1>7, <3>1
    <3> QED BY <1>2, <1>3, <3>1, <3>2, <3>3 DEF Tallied
  <2>2. CASE x \in tracked /\ k.out # "drop"
    <3>1. PICK i \in Limiters(rules) :
            x = <<rules[i].set, p.src>> /\ Matches(rules[i], p, k) /\ p.src \in DOMAIN g(i)
      BY <1>5, <2>2
    <3>2. /\ g(i)[p.src] <= rules[i].most /\ 1 <= g(i)[p.src] /\ g(i)[p.src] \in Nat
          /\ p.src \in DOMAIN f(i) => f(i)[p.src] + 1 <= g(i)[p.src]
      BY <1>4, <1>7, <2>2, <3>1
    <3>3. passed'[x] \in Nat /\ passed'[x] <= g(i)[p.src]
      <4>1. CASE x \in DOMAIN passed
        <5>1. PICK j \in Limiters(rules), y \in Senders :
                /\ x = <<rules[j].set, y>> /\ y \in DOMAIN f(j) /\ passed[x] \in Nat
                /\ passed[x] <= f(j)[y]
          BY <4>1 DEF LimitInv, Tallied
        <5>2. rules[i].set = rules[j].set /\ y = p.src
          BY <3>1, <5>1
        <5>3. j = i
          BY <1>8, <5>2
        <5>4. passed'[x] = passed[x] + 1
          BY <1>2, <2>2, <4>1
        <5>5. f(i)[p.src] \in Nat
          BY <1>7, <5>1, <5>2, <5>3
        <5> QED BY <3>2, <5>1, <5>2, <5>3, <5>4, <5>5
      <4>2. CASE x \notin DOMAIN passed
        <5>1. passed'[x] = 1
          BY <1>2, <2>2, <4>2
        <5> QED BY <3>2, <5>1
      <4> QED BY <4>1, <4>2
    <3>4. passed'[x] <= rules[i].most
      BY <1>7, <3>2, <3>3
    <3> QED BY <1>2, <1>3, <1>6, <3>1, <3>3, <3>4 DEF Tallied
  <2>3. x \in DOMAIN passed \/ (x \in tracked /\ k.out # "drop")
    BY <1>2, <1>9
  <2> QED BY <2>1, <2>2, <2>3
<1>10. \A i \in Limiters(rules)' : \A y \in DOMAIN (seen[rules[i].set])' :
          seen'[rules'[i].set][y] <= rules'[i].most + 1
  BY <1>2, <1>3, <1>4
<1> QED BY <1>9, <1>10 DEF LimitInv

LEMMA LimitTick ==
    ASSUME EdgeTypes, LimitInv, Tick
    PROVE  LimitInv'
<1>1. rules' = rules /\ Limiters(rules)' = Limiters(rules)
  BY DEF Tick, table, Limiters
<1>2. ASSUME NEW i \in Limiters(rules)
      PROVE  seen'[rules[i].set] = IF CountsOpen(rules[i].set) THEN seen[rules[i].set] ELSE Nothing
  <2>1. rules[i].set \in DOMAIN seen
    BY DEF LimitSets, EdgeTypes
  <2> QED BY <2>1 DEF Tick
<1>3. \A i \in Limiters(rules)' : \A y \in DOMAIN (seen[rules[i].set])' :
          seen'[rules'[i].set][y] <= rules'[i].most + 1
  BY <1>1, <1>2 DEF LimitInv, Nothing
<1>4. ASSUME NEW x \in DOMAIN passed' PROVE Tallied(x)'
  <2>1. x \in DOMAIN passed /\ CountsOpen(x[1]) /\ passed'[x] = passed[x]
    BY <1>4 DEF Tick
  <2>2. PICK i \in Limiters(rules), y \in Senders :
            /\ x = <<rules[i].set, y>> /\ y \in DOMAIN seen[rules[i].set] /\ passed[x] \in Nat
            /\ passed[x] <= seen[rules[i].set][y] /\ passed[x] <= rules[i].most
    BY <2>1 DEF LimitInv, Tallied
  <2>3. seen'[rules[i].set] = seen[rules[i].set]
    BY <1>2, <2>1, <2>2
  <2> QED BY <1>1, <2>1, <2>2, <2>3 DEF Tallied
<1> QED BY <1>3, <1>4 DEF LimitInv

LEMMA LimitClosed ==
    ASSUME EdgeTypes, LimitInv, NEW set, NEW src, Closed(set, src), set \in DOMAIN seen
    PROVE  LimitInv'
<1>1. rules' = rules /\ Limiters(rules)' = Limiters(rules)
  BY DEF Closed, table, Limiters
<1> DEFINE g == [x \in DOMAIN seen[set] \ {src} |-> seen[set][x]]
<1>2. seen' = [seen EXCEPT ![set] = g]
  BY DEF Closed
<1>3. ASSUME NEW i \in Limiters(rules)
      PROVE  seen'[rules[i].set] = IF rules[i].set = set THEN g ELSE seen[rules[i].set]
  <2>1. rules[i].set \in DOMAIN seen
    BY DEF LimitSets, EdgeTypes
  <2> HIDE DEF g
  <2> QED BY <1>2, <2>1
<1>4. \A i \in Limiters(rules)' : \A y \in DOMAIN (seen[rules[i].set])' :
          seen'[rules'[i].set][y] <= rules'[i].most + 1
  <2> SUFFICES ASSUME NEW i \in Limiters(rules), NEW y \in DOMAIN (seen'[rules[i].set])
               PROVE  seen'[rules[i].set][y] <= rules[i].most + 1
    BY <1>1
  <2>1. y \in DOMAIN seen[rules[i].set] /\ seen'[rules[i].set][y] = seen[rules[i].set][y]
    <3>1. CASE rules[i].set = set
      <4>1. seen'[rules[i].set] = g /\ y \in DOMAIN g
        BY <1>3, <3>1
      <4> QED BY <3>1, <4>1
    <3>2. CASE rules[i].set # set
      BY <1>3, <3>2
    <3> QED BY <3>1, <3>2
  <2> QED BY <2>1 DEF LimitInv
<1>5. ASSUME NEW x \in DOMAIN passed' PROVE Tallied(x)'
  <2>1. x \in DOMAIN passed /\ x # <<set, src>> /\ passed'[x] = passed[x]
    BY <1>5 DEF Closed
  <2>2. PICK i \in Limiters(rules), y \in Senders :
            /\ x = <<rules[i].set, y>> /\ y \in DOMAIN seen[rules[i].set] /\ passed[x] \in Nat
            /\ passed[x] <= seen[rules[i].set][y] /\ passed[x] <= rules[i].most
    BY <2>1 DEF LimitInv, Tallied
  <2>3. rules[i].set = set => y # src
    BY <2>1, <2>2
  <2>4. y \in DOMAIN (seen'[rules[i].set]) /\ seen'[rules[i].set][y] = seen[rules[i].set][y]
    <3>1. CASE rules[i].set = set
      <4>1. seen'[rules[i].set] = g /\ y \in DOMAIN seen[set] \ {src}
        BY <1>3, <2>2, <2>3, <3>1
      <4> QED BY <3>1, <4>1
    <3>2. CASE rules[i].set # set
      <4>1. seen'[rules[i].set] = seen[rules[i].set]
        BY <1>3, <3>2
      <4> QED BY <2>2, <4>1
    <3> QED BY <3>1, <3>2
  <2> QED BY <1>1, <2>1, <2>2, <2>4 DEF Tallied
<1> QED BY <1>4, <1>5 DEF LimitInv

LEMMA LimitFits == EdgeTypes /\ LimitInv => NoneOverLimit
<1> SUFFICES ASSUME EdgeTypes, LimitInv, NEW x \in DOMAIN passed, NEW i \in DOMAIN rules,
                    rules[i].kind \in Limits, rules[i].set = x[1]
             PROVE  passed[x] <= rules[i].most
  BY DEF NoneOverLimit
<1>1. i \in Limiters(rules)
  BY RuleFacts DEF EdgeTypes
<1>2. PICK j \in Limiters(rules), y \in Senders :
            x = <<rules[j].set, y>> /\ passed[x] <= rules[j].most
  BY DEF LimitInv, Tallied
<1>3. rules[i].set = rules[j].set
  BY <1>2
<1>4. i = j
  BY <1>1, <1>3 DEF EdgeTypes, RulesOk
<1> QED BY <1>2, <1>4

(* The triggers of the region locks.                                       *)
Triggers == {j \in 1..Len(rules) : rules[j].kind = "trip"}
Single(sv) == sv.lo = Span(sv)[2]
End(sv) == <<sv.proto, sv.lo>>

LEMMA LimitedKeeps ==
    ASSUME RulesOk, NEW p \in Packets, NEW i \in Limiters(rules), NEW k \in KState
    PROVE  Limited(k, rules[i], p).locked = k.locked /\ Limited(k, rules[i], p).hits = k.hits
<1> DEFINE r == rules[i]
           Count(v) == [k EXCEPT !.seen[r.set] = Put(@, p.src, v)]
<1>1. \A v : /\ Count(v).locked = k.locked /\ Count(v).hits = k.hits
             /\ Park(Count(v), p).locked = k.locked /\ Park(Count(v), p).hits = k.hits
  BY DEF Park, KState
<1>2. \/ Limited(k, r, p) = k
      \/ \E v : Limited(k, r, p) = Count(v) \/ Limited(k, r, p) = Park(Count(v), p)
  BY DEF Limited
<1> HIDE DEF Count, r
<1>3. Limited(k, r, p).locked = k.locked /\ Limited(k, r, p).hits = k.hits
  BY <1>1, <1>2
<1> QED BY <1>3 DEF r

LEMMA TriggerFacts ==
    ASSUME RulesOk, NEW j \in Triggers
    PROVE  /\ j \in 1..Len(rules) /\ rules[j].row \in Indices /\ Rows[rules[j].row] \in Service
           /\ rules[j].most = Rows[rules[j].row].auto /\ rules[j].most \in Nat
           /\ \A p, k : Matches(rules[j], p, k) <=>
                          Rows[rules[j].row].proto = p.proto /\ In(p.port, <<Span(Rows[rules[j].row])>>)
<1> DEFINE r == rules[j]
           i == r.row
<1>1. r.kind = "trip" /\ OfLock(r) /\ r.most = Rows[i].auto
  BY DEF Triggers, RulesOk, RawRule
<1>2. i \in Indices /\ r.proto = Rows[i].proto /\ r.ports = <<Span(Rows[i])>> /\ r.bad = "none" /\ r.query = FALSE
  BY <1>1 DEF OfLock
<1>3. Rows[i] \in Service
  BY <1>2, SpecFacts DEF RulesOk
<1>4. Rows[i].auto \in Nat /\ Rows[i].proto \in {"tcp", "udp"}
  BY <1>3 DEF Service
<1> DEFINE ports == <<Span(Rows[i])>>
<1>5. ports # <<>>
  OBVIOUS
<1> HIDE DEF ports
<1>6. ASSUME NEW p, NEW k
      PROVE  Matches(r, p, k) <=> Rows[i].proto = p.proto /\ In(p.port, ports)
  <2>1. r.proto = Rows[i].proto /\ r.ports = ports /\ r.proto # "any"
    BY <1>2, <1>4 DEF ports
  <2>2. r.proto \in {"any", p.proto} <=> Rows[i].proto = p.proto
    BY <2>1
  <2>3. /\ r.kind \notin {"rate", "count"} /\ r.kind # "blocked" /\ r.kind # "geo"
        /\ r.bad = "none" /\ r.query = FALSE /\ r.ports # <<>>
    BY <1>1, <1>2, <1>5, <2>1
  <2> HIDE DEF i, r
  <2>4. Matches(r, p, k) <=> r.proto \in {"any", p.proto} /\ In(p.port, r.ports)
    BY <2>3, Zenon DEF Matches
  <2> QED BY <2>1, <2>2, <2>4
<1> QED BY <1>1, <1>2, <1>3, <1>4, <1>6 DEF Triggers, ports

(* A row with one port.                                                    *)
LEMMA SinglePort ==
    ASSUME NEW sv \in Service, Single(sv), NEW port \in Nat
    PROVE  In(port, <<Span(sv)>>) <=> port = sv.lo
<1> DEFINE s == Span(sv)
<1>1. s[1] = sv.lo /\ s[2] = sv.lo /\ sv.lo \in Nat
  BY DEF Single, Span, Service
<1> HIDE DEF s
<1>2. DOMAIN <<s>> = {1} /\ <<s>>[1] = s
  OBVIOUS
<1>3. In(port, <<s>>) <=> port \in s[1]..s[2]
  BY <1>2 DEF In
<1> QED BY <1>1, <1>3 DEF s

(* A packet that reaches the locks meets the trigger of the first lock on  *)
(* its port: whatever is in front of it lets it pass.                      *)
LEMMA Uncovered ==
    ASSUME RulesOk, NEW p \in Packets, NEW w, Way(w, p), NEW j \in Triggers,
           ReachesLocks(p), Single(Rows[rules[j].row]), FirstLock(rules[j].row),
           Rows[rules[j].row].proto = p.proto, In(p.port, <<Span(Rows[rules[j].row])>>)
    PROVE  w[j - 1].out # "drop"
<1> DEFINE m == Len(rules)
           i == rules[j].row
           T == {n \in 0..m : n < j => w[n].out # "drop" /\ w[n].blocked = blocked}
<1>1. m \in Nat /\ j \in 1..m /\ j - 1 \in 0..m
  BY RuleFacts DEF Triggers
<1>2. p.port \in Nat /\ Rows[i] \in Service /\ i \in Indices
  BY TriggerFacts, EdgeAssumption
<1>3. p.port = Rows[i].lo
  BY <1>2, SinglePort
<1>4. 0 \in T
  BY <1>1 DEF Way, Start
<1>5. ASSUME NEW n \in 0..m, n < m, n \in T PROVE n + 1 \in T
  <2> SUFFICES ASSUME n + 1 < j PROVE w[n + 1].out # "drop" /\ w[n + 1].blocked = blocked
    BY <1>1, <1>5
  <2>1. w[n].out # "drop" /\ w[n].blocked = blocked /\ n + 1 \in 1..m
    BY <1>1, <1>5
  <2> DEFINE r == rules[n + 1]
  <2>2. RawRule(r) /\ (r.kind = "geo" => r.row < i)
    BY <2>1 DEF RulesOk, Triggers
  <2>3. r.kind \in {"blocked", "drop", "trip", "geo"}
    BY <2>2 DEF RawRule
  <2>4. ~DropsIt(w[n + 1], w[n], n + 1, p)
    <3> SUFFICES ASSUME DropsIt(w[n + 1], w[n], n + 1, p) PROVE FALSE
      OBVIOUS
    <3>1. Matches(r, p, w[n]) /\ r.kind \in {"blocked", "drop", "geo"}
      BY <2>3 DEF DropsIt
    <3>2. CASE r.kind = "blocked"
      <4>1. p.src \in DOMAIN w[n].blocked
        BY <3>1, <3>2, Zenon DEF Matches
      <4> QED BY <2>1, <4>1 DEF ReachesLocks
    <3>3. CASE r.kind = "drop"
      <4>1. r.bad \in spec.drops \ {"invalid"} /\ r.bad # "none"
        BY <2>2, <3>3 DEF RawRule
      <4>2. p.bad = r.bad
        BY <3>1, <4>1, Zenon DEF Matches
      <4> QED BY <4>1, <4>2 DEF ReachesLocks
    <3>4. CASE r.kind = "geo"
      <4> DEFINE h == r.row
      <4>1. OfLock(r) /\ h < i
        BY <2>2, <3>4 DEF RawRule
      <4>2. /\ h \in Indices /\ r.proto = Rows[h].proto /\ r.ports = <<Span(Rows[h])>>
            /\ GeoService(Rows[h])
        BY <4>1 DEF OfLock
      <4>3. Rows[h].proto \in {"tcp", "udp"}
        BY <4>2, SpecFacts DEF RulesOk, Service
      <4>4. <<Span(Rows[h])>> # <<>>
        OBVIOUS
      <4>5. r.proto \in {"any", p.proto} /\ In(p.port, <<Span(Rows[h])>>)
        <5>1. r.proto \in {"any", p.proto} /\ (r.ports # <<>> => In(p.port, r.ports))
          BY <3>1, Zenon DEF Matches, DropsIt
        <5> HIDE DEF h, r
        <5> QED BY <4>2, <4>4, <5>1
      <4>6. h \in 1..(i - 1)
        <5>1. Len(Rows) \in Nat /\ Indices = 1..Len(Rows)
          BY SpecFacts DEF RulesOk, Indices
        <5>2. h \in 1..Len(Rows) /\ i \in 1..Len(Rows) /\ h < i
          BY <1>2, <4>1, <4>2, <5>1
        <5> HIDE DEF h, i
        <5> QED BY <5>1, <5>2
      <4>7. Rows[h].proto = Rows[i].proto
        BY <4>2, <4>3, <4>5
      <4> HIDE DEF h, i
      <4>8. FirstLock(i)
        BY DEF i
      <4> QED BY <1>3, <4>2, <4>5, <4>6, <4>7, <4>8 DEF FirstLock
    <3> QED BY <3>1, <3>2, <3>3, <3>4
  <2>5. ~LimitsIt(w[n + 1], w[n], n + 1, p) /\ ~CapsIt(w[n + 1], w[n], n + 1)
    BY <2>3 DEF LimitsIt, Limiters, CapsIt, Limits
  <2>6. w[n + 1] = w[n] \/ TripsIt(w[n + 1], w[n], n + 1, p)
    <3>1. \/ w[n + 1] = w[n]
          \/ LimitsIt(w[n + 1], w[n], n + 1, p) \/ TripsIt(w[n + 1], w[n], n + 1, p)
          \/ CapsIt(w[n + 1], w[n], n + 1) \/ DropsIt(w[n + 1], w[n], n + 1, p)
      BY <1>5, WaySteps
    <3> QED BY <2>4, <2>5, <3>1
  <2> QED BY <2>1, <2>6 DEF TripsIt
<1> HIDE DEF T
<1>6. 0 \in 0..m
  BY <1>1
<1>7. \A n \in 0..m : 0 <= n => n \in T
  BY <1>1, <1>4, <1>5, <1>6, Upward
<1>8. 0 <= j - 1 /\ j - 1 < j
  BY <1>1
<1>9. j - 1 \in T /\ j - 1 < j
  BY <1>1, <1>7, <1>8
<1> QED BY <1>9 DEF T

(* Only a rule itself counts in its counter.                               *)
LEMMA HitsOnce ==
    ASSUME RulesOk, NEW p \in Packets, NEW w, Way(w, p), NEW j \in 1..Len(rules)
    PROVE  w[j - 1].hits[j] = hits[j] /\ w[Len(rules)].hits[j] = w[j].hits[j]
<1> DEFINE m == Len(rules)
<1>1. m \in Nat /\ j - 1 \in 0..m /\ j \in 0..m
  BY RuleFacts
<1>2. ASSUME NEW n \in 0..m, n < m, n + 1 # j PROVE w[n + 1].hits[j] = w[n].hits[j]
  <2>1. n + 1 \in 1..m /\ w[n] \in KState /\ w[n].hits \in [1..m -> Nat]
    BY <1>2, WaySteps DEF KState
  <2>2. CASE LimitsIt(w[n + 1], w[n], n + 1, p)
    <3>1. n + 1 \in Limiters(rules) /\ w[n + 1] = Limited(w[n], rules[n + 1], p)
      BY <2>2 DEF LimitsIt
    <3>2. w[n + 1].hits = w[n].hits
      BY <2>1, <3>1, LimitedKeeps
    <3> QED BY <3>2
  <2>3. CASE DropsIt(w[n + 1], w[n], n + 1, p)
    BY <2>1, <2>3 DEF DropsIt, KState
  <2>4. CASE TripsIt(w[n + 1], w[n], n + 1, p) \/ CapsIt(w[n + 1], w[n], n + 1)
    <3>1. w[n + 1].hits = [w[n].hits EXCEPT ![n + 1] = NextHit(w[n].hits[n + 1], rules[n + 1].most)]
      BY <2>4 DEF TripsIt, CapsIt
    <3> QED BY <1>2, <2>1, <3>1
  <2> QED BY <1>2, <2>2, <2>3, <2>4, WaySteps
<1> DEFINE T == {n \in 0..m : n < j => w[n].hits[j] = hits[j]}
           U == {n \in 0..m : w[n].hits[j] = w[j].hits[j]}
<1>3. w[j - 1].hits[j] = hits[j]
  <2>1. 0 \in T /\ 0 \in 0..m
    BY <1>1 DEF Way, Start
  <2>2. ASSUME NEW n \in 0..m, n < m, n \in T PROVE n + 1 \in T
    <3>1. n + 1 \in 0..m
      BY <1>1, <2>2
    <3>2. CASE n + 1 < j
      <4>1. w[n].hits[j] = hits[j] /\ n + 1 # j
        BY <1>1, <2>2, <3>2
      <4> QED BY <1>2, <2>2, <3>1, <4>1
    <3> QED BY <3>1, <3>2
  <2> HIDE DEF T
  <2>3. \A n \in 0..m : 0 <= n => n \in T
    BY <1>1, <2>1, <2>2, Upward
  <2>4. j - 1 \in T /\ j - 1 < j
    BY <1>1, <2>3
  <2> QED BY <2>4 DEF T
<1>4. w[m].hits[j] = w[j].hits[j]
  <2>1. j \in U
    BY <1>1
  <2>2. ASSUME NEW n \in 0..m, j <= n, n < m, n \in U PROVE n + 1 \in U
    <3>1. n + 1 \in 0..m /\ n + 1 # j
      BY <1>1, <2>2
    <3> QED BY <1>2, <2>2, <3>1
  <2> HIDE DEF U
  <2>3. \A n \in 0..m : j <= n => n \in U
    BY <1>1, <2>1, <2>2, Upward
  <2>4. m \in U
    BY <1>1, <2>3
  <2> QED BY <2>4 DEF U
<1> QED BY <1>3, <1>4

(* A lock engaged at one rule is engaged at the end.                       *)
LEMMA LockStays ==
    ASSUME RulesOk, NEW p \in Packets, NEW w, Way(w, p), NEW a \in 0..Len(rules),
           NEW x \in DOMAIN w[a].locked
    PROVE  /\ x \in DOMAIN w[Len(rules)].locked
           /\ w[a].locked[x] = LockTicks => w[Len(rules)].locked[x] = LockTicks
<1> DEFINE m == Len(rules)
           Kept(n) == /\ x \in DOMAIN w[n].locked
                      /\ w[a].locked[x] = LockTicks => w[n].locked[x] = LockTicks
           T == {n \in 0..m : Kept(n)}
<1>1. m \in Nat
  BY RuleFacts
<1>2. ASSUME NEW n \in 0..m, n < m, n \in T PROVE n + 1 \in T
  <2>1. n + 1 \in 1..m /\ n + 1 \in 0..m /\ w[n] \in KState /\ w[n].locked \in Maps(Ends) /\ Kept(n)
    BY <1>1, <1>2, WaySteps DEF KState
  <2>2. CASE LimitsIt(w[n + 1], w[n], n + 1, p)
    <3>1. n + 1 \in Limiters(rules) /\ w[n + 1] = Limited(w[n], rules[n + 1], p)
      BY <2>2 DEF LimitsIt
    <3>2. w[n + 1].locked = w[n].locked
      BY <2>1, <3>1, LimitedKeeps
    <3> QED BY <2>1, <3>2
  <2>3. CASE DropsIt(w[n + 1], w[n], n + 1, p)
    <3>1. w[n + 1].locked = w[n].locked
      BY <2>1, <2>3 DEF DropsIt, KState
    <3> QED BY <2>1, <3>1
  <2>4. CASE CapsIt(w[n + 1], w[n], n + 1)
    BY <2>1, <2>4 DEF CapsIt
  <2>5. CASE TripsIt(w[n + 1], w[n], n + 1, p)
    <3> DEFINE e == <<p.proto, p.port>>
    <3>1. w[n + 1].locked \in {w[n].locked, Put(w[n].locked, e, LockTicks)}
      BY <2>5 DEF TripsIt
    <3>2. e \in Ends /\ LockTicks \in Nat
      BY EdgeAssumption DEF Ends
    <3> HIDE DEF e
    <3>3. Kept(n + 1)
      <4>1. CASE w[n + 1].locked = w[n].locked
        BY <2>1, <4>1
      <4>2. CASE w[n + 1].locked = Put(w[n].locked, e, LockTicks)
        <5> DEFINE l == Put(w[n].locked, e, LockTicks)
        <5>1. /\ DOMAIN l = DOMAIN w[n].locked \cup {e} /\ l[e] = LockTicks
              /\ \A y \in DOMAIN w[n].locked \ {e} : l[y] = w[n].locked[y]
          BY DEF Put
        <5>2. w[n + 1].locked = l
          BY <4>2
        <5> HIDE DEF l
        <5> QED BY <2>1, <5>1, <5>2
      <4> QED BY <3>1, <4>1, <4>2
    <3> QED BY <2>1, <3>3
  <2> QED BY <1>2, <2>1, <2>2, <2>3, <2>4, <2>5, WaySteps
<1>3. a \in T
  OBVIOUS
<1> HIDE DEF T
<1>4. \A n \in 0..m : a <= n => n \in T
  BY <1>1, <1>2, <1>3, Upward
<1>5. m \in T
  BY <1>1, <1>4
<1> QED BY <1>5 DEF T

(* A trigger over its rate has engaged its lock in this tick, and has      *)
(* counted every packet that reached it.                                   *)
Engaged(j) ==
    Single(Rows[rules[j].row]) /\ hits[j] > rules[j].most =>
      /\ End(Rows[rules[j].row]) \in DOMAIN locked
      /\ locked[End(Rows[rules[j].row])] = LockTicks
SeesAll(j) ==
    Single(Rows[rules[j].row]) /\ FirstLock(rules[j].row) =>
      arrived[rules[j].row] <= hits[j] \/ hits[j] > rules[j].most
LockInv == LockHolds /\ \A j \in Triggers : Engaged(j) /\ SeesAll(j)

LEMMA SameLocks ==
    ASSUME RulesOk, spec' = spec, rules' = rules
    PROVE  Triggers' = Triggers /\ Rows' = Rows /\ \A i : FirstLock(i)' = FirstLock(i)
<1>1. Rows' = Rows /\ \A sv : GeoService(sv)' = GeoService(sv)
  BY SameRules
<1>2. \A i : FirstLock(i)' = FirstLock(i)
  BY <1>1 DEF FirstLock
<1> QED BY <1>1, <1>2 DEF Triggers

LEMMA LockInit == EdgeInit /\ EdgeTypes => LockInv
<1> SUFFICES ASSUME EdgeInit, EdgeTypes PROVE LockInv
  OBVIOUS
<1>1. flood = {}
  BY DEF EdgeInit
<1>2. LockHolds
  BY <1>1 DEF LockHolds
<1>3. ASSUME NEW j \in Triggers PROVE Engaged(j) /\ SeesAll(j)
  <2>1. j \in 1..Len(rules) /\ rules[j].row \in Indices /\ rules[j].most \in Nat
    BY TriggerFacts DEF EdgeTypes
  <2>2. hits[j] = 0 /\ arrived[rules[j].row] = 0
    BY <2>1, RuleFacts DEF EdgeInit, EdgeTypes
  <2> QED BY <2>1, <2>2 DEF Engaged, SeesAll
<1> QED BY <1>2, <1>3 DEF LockInv

LEMMA LockSend ==
    ASSUME EdgeTypes, LockInv, NEW p \in Packets, Send(p)
    PROVE  LockInv'
<1> DEFINE m == Len(rules)
           k == Traverse(p)
<1>1. PICK w : Way(w, p)
  BY TypesSend
<1>2. /\ locked' = k.locked /\ hits' = k.hits /\ rules' = rules /\ spec' = spec /\ flood' = flood
      /\ arrived' = [i \in Indices |-> IF ReachesLocks(p) /\ Reached(i, p) THEN arrived[i] + 1
                                       ELSE arrived[i]]
  BY DEF Send, table
<1>3. Triggers' = Triggers /\ Rows' = Rows /\ \A i : FirstLock(i)' = FirstLock(i)
  BY <1>2, SameLocks DEF EdgeTypes
<1>4. m \in Nat /\ k = w[m] /\ w[0].locked = locked
  BY <1>1, RuleFacts DEF Way, Start, EdgeTypes
<1>5. RulesOk
  BY DEF EdgeTypes
<1> HIDE DEF k
<1>6. ASSUME NEW x \in DOMAIN locked
      PROVE  x \in DOMAIN locked' /\ (locked[x] = LockTicks => locked'[x] = LockTicks)
  <2>1. 0 \in 0..m /\ x \in DOMAIN w[0].locked
    BY <1>4
  <2>2. x \in DOMAIN w[m].locked /\ (w[0].locked[x] = LockTicks => w[m].locked[x] = LockTicks)
    BY <1>1, <1>5, <2>1, LockStays
  <2> QED BY <1>2, <1>4, <2>2
<1>7. LockHolds'
  BY <1>2, <1>3, <1>6 DEF LockInv, LockHolds, Span
<1>8. ASSUME NEW j \in Triggers PROVE Engaged(j)' /\ SeesAll(j)'
  <2> DEFINE i == rules[j].row
             sv == Rows[i]
             most == rules[j].most
  <2>1. /\ j \in 1..m /\ i \in Indices /\ sv \in Service /\ most \in Nat
        /\ \A q, z : Matches(rules[j], q, z) <=> sv.proto = q.proto /\ In(q.port, <<Span(sv)>>)
    BY <1>5, TriggerFacts
  <2>2. w[j - 1].hits[j] = hits[j] /\ hits'[j] = w[j].hits[j]
    BY <1>1, <1>2, <1>4, <1>5, <2>1, HitsOnce
  <2>3. hits[j] \in Nat /\ arrived[i] \in Nat
    BY <2>1 DEF EdgeTypes
  <2>4. \/ w[j] = w[j - 1] /\ (w[j - 1].out = "drop" \/ ~Matches(rules[j], p, w[j - 1]))
        \/ TripsIt(w[j], w[j - 1], j, p)
    <3>1. w[j - 1] \in KState /\ w[j] = RuleStep(w[j - 1], j, p)
      <4>1. j - 1 \in 0..m
        BY <1>4, <2>1
      <4> QED BY <1>1, <2>1, <4>1 DEF Way
    <3>2. rules[j].kind = "trip"
      BY DEF Triggers
    <3>3. /\ ~LimitsIt(w[j], w[j - 1], j, p) /\ ~CapsIt(w[j], w[j - 1], j)
          /\ ~DropsIt(w[j], w[j - 1], j, p)
      BY <3>2 DEF LimitsIt, Limiters, CapsIt, DropsIt, Limits
    <3>4. \/ PassesIt(w[j], w[j - 1]) /\ (w[j - 1].out = "drop" \/ ~Matches(rules[j], p, w[j - 1]))
          \/ LimitsIt(w[j], w[j - 1], j, p) \/ TripsIt(w[j], w[j - 1], j, p)
          \/ CapsIt(w[j], w[j - 1], j) \/ DropsIt(w[j], w[j - 1], j, p)
      BY <1>5, <2>1, <3>1, StepIs
    <3> QED BY <3>3, <3>4 DEF PassesIt
  <2>5. p.port \in Nat
    BY EdgeAssumption
  <2>6. w[j - 1].hits \in [1..m -> Nat]
    <3>1. j - 1 \in 0..m
      BY <1>4, <2>1
    <3> QED BY <1>1, <3>1 DEF Way, KState
  <2>7. TripsIt(w[j], w[j - 1], j, p) => hits'[j] = NextHit(hits[j], most)
    BY <2>1, <2>2, <2>6 DEF TripsIt
  <2>8. Engaged(j) /\ SeesAll(j)
    BY DEF LockInv
  <2> HIDE DEF most, sv, i
  <2>9. ASSUME Single(sv), hits'[j] > most
        PROVE  End(sv) \in DOMAIN locked' /\ locked'[End(sv)] = LockTicks
    <3>1. CASE TripsIt(w[j], w[j - 1], j, p)
      <4>1. sv.proto = p.proto /\ In(p.port, <<Span(sv)>>)
        BY <2>1, <3>1 DEF TripsIt
      <4>2. p.port = sv.lo
        BY <2>1, <2>5, <2>9, <4>1, SinglePort
      <4>3. w[j].locked = Put(w[j - 1].locked, End(sv), LockTicks)
        BY <2>2, <2>9, <3>1, <4>1, <4>2 DEF TripsIt, End, most
      <4>4. End(sv) \in DOMAIN w[j].locked /\ w[j].locked[End(sv)] = LockTicks
        BY <4>3 DEF Put
      <4>5. j \in 0..m
        BY <2>1
      <4>6. /\ End(sv) \in DOMAIN w[m].locked
            /\ w[j].locked[End(sv)] = LockTicks => w[m].locked[End(sv)] = LockTicks
        BY <1>1, <1>5, <4>4, <4>5, LockStays
      <4> QED BY <1>2, <1>4, <4>4, <4>6
    <3>2. CASE w[j] = w[j - 1]
      <4>1. hits[j] > most
        BY <2>2, <2>9, <3>2
      <4>2. End(sv) \in DOMAIN locked /\ locked[End(sv)] = LockTicks
        BY <2>8, <2>9, <4>1 DEF Engaged, most, sv, i
      <4> QED BY <1>6, <4>2
    <3> QED BY <2>4, <3>1, <3>2
  <2>10. ASSUME Single(sv), FirstLock(i)
         PROVE  arrived'[i] <= hits'[j] \/ hits'[j] > most
    <3>0. arrived[i] <= hits[j] \/ hits[j] > most
      BY <2>8, <2>10 DEF SeesAll, most, sv, i
    <3>1. CASE ReachesLocks(p) /\ Reached(i, p)
      <4>1. arrived'[i] = arrived[i] + 1
        BY <1>2, <2>1, <3>1
      <4>2. sv.proto = p.proto /\ In(p.port, <<Span(sv)>>)
        BY <3>1 DEF Reached, sv
      <4>3. w[j - 1].out # "drop"
        BY <1>1, <1>5, <2>10, <3>1, <4>2, Uncovered DEF sv, i
      <4>4. TripsIt(w[j], w[j - 1], j, p)
        BY <2>1, <2>4, <4>2, <4>3
      <4> QED BY <2>1, <2>3, <2>7, <3>0, <4>1, <4>4 DEF NextHit
    <3>2. CASE ~ (ReachesLocks(p) /\ Reached(i, p))
      <4>1. arrived'[i] = arrived[i]
        BY <1>2, <2>1, <3>2
      <4>2. hits'[j] = hits[j] \/ hits'[j] = NextHit(hits[j], most)
        BY <2>2, <2>4, <2>7
      <4> QED BY <2>1, <2>3, <3>0, <4>1, <4>2 DEF NextHit
    <3> QED BY <3>1, <3>2
  <2> QED BY <1>2, <1>3, <2>9, <2>10 DEF Engaged, SeesAll, Single, Span, End, most, sv, i
<1> QED BY <1>3, <1>7, <1>8 DEF LockInv

LEMMA LockTick ==
    ASSUME EdgeTypes, LockInv, Tick
    PROVE  LockInv'
<1>1. /\ rules' = rules /\ spec' = spec /\ locked' = Aged(locked)
      /\ hits' = [i \in DOMAIN hits |-> 0] /\ arrived' = [i \in Indices |-> 0]
      /\ flood' = {i \in AutoLocked : arrived[i] > Rows[i].auto}
  BY DEF Tick, table
<1>2. Triggers' = Triggers /\ Rows' = Rows /\ \A i : FirstLock(i)' = FirstLock(i)
  BY <1>1, SameLocks DEF EdgeTypes
<1>3. ASSUME NEW i \in flood', Single(Rows[i]), FirstLock(i)
      PROVE  End(Rows[i]) \in DOMAIN locked'
  <2>1. i \in AutoLocked /\ arrived[i] > Rows[i].auto
    BY <1>1, <1>3
  <2>2. PICK j \in Triggers : i = rules[j].row
    BY <2>1, RuleFacts DEF AutoLocked, Triggers, EdgeTypes
  <2>3. j \in 1..Len(rules) /\ i \in Indices /\ rules[j].most = Rows[i].auto /\ rules[j].most \in Nat
    BY <2>2, TriggerFacts DEF EdgeTypes
  <2>4. hits[j] \in Nat /\ arrived[i] \in Nat
    BY <2>3 DEF EdgeTypes
  <2>5. hits[j] > rules[j].most
    BY <1>3, <2>1, <2>2, <2>3, <2>4 DEF LockInv, SeesAll
  <2>6. End(Rows[i]) \in DOMAIN locked /\ locked[End(Rows[i])] = LockTicks
    BY <1>3, <2>2, <2>5 DEF LockInv, Engaged
  <2>7. LockTicks > 1
    BY EdgeAssumption
  <2> QED BY <1>1, <2>6, <2>7, AgedIs DEF EdgeTypes
<1>4. LockHolds'
  BY <1>2, <1>3 DEF LockHolds, Single, End, Span
<1>5. ASSUME NEW j \in Triggers PROVE Engaged(j)' /\ SeesAll(j)'
  <2>1. j \in 1..Len(rules) /\ rules[j].row \in Indices /\ rules[j].most \in Nat
    BY TriggerFacts DEF EdgeTypes
  <2>2. hits'[j] = 0 /\ arrived'[rules[j].row] = 0
    BY <1>1, <2>1 DEF EdgeTypes
  <2>3. ~ (hits'[j] > rules[j].most) /\ arrived'[rules[j].row] <= hits'[j]
    BY <2>1, <2>2
  <2> QED BY <1>1, <2>3 DEF Engaged, SeesAll
<1> QED BY <1>2, <1>4, <1>5 DEF LockInv

LEMMA LockRest ==
    ASSUME EdgeTypes, LockInv,
           UNCHANGED <<spec, rules, locked, hits, arrived, flood>>
    PROVE  LockInv'
<1>1. Triggers' = Triggers /\ Rows' = Rows /\ \A i : FirstLock(i)' = FirstLock(i)
  BY SameLocks DEF EdgeTypes
<1>2. LockHolds'
  BY <1>1 DEF LockInv, LockHolds, Span
<1>3. \A j \in Triggers : Engaged(j)' /\ SeesAll(j)'
  BY <1>1 DEF LockInv, Engaged, SeesAll, Single, Span, End
<1> QED BY <1>1, <1>2, <1>3 DEF LockInv

EdgeInv == EdgeTypes /\ LimitInv /\ LockInv

LEMMA EdgeInductive == EdgeSpec => []EdgeInv
<1>1. EdgeInit => EdgeInv
  BY TypesInit, LimitInit, LockInit DEF EdgeInv
<1>2. EdgeInv /\ [EdgeNext]_edgeVars => EdgeInv'
  <2> SUFFICES ASSUME EdgeInv, [EdgeNext]_edgeVars PROVE EdgeInv'
    OBVIOUS
  <2>1. ASSUME NEW p \in Packets, Send(p) PROVE EdgeInv'
    BY <2>1, TypesSend, LimitSend, LockSend DEF EdgeInv
  <2>2. CASE Tick
    BY <2>2, TypesTick, LimitTick, LockTick DEF EdgeInv
  <2>3. ASSUME NEW set \in DOMAIN seen, NEW src, Closed(set, src) PROVE EdgeInv'
    <3>1. UNCHANGED <<spec, rules, locked, hits, arrived, flood>>
      BY <2>3 DEF Closed, table
    <3> QED BY <2>3, <3>1, TypesClosed, LimitClosed, LockRest DEF EdgeInv
  <2>4. CASE UNCHANGED edgeVars
    <3>1. /\ UNCHANGED <<spec, rules, locked, hits, arrived, flood>>
          /\ UNCHANGED <<blocked, seen, passed>>
      BY <2>4 DEF edgeVars, table, kernel
    <3>2. RulesOk' /\ LimitSets(rules)' = LimitSets(rules) /\ Limiters(rules)' = Limiters(rules) /\ Indices' = Indices
      BY <3>1, SameRules DEF EdgeInv, EdgeTypes
    <3>3. EdgeTypes'
      BY <3>1, <3>2 DEF EdgeInv, EdgeTypes
    <3>4. LimitInv'
      BY <3>1, <3>2 DEF EdgeInv, LimitInv, Tallied
    <3> QED BY <3>1, <3>3, <3>4, LockRest DEF EdgeInv
  <2> QED BY <2>1, <2>2, <2>3, <2>4 DEF EdgeNext
<1> QED BY <1>1, <1>2, PTL DEF EdgeSpec

(* A source a limit counts gets no more than the limit through in a        *)
(* second, and no more connections than its limit open, whatever is parked *)
(* or full (the limiters of BuildProtectRuleset, protect.go:1021-1074, and *)
(* the park chains behind them).                                           *)
THEOREM LimitsHold == EdgeSpec => []NoneOverLimit
<1>1. EdgeInv => NoneOverLimit
  BY LimitFits DEF EdgeInv
<1> QED BY <1>1, EdgeInductive, PTL

(* The lock of a port is engaged as long as the flood on it lasts, where   *)
(* no lock above it covers the port (the region locks of                   *)
(* BuildProtectRuleset, protect.go:949-1001, with the trigger first).      *)
THEOREM LocksHold == EdgeSpec => []LockHolds
<1>1. EdgeInv => LockHolds
  BY DEF EdgeInv, LockInv
<1> QED BY <1>1, EdgeInductive, PTL
=============================================================================
