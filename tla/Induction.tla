------------------------------ MODULE Induction ------------------------------
(* Induction stated of sets of numbers, and what it gives for the operators on *)
(* sequences that the models are written with.                                 *)
EXTENDS Integers, Sequences, SequencesExt, SequenceTheorems, WellFoundedInduction, TLAPS

(* A set of numbers that is not empty has a least member. *)
LEMMA LeastMember ==
  ASSUME NEW T \in SUBSET Nat, T # {}
  PROVE  \E x \in T : \A y \in T : x <= y
<1> DEFINE R == OpToRel(<, Nat)
<1>1. \A x, y \in Nat : x < y => <<x, y>> \in R
  BY DEF OpToRel
<1>2. IsWellFoundedOn(R, Nat)
  BY NatLessThanWellFounded
<1> HIDE DEF R
<1>3. \E x \in T : \A y \in T : ~(<<y, x>> \in R)
  BY <1>2, WFMin
<1>4. PICK x \in T : \A y \in T : ~(<<y, x>> \in R)
  BY <1>3
<1>5. ASSUME NEW y \in T PROVE x <= y
  <2>1. x \in Nat /\ y \in Nat
    OBVIOUS
  <2>2. ~(y < x)
    BY <1>1, <1>4, <2>1, Zenon
  <2>3. QED
    BY <2>1, <2>2
<1>6. QED
  BY <1>5

(* What holds of 0, and of n + 1 if it holds of n, holds of every number. *)
LEMMA SetInduction ==
  ASSUME NEW S, 0 \in S, \A n \in Nat : n \in S => n + 1 \in S
  PROVE  \A n \in Nat : n \in S
<1>1. SUFFICES ASSUME Nat \ S # {} PROVE FALSE
  OBVIOUS
<1>2. PICK x \in Nat \ S : \A y \in Nat \ S : x <= y
  BY <1>1, LeastMember
<1>3. x - 1 \in Nat /\ x - 1 \in S
  BY <1>2
<1>4. QED
  BY <1>2, <1>3

(* f starts with a and goes on by D. *)
GoesOn(f, T, a, D) ==
  /\ f \in [Nat -> T] /\ f[0] = a
  /\ \A i \in Nat : f[i + 1] = D[i][f[i]]

(* There is such a function. *)
LEMMA Recursion ==
  ASSUME NEW T, NEW a \in T, NEW D \in [Nat -> [T -> T]]
  PROVE  \E f : GoesOn(f, T, a, D)
<1> DEFINE Upto(f, n) == /\ f \in [0 .. n -> T] /\ f[0] = a
                         /\ \A i \in 0 .. n - 1 : f[i + 1] = D[i][f[i]]
           J == {n \in Nat : \E f : Upto(f, n)}
<1>1. 0 \in J
  <2> DEFINE f == [i \in 0 .. 0 |-> a]
  <2>1. Upto(f, 0)
    OBVIOUS
  <2>2. QED
    BY <2>1
<1>2. ASSUME NEW n \in Nat, n \in J PROVE n + 1 \in J
  <2>1. PICK f : Upto(f, n)
    BY <1>2
  <2> DEFINE g == [i \in 0 .. n + 1 |-> IF i <= n THEN f[i] ELSE D[n][f[n]]]
  <2>2. f[n] \in T /\ D[n][f[n]] \in T
    BY <2>1
  <2>3. g \in [0 .. n + 1 -> T] /\ g[0] = a
    BY <2>1, <2>2
  <2>4. ASSUME NEW i \in 0 .. n + 1 - 1 PROVE g[i + 1] = D[i][g[i]]
    <3>1. CASE i = n
      BY <3>1
    <3>2. CASE i # n
      <4>1. i \in 0 .. n - 1 /\ i + 1 \in 0 .. n /\ i \in 0 .. n + 1 /\ i + 1 \in 0 .. n + 1
        BY <3>2
      <4>2. g[i + 1] = f[i + 1] /\ g[i] = f[i]
        BY <4>1
      <4>3. QED
        BY <2>1, <4>1, <4>2
    <3>3. QED
      BY <3>1, <3>2
  <2> HIDE DEF g
  <2>5. Upto(g, n + 1)
    BY <2>3, <2>4
  <2> HIDE DEF Upto
  <2>6. QED
    BY <2>5
<1>3. \A n \in Nat : n \in J
  <2> HIDE DEF J
  <2> QED
    BY <1>1, <1>2, SetInduction
<1>4. ASSUME NEW m \in Nat, NEW n \in Nat, m <= n, NEW f, NEW g, Upto(f, m), Upto(g, n)
      PROVE  f[m] = g[m]
  <2> DEFINE E == {k \in Nat : k <= m => f[k] = g[k]}
  <2>1. 0 \in E
    BY <1>4
  <2>2. ASSUME NEW k \in Nat, k \in E PROVE k + 1 \in E
    <3>1. SUFFICES ASSUME k + 1 <= m PROVE f[k + 1] = g[k + 1]
      OBVIOUS
    <3>2. f[k] = g[k] /\ k \in 0 .. m - 1 /\ k \in 0 .. n - 1
      BY <1>4, <2>2, <3>1
    <3>3. QED
      BY <1>4, <3>2
  <2> HIDE DEF E
  <2>3. \A k \in Nat : k \in E
    BY <2>1, <2>2, SetInduction
  <2>4. m \in E
    BY <2>3
  <2>5. QED
    BY <2>4 DEF E
<1> DEFINE part(n) == CHOOSE f : Upto(f, n)
           whole == [n \in Nat |-> part(n)[n]]
<1>5. ASSUME NEW n \in Nat PROVE Upto(part(n), n)
  BY <1>3
<1> HIDE DEF part
<1>6. ASSUME NEW n \in Nat PROVE whole[n] = part(n)[n] /\ whole[n] \in T
  BY <1>5
<1>7. whole \in [Nat -> T]
  BY <1>6
<1>8. whole[0] = a
  BY <1>5, <1>6
<1>9. ASSUME NEW i \in Nat PROVE whole[i + 1] = D[i][whole[i]]
  <2>1. Upto(part(i + 1), i + 1) /\ Upto(part(i), i)
    BY <1>5
  <2>2. part(i + 1)[i + 1] = D[i][part(i + 1)[i]]
    BY <2>1
  <2>3. part(i)[i] = part(i + 1)[i]
    <3> HIDE DEF Upto
    <3> QED
      BY <1>4, <2>1
  <2>4. QED
    BY <1>6, <2>2, <2>3
<1> HIDE DEF whole
<1>10. GoesOn(whole, T, a, D)
  BY <1>7, <1>8, <1>9 DEF GoesOn
<1>11. QED
  BY <1>10

-----------------------------------------------------------------------------
(* FlattenSeq appends one sequence after another, from the empty one on. *)
LEMMA FlattenSteps ==
  ASSUME NEW S, NEW ss \in Seq(Seq(S))
  PROVE  \E f \in [Nat -> Seq(S)] :
           /\ f[0] = <<>>
           /\ \A i \in 1 .. Len(ss) : f[i] = f[i - 1] \o ss[i]
           /\ FlattenSeq(ss) = f[Len(ss)]
<1> DEFINE n == Len(ss)
           J(x, i) == x \o ss[i]
           D == [i \in Nat |-> [v \in Seq(S) |-> IF i < n THEN J(v, i + 1) ELSE v]]
<1>1. n \in Nat /\ \A i \in 1 .. n : ss[i] \in Seq(S)
  BY ElementOfSeq, LenProperties
<1>2. \A x \in Seq(S), i \in 1 .. n : J(x, i) \in Seq(S)
  BY <1>1, ConcatProperties
<1>3. <<>> \in Seq(S)
  BY EmptySeq
<1>4. n > 0 => J(<<>>, 1) = ss[1]
  BY <1>1, ConcatEmptySeq
<1>5. n = 0 => FlattenSeq(ss) = <<>>
  BY EmptySeq DEF FlattenSeq
<1> DEFINE Def(g) == [i \in 1 .. n |-> IF i = 1 THEN ss[i] ELSE J(g[i - 1], i)]
           c == CHOOSE g : g = Def(g)
<1>6. n # 0 => FlattenSeq(ss) = c[n]
  BY DEF FlattenSeq
<1> HIDE DEF n, J, c
<1>7. D \in [Nat -> [Seq(S) -> Seq(S)]]
  BY <1>1, <1>2
<1>8. \A v \in Seq(S), i \in Nat : D[i][v] = IF i < n THEN J(v, i + 1) ELSE v
  OBVIOUS
<1> DEFINE T == Seq(S)
           nil == <<>>
<1>b. nil \in T /\ D \in [Nat -> [T -> T]]
  BY <1>3, <1>7
<1> HIDE DEF D, T, nil
<1>c. \E f : GoesOn(f, T, nil, D)
  BY <1>b, Recursion, Zenon
<1>9. PICK f \in [Nat -> Seq(S)] : f[0] = <<>> /\ \A i \in Nat : f[i + 1] = D[i][f[i]]
  BY <1>c DEF T, nil, GoesOn
<1>10. ASSUME NEW i \in 1 .. n PROVE f[i] = J(f[i - 1], i)
  <2>1. i - 1 \in Nat /\ i - 1 < n /\ i - 1 + 1 = i
    BY <1>1
  <2>2. f[i] = D[i - 1][f[i - 1]]
    BY <1>9, <2>1
  <2>3. QED
    BY <1>8, <2>1, <2>2
<1>d. n > 0 => f[1] = ss[1]
  <2>1. n > 0 => 1 \in 1 .. n /\ 1 - 1 = 0
    BY <1>1
  <2>2. n > 0 => f[1] = J(f[1 - 1], 1)
    BY <1>10, <2>1
  <2>3. QED
    BY <1>4, <1>9, <2>2
<1>11. CASE n = 0
  <2>1. FlattenSeq(ss) = f[n]
    BY <1>5, <1>9, <1>11
  <2>2. QED
    BY <1>9, <1>10, <2>1 DEF n, J
<1>12. CASE n # 0
  <2> DEFINE f1 == [i \in 1 .. n |-> f[i]]
  <2>1. f1 = Def(f1)
    <3>1. ASSUME NEW i \in 1 .. n PROVE f[i] = IF i = 1 THEN ss[i] ELSE J(f1[i - 1], i)
      <4>1. CASE i = 1
        BY <1>1, <1>d, <4>1
      <4>2. CASE i # 1
        <5>1. i - 1 \in 1 .. n
          BY <1>1, <4>2
        <5>2. f1[i - 1] = f[i - 1]
          BY <5>1
        <5>3. QED
          BY <1>10, <4>2, <5>2
      <4>3. QED
        BY <4>1, <4>2
    <3>2. QED
      BY <3>1
  <2>2. c = Def(c)
    BY <2>1 DEF c
  <2>3. \A i \in 1 .. n : c[i] = IF i = 1 THEN ss[i] ELSE J(c[i - 1], i)
    BY <2>2
  <2> DEFINE E == {k \in Nat : k + 1 <= n => c[k + 1] = f[k + 1]}
  <2>4. 0 \in E
    <3>1. c[1] = ss[1]
      BY <1>1, <1>12, <2>3
    <3>2. QED
      BY <1>1, <1>d, <1>12, <3>1
  <2>5. ASSUME NEW k \in Nat, k \in E PROVE k + 1 \in E
    <3>1. SUFFICES ASSUME k + 2 <= n PROVE c[k + 2] = f[k + 2]
      OBVIOUS
    <3>2. k + 2 \in 1 .. n /\ k + 2 - 1 = k + 1 /\ k + 2 # 1 /\ c[k + 1] = f[k + 1]
      BY <1>1, <2>5, <3>1
    <3>3. QED
      BY <1>10, <2>3, <3>2
  <2> HIDE DEF E
  <2>6. \A k \in Nat : k \in E
    BY <2>4, <2>5, SetInduction
  <2>7. n - 1 \in Nat /\ n - 1 + 1 = n
    BY <1>1, <1>12
  <2>8. c[n] = f[n]
    <3>1. n - 1 \in E
      BY <2>6, <2>7
    <3>2. n - 1 + 1 <= n
      BY <1>1
    <3>3. QED
      BY <2>7, <3>1, <3>2 DEF E
  <2>9. FlattenSeq(ss) = f[n]
    BY <1>6, <1>12, <2>8
  <2>10. QED
    BY <1>9, <1>10, <2>9 DEF n, J
<1>13. QED
  BY <1>11, <1>12

(* Concatenated, sequences over S make a sequence over S. *)
LEMMA FlattenType ==
  ASSUME NEW S, NEW ss \in Seq(Seq(S))
  PROVE  FlattenSeq(ss) \in Seq(S)
<1>1. Len(ss) \in Nat
  BY LenProperties
<1>2. PICK f \in [Nat -> Seq(S)] : FlattenSeq(ss) = f[Len(ss)]
  BY FlattenSteps
<1>3. QED
  BY <1>1, <1>2

(* Nothing, concatenated, is nothing. *)
LEMMA FlattenEmpty == FlattenSeq(<<>>) = <<>>
  BY EmptySeq DEF FlattenSeq
=============================================================================
