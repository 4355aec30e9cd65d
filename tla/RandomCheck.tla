---------------------------- MODULE RandomCheck ----------------------------
(***************************************************************************)
(* The randcheck command (src/cmd/sc_randcheck.c) and the battery of tests *)
(* it runs (cc_random_check in src/cc/rand.c).  A file is written bit by   *)
(* bit; one of FileBits bits is opened, read and tested.  What each test   *)
(* counts is in BitTests; whether its p-value is small enough is left open *)
(* unless the test gives up before it has one.                             *)
(***************************************************************************)
EXTENDS BitTests, FiniteSets, Combinatorics

CONSTANTS FileBits,        \* length of a file that is tested
          MaxBits,         \* length of a sequence the tests are looked at with
          PtrSize          \* sizeof(bseq), for which the size of the bits was meant

ASSUME FileBitsAssumption == FileBits \in {8 * k : k \in 1 .. MaxBits}
ASSUME PtrSizeAssumption  == PtrSize \in {4, 8} /\ PtrSize <= FileBits

VARIABLES file,            \* the bits of the file
          fp,              \* the FILE opened for it
          phase,           \* where __process is
          bseq,            \* the bits as the tests that are left will see them
          seen,            \* the bits as each test that was run saw them
          ret

vars == <<file, fp, phase, bseq, seen, ret>>

Tests ==
  << <<"Frequency", 0>>, <<"BlockFrequency", 10000>>, <<"PokerDetect", 4>>, <<"PokerDetect", 8>>,
     <<"Serial", 3>>, <<"Serial", 5>>, <<"Runs", 0>>, <<"RunsDistribution", 0>>, <<"LongestRunOfOnes", 0>>,
     <<"BinaryDerivate", 3>>, <<"BinaryDerivate", 7>>, <<"SelfCorrelation", 1>>, <<"SelfCorrelation", 2>>,
     <<"SelfCorrelation", 8>>, <<"SelfCorrelation", 16>>, <<"Rank", 0>>, <<"CumulativeSums", 0>>,
     <<"ApproximateEntropy", 2>>, <<"ApproximateEntropy", 5>>, <<"LinearComplexity", 500>>,
     <<"LinearComplexity", 1000>>, <<"Universal", 0>>, <<"DiscreteFourierTransform", 0>> >>

(* A test that returns 0 whatever it counted. *)
GivesUp(t, b) ==
  CASE t[1] = "PokerDetect"        -> PokerTooWide(t[2])
    [] t[1] = "Runs"               -> RunsUnbalanced(b)
    [] t[1] = "LongestRunOfOnes"   -> LongestRunShort(Len(b))
    [] t[1] = "Rank"               -> RankShort(b, 32)
    [] t[1] = "ApproximateEntropy" -> ApproximateEntropyShort(b, t[2])
    [] t[1] = "Universal"          -> UniversalShort(UniversalLength(Len(b)))
    [] OTHER                       -> FALSE

(* The bits a test leaves behind. *)
Left(t, b) == IF t[1] = "BinaryDerivate" THEN BinaryDerivate(t[2], b, PtrSize) ELSE b

NotedBug(so_far, passed) == IF passed THEN "OK" ELSE "FAIL"    \* the last verdict wins
Noted(so_far, passed) == IF passed THEN so_far ELSE "FAIL"

Init ==
  /\ file = <<>> /\ bseq = <<>> /\ seen = <<>>
  /\ fp = "none" /\ phase = "start" /\ ret = "FAIL"

Write ==
  /\ phase = "start" /\ Len(file) < MaxBits
  /\ \E bit \in {0, 1} : file' = Append(file, bit)
  /\ UNCHANGED <<fp, phase, bseq, seen, ret>>

Open ==
  /\ phase = "start" /\ Len(file) = FileBits
  /\ \/ phase' = "read" /\ fp' = "open"
     \/ phase' = "end"  /\ UNCHANGED fp
  /\ UNCHANGED <<file, bseq, seen, ret>>

(* Only the whole file closes the FILE; no memory and a short read do not. *)
Read ==
  /\ phase = "read"
  /\ \/ /\ phase' = "check" /\ fp' = "closed" /\ ret' = "OK"
        /\ bseq' = file
     \/ phase' = "end" /\ UNCHANGED <<fp, ret, bseq>>
  /\ UNCHANGED <<file, seen>>

CHECK ==
  /\ phase = "check" /\ Len(seen) < Len(Tests)
  /\ LET t == Tests[Len(seen) + 1]
     IN  /\ \E passed \in {TRUE, FALSE} :
              /\ passed => ~GivesUp(t, bseq)
              /\ ret' = Noted(ret, passed)
         /\ bseq' = Left(t, bseq)
  /\ seen' = Append(seen, bseq)
  /\ UNCHANGED <<file, fp, phase>>

Report ==
  /\ phase = "check" /\ Len(seen) = Len(Tests)
  /\ phase' = "end"
  /\ UNCHANGED <<file, fp, bseq, seen, ret>>

Next == Write \/ Open \/ Read \/ CHECK \/ Report
Spec == Init /\ [][Next]_vars

-----------------------------------------------------------------------------
(* What the counts are meant to be, for the bits written so far. *)
Being == phase = "start"
Dom   == 1 .. Len(file)
At(P(_)) == Cardinality({i \in Dom : P(i)})
Bit(v, k, m) == (v \div 2 ^ (m - k)) % 2               \* k-th of m bits of v, highest first
Largest(S) == CHOOSE x \in S : \A y \in S : y <= x

BitsMeant ==
  /\ \A byte \in 0 .. 255 : toByte(BytesToBitSequence(<<byte>>)) = byte
  /\ \A byte \in {0, 1, 128, 165, 255} :
       BytesToBitSequence(<<byte, 106>>) = BytesToBitSequence(<<byte>>) \o BytesToBitSequence(<<106>>)

TalliesMeant ==
  /\ Frequency(file) = At(LAMBDA i : file[i] = 1) - At(LAMBDA i : file[i] = 0)
  /\ \A M \in 1 .. 3 : \A k \in 1 .. Len(file) \div M :
       BlockFrequency(file, M)[k] = At(LAMBDA i : i \in (k - 1) * M + 1 .. k * M /\ file[i] = 1)
  /\ \A M \in 1 .. 3 : \A v \in 0 .. 2 ^ M - 1 :
       PokerDetect(file, M)[v] =
         At(LAMBDA i : i * M \in Dom /\ \A k \in 1 .. M : file[(i - 1) * M + k] = Bit(v, k, M))
  /\ file # <<>> =>
       \A m \in 1 .. 3 : \A v \in 0 .. 2 ^ m - 1 :
         psi2(file, m)[2 ^ m + v] =
           At(LAMBDA i : \A k \in 1 .. m : file[((i + k - 2) % Len(file)) + 1] = Bit(v, k, m))

(* The pairs of the first and last position of a maximal run. *)
MaximalRuns ==
  {r \in Dom \X Dom :
    /\ r[1] <= r[2] /\ \A i \in r[1] .. r[2] : file[i] = file[r[1]]
    /\ r[1] # 1 => file[r[1] - 1] # file[r[1]]
    /\ r[2] # Len(file) => file[r[2] + 1] # file[r[1]]}
RunsOf(v, l) == {r \in MaximalRuns : file[r[1]] = v /\ r[2] - r[1] + 1 = l}

RunsCounted ==
  file # <<>> =>
    /\ Runs(file) = Cardinality(MaximalRuns)
    /\ LET d == RunsDistribution(file)
       IN  \A l \in Dom : /\ d.gi[l] = Cardinality({r \in RunsOf(0, l) : r[2] # Len(file)})
                          /\ d.bi[l] = Cardinality({r \in RunsOf(1, l) : r[2] # Len(file)})
    /\ LongestRun(file) = Largest({0} \cup {l \in Dom : RunsOf(1, l) # {}})
    /\ LET nu == LongestRunOfOnes(file, [M |-> 3, V0 |-> 1, K |-> 1])
       IN  nu[0] + nu[1] = Len(file) \div 3

DerivativesMeant ==
  /\ \A k \in 1 .. 3 : \A len \in {4, Len(file)} : len <= Len(file) =>
       LET d == BinaryDerivate(k, file, len)
       IN  /\ \A i \in 1 .. len - k :
                d[i] = Cardinality({j \in 0 .. k : choose(k, j) % 2 = 1 /\ file[i + j] = 1}) % 2
           /\ \A i \in Dom : i >= len => d[i] = file[i]
  /\ \A d \in 1 .. 3 :
       LET pairs == {i \in Dom : i + d \in Dom /\ file[i] # file[i + d]}
       IN  SelfCorrelation(d, file) = Cardinality(pairs \ {Len(file) - d})

DistancesMeant ==
  /\ \A l \in 1 .. 2 :
       LET blocks == Blocks(file, l)
           Back(i) == i - Largest({0} \cup {j \in 1 .. i - 1 : blocks[j] = blocks[i]})
       IN  Universal(file, l, 2) = [i \in 1 .. Len(blocks) - 2 |-> Back(i + 2)]
  /\ \A L \in 6 .. 16 : /\ UniversalLength(1010 * 2 ^ L * L) = L
                        /\ UniversalLength(1010 * 2 ^ L * L - 1) = L - 1

(* A template no part of which is both at its start and at its end. *)
Greedy(s, t) ==
  FoldLeft(LAMBDA st, i : IF i < st.from \/ SubSeq(s, i, i + Len(t) - 1) # t THEN st
                          ELSE [from |-> i + Len(t), n |-> st.n + 1],
           [from |-> 1, n |-> 0], Upto(Len(s) - Len(t) + 1)).n
TemplatesMeant == \A t \in {<<0, 1>>, <<1, 0, 0>>} : Matches(file, t) = Greedy(file, t)

(* The factors have n for their product and leave room for themselves in     *)
(* ifac[15] as long as there are less than 8 * 3^12 bits; no place of wa is   *)
(* written twice and none is behind its end.                                   *)
FactorsMeant ==
  /\ \A n \in 2 .. 128 :
       LET w == drfti1(n)
       IN  /\ FoldLeft(LAMBDA x, f : x * f, 1, w.ifac) = n
           /\ Cardinality({w.wa[i] : i \in DOMAIN w.wa}) = Len(w.wa)
           /\ \A i \in DOMAIN w.wa : w.wa[i] \in 0 .. n - 1
  /\ \A n \in {2 ^ 21, 2 ^ 22, 8 * 3 ^ 11, 16 * 3 ^ 11, 8 * 3 ^ 12} :
       (Len(Factors(n, 1, <<>>)) + 1 <= 14) <=> n < 8 * 3 ^ 12

(* Every count a test is made of is the number of places, windows, runs,   *)
(* pairs or distances it is named for, but for the last run and the last   *)
(* pair; tables and work arrays are big enough.                             *)
CountsMeant ==
  Being => /\ file = <<>> => BitsMeant /\ FactorsMeant
           /\ TalliesMeant /\ RunsCounted /\ DerivativesMeant /\ DistancesMeant /\ TemplatesMeant

(* Elimination with row swaps forward and backward finds the rank: as many *)
(* sets of rows add up to nothing as there are sums of the rows the others *)
(* depend on.  The linear complexity is the length of the shortest feedback *)
(* register that makes the block; no array is written behind its end but for *)
(* a block whose last bit is its first 1.                                   *)
RankFound ==
  LET A == def_matrix(3, 3, file, 1)
      Cancels(R) == \A c \in 1 .. 3 : Cardinality({r \in R : A[r][c] = 1}) % 2 = 0
  IN  Cardinality({R \in SUBSET (1 .. 3) : Cancels(R)}) = 2 ^ (3 - computeRank(A))
ShortestRegister ==
  LET n == Len(file)
      Makes(L) == \E taps \in SUBSET (1 .. L) : \A i \in L + 1 .. n :
                    file[i] = Cardinality({j \in taps : file[i - j] = 1}) % 2
      bm == BerlekampMassey(file)
  IN  /\ Makes(bm.L) /\ \A L \in 0 .. bm.L - 1 : ~Makes(L)
      /\ bm.outside <=> file = [i \in Dom |-> IF i = n THEN 1 ELSE 0]
LinearMeant ==
  Being => /\ Len(file) = 9 => RankFound
           /\ file # <<>> => ShortestRegister

(* Forward and reverse extremes of the walk are those of its partial sums  *)
(* and never 0, which they divide by; the cycles of the walk hold each of  *)
(* its visits to a state near 0 once, and half as many places as there are *)
(* steps, and two, hold the cycles (the code has a hundredth).             *)
WalkMeant ==
  Being /\ file # <<>> =>
    LET S == Walk(file)
        Abs(x) == IF x < 0 THEN 0 - x ELSE x
        cs == CumulativeSums(file)
        n == Len(file)
        ex == RandomExcursions(file)
    IN  /\ cs.z = Largest({Abs(S[i]) : i \in Dom}) /\ cs.z > 0
        /\ cs.zrev = Largest({Abs(S[n] - S[i]) : i \in Dom} \cup {Abs(S[n])}) /\ cs.zrev > 0
        /\ \A x \in States : /\ Sum(Visits(file, x)) = RandomExcursionsVariant(file)[x]
                             /\ Sum([k \in 1 .. 6 |-> ex[x][k - 1]]) = Len(Cycles(file))
        /\ ~WritesBeyond(file, n \div 2 + 2)

FirstDerived == 10
(* When the file was read, every test runs, whatever failed before it; the *)
(* tests up to the first binary derivative see the file, the later ones    *)
(* see it from the place on whose number is a pointer's size; the verdict  *)
(* is never OK when a test gave up.  The FILE stays open when the read     *)
(* failed and is closed otherwise.                                         *)
BatteryRuns ==
  /\ \A k \in DOMAIN seen :
       /\ k <= FirstDerived => seen[k] = file
       /\ \A i \in PtrSize .. Len(file) : seen[k][i] = file[i]
  /\ ret = "OK" => \A k \in DOMAIN seen : ~GivesUp(Tests[k], seen[k])
  /\ phase = "end" =>
       /\ seen # <<>> => Len(seen) = Len(Tests)
       /\ fp = "closed" <=> seen # <<>>
       /\ ret = "FAIL"
=============================================================================
