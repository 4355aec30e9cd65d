------------------------------ MODULE BitTests ------------------------------
(***************************************************************************)
(* src/cc/random-check: what each randomness test counts in a sequence of  *)
(* bits.  The p-values that are made of the counts, and the spectrum of    *)
(* the Fourier test, are floating point and left out.  b is a sequence of  *)
(* 0s and 1s.                                                              *)
(***************************************************************************)
EXTENDS Integers, Sequences, SequencesExt

Xor(x, y) == (x + y) % 2
Upto(n)   == [i \in 1 .. n |-> i]
Sum(s)    == FoldLeft(LAMBDA v, x : v + x, 0, s)
Count(P(_), s) == Len(SelectSeq(s, P))

BytesToBitSequence(bytes) ==
  [k \in 1 .. 8 * Len(bytes) |-> (bytes[((k - 1) \div 8) + 1] \div 2 ^ (7 - ((k - 1) % 8))) % 2]

Frequency(b) == FoldLeft(LAMBDA s, x : s + 2 * x - 1, 0, b)

(* The blocks of M bits; the rest is not looked at. *)
Blocks(b, M) == [i \in 1 .. Len(b) \div M |-> SubSeq(b, (i - 1) * M + 1, i * M)]
BlockFrequency(b, M) == [i \in DOMAIN Blocks(b, M) |-> Sum(Blocks(b, M)[i])]

toByte(s) == FoldLeft(LAMBDA v, x : 2 * v + x, 0, s)
PokerTooWide(M) == M > 8
PokerDetect(b, M) ==
  FoldLeft(LAMBDA tab, s : [tab EXCEPT ![toByte(s)] = @ + 1],
           [flag \in 0 .. 2 ^ M - 1 |-> 0], Blocks(b, M))

(* Definitions named ...Bug are mistakes this code could easily have had; each *)
(* stands before the definition it would spoil.                               *)
WindowBug(b, i, m) ==                      \* does not go round
  FoldLeft(LAMBDA k, j : 2 * k + IF i + j <= Len(b) THEN b[i + j] ELSE 0, 1, [j \in 1 .. m |-> j - 1])

(* The node of a binary tree that the m bits from the i-th on lead to, round *)
(* the end of the sequence.                                                   *)
Window(b, i, m) ==
  FoldLeft(LAMBDA k, j : 2 * k + b[((i + j - 1) % Len(b)) + 1], 1, [j \in 1 .. m |-> j - 1])

psi2(b, m) ==
  FoldLeft(LAMBDA P, i : [P EXCEPT ![Window(b, i, m)] = @ + 1],
           [k \in 1 .. 2 ^ (m + 1) - 1 |-> 0], Upto(Len(b)))
Serial(b, m) == [l \in {m, m - 1, m - 2} \ {0, -1} |-> psi2(b, l)]

(* It gives up when m > log2(n) - 5, having counted as psi2 does. *)
ApproximateEntropyShort(b, m) == 2 ^ (m + 5) > Len(b)
ApproximateEntropy(b, m) == [l \in {m, m + 1} \ {0} |-> psi2(b, l)]

(* 2 / sqrt(n) is how far the ones may be from a half of the bits. *)
RunsUnbalanced(b) == (2 * Sum(b) - Len(b)) ^ 2 > 16 * Len(b)
Runs(b) == 1 + Count(LAMBDA i : b[i] # b[i - 1], [k \in 1 .. Len(b) - 1 |-> k + 1])

(* A run is counted when the next one begins, the last one never.  The lengths *)
(* that are expected five times are compared.                                  *)
RunsDistribution(b) ==
  LET n == Len(b)
      none == [j \in 1 .. n |-> 0]
      Turn(st, i) ==
        IF b[i] = st.flag THEN [st EXCEPT !.j = @ + 1]
        ELSE [st EXCEPT !.runs[st.flag] = [@ EXCEPT ![st.j] = @ + 1], !.flag = b[i], !.j = 1]
      st == FoldLeft(Turn, [flag |-> b[1], j |-> 1, runs |-> [v \in {0, 1} |-> none]],
                     [k \in 1 .. n - 1 |-> k + 1])
  IN  [gi |-> st.runs[0], bi |-> st.runs[1],
       k  |-> Count(LAMBDA i : n - i + 3 >= 5 * 2 ^ (i + 2), Upto(IF n < 24 THEN n ELSE 24))]

(* Block length, least class and number of classes less one. *)
LongestRunShort(n) == n < 128
LongestRunClasses(n) ==
  CASE n < 6272                 -> [M |-> 8, V0 |-> 1, K |-> 3]
    [] n \in 6272 .. 749999     -> [M |-> 128, V0 |-> 4, K |-> 5]
    [] n >= 750000              -> [M |-> 10000, V0 |-> 10, K |-> 6]
LongestRun(s) ==
  FoldLeft(LAMBDA st, x : LET run == IF x = 1 THEN st.run + 1 ELSE 0
                          IN  [run |-> run, best |-> IF run > st.best THEN run ELSE st.best],
           [run |-> 0, best |-> 0], s).best
LongestRunOfOnes(b, cl) ==
  LET InClass(s, j) == LET v == LongestRun(s)
                       IN  (v < cl.V0 /\ j = 0) \/ v = cl.V0 + j \/ (v > cl.V0 + cl.K /\ j = cl.K)
  IN  [j \in 0 .. cl.K |-> Count(LAMBDA s : InClass(s, j), Blocks(b, cl.M))]

(* One XOR of each bit with the next, in place, over the first len bits. *)
Derived(b, len) == [i \in DOMAIN b |-> IF i < len THEN Xor(b[i], b[i + 1]) ELSE b[i]]
BinaryDerivate(k, b, len) == FoldLeft(LAMBDA e, i : Derived(e, len), b, Upto(k))
DerivateSum(k, b, len) == Frequency(SubSeq(BinaryDerivate(k, b, len), 1, Len(b) - k))

(* The last pair of the n - d is not counted. *)
SelfCorrelation(d, b) == Sum([i \in 1 .. Len(b) - d - 1 |-> Xor(b[i], b[i + d])])

ExtremesBug(b) ==                          \* sup and inf one step late
  FoldLeft(LAMBDA st, x : [S   |-> st.S + 2 * x - 1,
                           sup |-> IF st.S > st.sup THEN st.sup + 1 ELSE st.sup,
                           inf |-> IF st.S < st.inf THEN st.inf - 1 ELSE st.inf],
           [S |-> 0, sup |-> 0, inf |-> 0], b)
Extremes(b) ==
  FoldLeft(LAMBDA st, x : LET S == st.S + 2 * x - 1
                          IN  [S   |-> S, sup |-> IF S > st.sup THEN st.sup + 1 ELSE st.sup,
                               inf |-> IF S < st.inf THEN st.inf - 1 ELSE st.inf],
           [S |-> 0, sup |-> 0, inf |-> 0], b)
CumulativeSums(b) ==
  LET e == Extremes(b)
      Larger(x, y) == IF x > y THEN x ELSE y
  IN  [z |-> Larger(e.sup, 0 - e.inf), zrev |-> Larger(e.sup - e.S, e.S - e.inf)]

-----------------------------------------------------------------------------
(* matrix.c: Q columns of bits in M rows. *)
def_matrix(M, Q, b, k) == [i \in 1 .. M |-> [j \in 1 .. Q |-> b[(k - 1) * M * Q + (i - 1) * Q + j]]]
Forward  == 1
Backward == -1
RowsAhead(flag, i, M) == IF flag = Forward THEN i + 1 .. M ELSE 1 .. i - 1

perform_elementary_row_operations(flag, i, A) ==
  [j \in DOMAIN A |->
    IF j \in RowsAhead(flag, i, Len(A)) /\ A[j][i] = 1
    THEN [k \in DOMAIN A[j] |-> IF flag = Forward /\ k < i THEN A[j][k] ELSE Xor(A[j][k], A[i][k])]
    ELSE A[j]]

SwappedBug(flag, i, A) == A                \* no row is looked for

(* The nearest row ahead with a one in the column, if there is one. *)
Swapped(flag, i, A) ==
  LET ones  == {j \in RowsAhead(flag, i, Len(A)) : A[j][i] = 1}
      index == CHOOSE j \in ones : \A l \in ones : flag * j <= flag * l
  IN  IF ones = {} THEN A ELSE [A EXCEPT ![i] = A[index], ![index] = A[i]]

(* Elimination from the i-th column on, if a one can be had there. *)
Eliminate(flag, i, A) ==
  LET B == IF A[i][i] = 1 THEN A ELSE Swapped(flag, i, A)
  IN  IF B[i][i] = 1 THEN perform_elementary_row_operations(flag, i, B) ELSE B
computeRank(A) ==
  LET m  == IF Len(A) < Len(A[1]) THEN Len(A) ELSE Len(A[1])
      F  == FoldLeft(LAMBDA B, i : Eliminate(Forward, i, B), A, Upto(m - 1))
      R  == FoldLeft(LAMBDA B, i : Eliminate(Backward, i, B), F, [k \in 1 .. m - 1 |-> m + 1 - k])
  IN  m - Count(LAMBDA row : \A k \in DOMAIN row : row[k] = 0, R)
RankShort(b, M) == Len(b) < M * M
Rank(b, M) ==
  LET ranks == [k \in 1 .. Len(b) \div (M * M) |-> computeRank(def_matrix(M, M, b, k))]
      full  == Count(LAMBDA r : r = M, ranks)
      less  == Count(LAMBDA r : r = M - 1, ranks)
  IN  <<full, less, Len(ranks) - (full + less)>>

-----------------------------------------------------------------------------
(* linearComplexity.c: Berlekamp and Massey on one block.  The arrays have M *)
(* places; outside tells whether one behind them was written.                *)
BMStart(M) == [L |-> 0, m |-> -1, outside |-> FALSE,
               C |-> [i \in 0 .. M - 1 |-> IF i = 0 THEN 1 ELSE 0],
               B |-> [i \in 0 .. M - 1 |-> IF i = 0 THEN 1 ELSE 0]]
BMShortBug(L, N) == L < N \div 2
BMShort(L, N) == L <= N \div 2
BMStep(s, st, N) ==
  LET d    == (s[N + 1] + Sum([i \in 1 .. st.L |-> st.C[i] * s[N + 1 - i]])) % 2
      ones == {j + N - st.m : j \in {i \in DOMAIN st.B : st.B[i] = 1}}
      C    == [i \in DOMAIN st.C |-> Xor(st.C[i], IF i \in ones THEN 1 ELSE 0)]
      t    == [st EXCEPT !.C = C, !.outside = @ \/ ~(ones \subseteq DOMAIN st.C)]
  IN  IF d = 0 THEN st
      ELSE IF BMShort(st.L, N) THEN [t EXCEPT !.L = N + 1 - st.L, !.m = N, !.B = st.C]
      ELSE t
BerlekampMassey(s) == FoldLeft(LAMBDA st, n : BMStep(s, st, n - 1), BMStart(Len(s)), Upto(Len(s)))

(* T is between two halves for every L; for blocks of even length the class *)
(* of L is how far it is from half of it.                                   *)
ComplexityClass(L, M) == LET c == L - M \div 2 + 3 IN IF c < 0 THEN 0 ELSE IF c > 6 THEN 6 ELSE c
LinearComplexity(b, M) ==
  [c \in 0 .. 6 |-> Count(LAMBDA s : ComplexityClass(BerlekampMassey(s).L, M) = c, Blocks(b, M))]

-----------------------------------------------------------------------------
(* universal.c: blocks of L bits, the first Q of them to fill the table; the *)
(* distances whose logarithms are added.                                     *)
UniversalShort(L) == L < 6
UniversalLength(n) ==
  CASE n < 387840 -> 5 [] n \in 387840 .. 904959 -> 6 [] n \in 904960 .. 2068479 -> 7
    [] n \in 2068480 .. 4654079 -> 8 [] n \in 4654080 .. 10342399 -> 9
    [] n \in 10342400 .. 22753279 -> 10 [] n \in 22753280 .. 49643519 -> 11
    [] n \in 49643520 .. 107560959 -> 12 [] n \in 107560960 .. 231669759 -> 13
    [] n \in 231669760 .. 496435199 -> 14 [] n \in 496435200 .. 1059061759 -> 15
    [] n >= 1059061760 -> 16
Universal(b, L, Q) ==
  LET blocks == Blocks(b, L)
      Turn(st, i) == LET dec == toByte(blocks[i])
                     IN  [T |-> [st.T EXCEPT ![dec] = i],
                          dist |-> IF i > Q THEN Append(st.dist, i - st.T[dec]) ELSE st.dist]
  IN  FoldLeft(Turn, [T |-> [d \in 0 .. 2 ^ L - 1 |-> 0], dist |-> <<>>], Upto(Len(blocks))).dist

(* The places of a block where a template stands.  The test for templates    *)
(* that do not overlap goes on with the next place behind a match, too.      *)
Matches(s, template) ==
  Count(LAMBDA j : SubSeq(s, j, j + Len(template) - 1) = template, Upto(Len(s) - Len(template) + 1))
NonOverlappingTemplateMatchings(b, template, N) ==
  [i \in 1 .. N |-> Matches(Blocks(b, Len(b) \div N)[i], template)]
OverlappingTemplateMatchings(b, m, M) ==
  [k \in 0 .. 5 |-> Count(LAMBDA s : LET w == Matches(s, [i \in 1 .. m |-> 1])
                                     IN  (IF w <= 4 THEN w ELSE 5) = k, Blocks(b, M))]

-----------------------------------------------------------------------------
(* randomExcursions.c: the walk, where it comes back to 0, how often it is at *)
(* each of the eight places near it between two returns.                      *)
Walk(b) == [i \in DOMAIN b |-> Frequency(SubSeq(b, 1, i))]
Cycles(b) ==          \* positions of the last bit of each cycle; cycle[J] = n
  LET S    == Walk(b)
      zero == SelectSeq(Upto(Len(b)), LAMBDA i : S[i] = 0)
  IN  IF Last(S) # 0 THEN Append(zero, Len(b)) ELSE zero
States == (-4 .. 4) \ {0}
Visits(b, x) ==       \* per cycle
  LET S    == Walk(b)
      ends == Cycles(b)
      from(j) == IF j = 1 THEN 1 ELSE ends[j - 1] + 1
  IN  [j \in DOMAIN ends |-> Count(LAMBDA i : S[i] = x, [k \in 1 .. ends[j] - from(j) + 1 |-> from(j) + k - 1])]

(* Too many returns for the array of cycles fail the test; the cycle that is *)
(* cut off at the end is put behind the others whether or not it has a place. *)
TooManyReturns(b, places) == Count(LAMBDA s : s = 0, Walk(b)) > places
WritesBeyond(b, places) == ~TooManyReturns(b, places) /\ Len(Cycles(b)) >= places
RandomExcursions(b) ==
  [x \in States |-> [k \in 0 .. 5 |-> Count(LAMBDA c : (IF c <= 4 THEN c ELSE 5) = k, Visits(b, x))]]
RandomExcursionsVariant(b) == [x \in (-9 .. 9) \ {0} |-> Count(LAMBDA s : s = x, Walk(b))]

-----------------------------------------------------------------------------
(* dfft.c, drfti1: the factors of n, 4 2 3 5 7 9 ... as often as they go, a 2 *)
(* put in front of what was found before it.                                  *)
Trial(j) == IF j < 4 THEN <<4, 2, 3, 5>>[j] ELSE 2 * j - 3
RECURSIVE Factors(_, _, _)
Factors(nl, j, fac) ==
  LET ntry == Trial(j)
  IN  IF nl % ntry # 0 THEN Factors(nl, j + 1, fac)
      ELSE LET more == IF ntry = 2 /\ fac # <<>> THEN <<2>> \o fac ELSE Append(fac, ntry)
           IN  IF nl \div ntry = 1 THEN more ELSE Factors(nl \div ntry, j, more)

(* Where the cosines and sines go: for each factor but the last, a row of ido *)
(* places for each of its multiples, filled by pairs.                          *)
drfti1(n) ==
  LET fac  == Factors(n, 1, <<>>)
      Row(is, ido) == [i \in 1 .. 2 * ((ido - 1) \div 2) |-> is + i - 1]
      Turn(st, k) ==
        LET l2  == st.l1 * fac[k]
            ido == n \div l2
        IN  [l1 |-> l2, is |-> st.is + (fac[k] - 1) * ido,
             wa |-> st.wa \o FlattenSeq([j \in 1 .. fac[k] - 1 |-> Row(st.is + (j - 1) * ido, ido)])]
  IN  [ifac |-> fac, wa |-> FoldLeft(Turn, [l1 |-> 1, is |-> 0, wa |-> <<>>], Upto(Len(fac) - 1)).wa]
=============================================================================
