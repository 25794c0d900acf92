------------------------------ MODULE MusicProofs -------------------------------
(***************************************************************************)
(* What a program computes with: every value of a variable is a number in  *)
(* lowest terms, music, or the end of the program, and arithmetic on such  *)
(* numbers, comparison, rounding, remainders and moves by semitones are    *)
(* right, for literals and integers of any size.  The lengths in a call go *)
(* to their chords, and what duration says of music agrees with play().    *)
(*                                                                         *)
(* The lemmas come before what they are for: division and greatest common  *)
(* divisors, simplification, sums and products, rounding, powers and       *)
(* literals, the extended algorithm of Euclid behind remainders, folds,    *)
(* and then what each operation with music gives.  Lengths of notes, which *)
(* are counted in parts of a whole, come last.                             *)
(***************************************************************************)
EXTENDS Music, FiniteSetTheorems, WellFoundedInduction, TLAPS

---------------------------------------------------------------------------
(* The least and the greatest number of a set.                             *)

\* A set of natural numbers that is not empty has a least element.
LEMMA Smallest ==
  ASSUME NEW S \in SUBSET Nat, S # {}
  PROVE  \E m \in S : \A n \in S : m <= n
<1> DEFINE R == OpToRel(<, Nat)
<1>1. IsWellFoundedOn(R, Nat)
  BY NatLessThanWellFounded
<1>2. \A x, y \in Nat : <<y, x>> \in R <=> y < x
  BY DEF OpToRel
<1> HIDE DEF R
<1>3. PICK m \in S : \A n \in S : ~(<<n, m>> \in R)
  BY <1>1, WFMin
<1>4. \A n \in S : m \in Nat /\ n \in Nat /\ ~(n < m)
  BY <1>2, <1>3
<1> QED
  BY <1>4

\* One that is bounded has a greatest element.
LEMMA Largest ==
  ASSUME NEW bound \in Nat, NEW S \in SUBSET (0 .. bound), S # {}
  PROVE  \E m \in S : \A n \in S : m >= n
<1> DEFINE T == {bound - n : n \in S}
<1>1. T \in SUBSET Nat /\ T # {}
  <2>1. \A n \in S : bound - n \in Nat
    OBVIOUS
  <2> QED
    BY <2>1
<1>2. PICK t \in T : \A u \in T : t <= u
  BY <1>1, Smallest
<1>3. PICK m \in S : t = bound - m
  BY <1>2
<1>4. \A n \in S : bound - m <= bound - n
  BY <1>2, <1>3
<1> QED
  BY <1>3, <1>4

---------------------------------------------------------------------------
(* Recursive functions.                                                    *)

(* What down leads to is less by m, until it stops.                         *)
Falls(D, m, down, Stop) ==
  /\ m \in [D -> Nat] /\ down \in [D -> D]
  /\ \A d \in D \ Stop : m[down[d]] < m[d]

Inherits(P, D, down, Stop) == \A d \in D : d \in Stop \/ down[d] \in P => d \in P

(* What holds of d when it holds of what comes below d holds of every d.    *)
LEMMA Descent ==
  ASSUME NEW D, NEW m, NEW down, NEW Stop, Falls(D, m, down, Stop),
         NEW P, Inherits(P, D, down, Stop)
  PROVE  D \subseteq P
<1> DEFINE Wrong == {n \in Nat : \E d \in D : m[d] = n /\ d \notin P}
<1>1. ASSUME Wrong # {}
      PROVE  FALSE
  <2>0. Wrong \in SUBSET Nat
    OBVIOUS
  <2>1. PICK n \in Wrong : \A k \in Wrong : n <= k
    <3> HIDE DEF Wrong
    <3> QED
      BY <1>1, <2>0, Smallest
  <2>2. PICK d \in D : m[d] = n /\ d \notin P
    BY <2>1
  <2>3. d \notin Stop /\ down[d] \in D /\ down[d] \notin P /\ m[down[d]] < n /\ m[down[d]] \in Nat
    BY <2>2 DEF Falls, Inherits
  <2>4. m[down[d]] \in Wrong
    BY <2>3
  <2>5. n \in Nat /\ n <= m[down[d]]
    <3>1. n \in Nat
      OBVIOUS
    <3> HIDE DEF Wrong
    <3> QED
      BY <2>1, <2>4, <3>1
  <2> QED
    BY <2>3, <2>5
<1> QED
  BY <1>1 DEF Falls

(* f is what base says where it stops, and what step makes of f below.      *)
Recurs(f, D, down, Stop, V, base, step) ==
  /\ f \in [D -> V]
  /\ \A d \in D : f[d] = IF d \in Stop THEN base[d] ELSE step[d][f[down[d]]]

(* A recursion whose calls come down to where it stops has a solution.      *)
LEMMA Recursion ==
  ASSUME NEW D, NEW m, NEW down, NEW Stop, Falls(D, m, down, Stop),
         NEW V, NEW base \in [D -> V], NEW step \in [D -> [V -> V]]
  PROVE  \E f : Recurs(f, D, down, Stop, V, base, step)
<1> DEFINE UpTo(n) == {d \in D : m[d] <= n}
           Unfolded(d, h) == IF d \in Stop THEN base[d] ELSE step[d][h[down[d]]]
           Solves(h, n) == h \in [UpTo(n) -> V] /\ \A d \in UpTo(n) : h[d] = Unfolded(d, h)
           Unsolved == {n \in Nat : ~\E h : Solves(h, n)}
<1>0. \A d \in D : /\ down[d] \in D /\ m[d] \in Nat /\ m[down[d]] \in Nat
                   /\ d \notin Stop => m[down[d]] < m[d]
  BY DEF Falls
<1>1. ASSUME NEW n \in Nat, NEW h, \A d \in UpTo(n) : d \notin Stop => h[down[d]] \in V
      PROVE  /\ [d \in UpTo(n) |-> Unfolded(d, h)] \in [UpTo(n) -> V]
  <2>1. ASSUME NEW d \in UpTo(n)
        PROVE  Unfolded(d, h) \in V
    BY <1>1
  <2> HIDE DEF Unfolded
  <2> QED
    BY <2>1
<1>2. ASSUME Unsolved # {}
      PROVE  FALSE
  <2>0. Unsolved \in SUBSET Nat
    OBVIOUS
  <2>1. PICK n \in Unsolved : \A k \in Unsolved : n <= k
    <3> HIDE DEF Unsolved
    <3> QED
      BY <1>2, <2>0, Smallest
  <2>2. n \in Nat /\ ~\E h : Solves(h, n)
    BY <2>1
  <2>3. \E h : \A d \in UpTo(n) : d \notin Stop => h[down[d]] \in V /\ h[down[d]] = Unfolded(down[d], h)
    <3>1. CASE n = 0
      <4>1. \A d \in UpTo(n) : d \in Stop
        BY <1>0, <3>1
      <4> QED
        BY <4>1
    <3>2. CASE n # 0
      <4>1. n - 1 \in Nat /\ ~(n <= n - 1)
        BY <2>2, <3>2
      <4>2. n - 1 \notin Unsolved
        <5> HIDE DEF Unsolved
        <5> QED
          BY <2>1, <4>1
      <4>3. PICK h : Solves(h, n - 1)
        BY <4>1, <4>2
      <4>4. ASSUME NEW d \in UpTo(n), d \notin Stop
            PROVE  h[down[d]] \in V /\ h[down[d]] = Unfolded(down[d], h)
        <5>1. down[d] \in UpTo(n - 1)
          BY <1>0, <2>2, <4>1, <4>4
        <5> HIDE DEF Unfolded, UpTo
        <5> QED
          BY <4>3, <5>1
      <4> QED
        BY <4>4
    <3> QED
      BY <3>1, <3>2
  <2>4. PICK h : \A d \in UpTo(n) : d \notin Stop => h[down[d]] \in V /\ h[down[d]] = Unfolded(down[d], h)
    BY <2>3
  <2> DEFINE g == [d \in UpTo(n) |-> Unfolded(d, h)]
  <2>5. g \in [UpTo(n) -> V]
    BY <1>1, <2>2, <2>4
  <2>6. ASSUME NEW d \in UpTo(n)
        PROVE  g[d] = Unfolded(d, g)
    <3>1. g[d] = Unfolded(d, h)
      OBVIOUS
    <3>2. CASE d \in Stop
      BY <3>1, <3>2
    <3>3. CASE d \notin Stop
      <4>1. down[d] \in UpTo(n)
        BY <1>0, <2>2, <3>3
      <4>2. g[down[d]] = Unfolded(down[d], h)
        BY <4>1
      <4>3. g[down[d]] = h[down[d]]
        BY <2>4, <3>3, <4>2
      <4> HIDE DEF g
      <4> QED
        BY <3>1, <3>3, <4>3
    <3> QED
      BY <3>2, <3>3
  <2>7. Solves(g, n)
    <3> HIDE DEF g, Unfolded
    <3> QED
      BY <2>5, <2>6
  <2> HIDE DEF Solves, g
  <2> QED
    BY <2>2, <2>7
<1> DEFINE H(n) == CHOOSE h : Solves(h, n)
<1>3. \A n \in Nat : Solves(H(n), n)
  <2>1. \A n \in Nat : \E h : Solves(h, n)
    BY <1>2
  <2> HIDE DEF Solves
  <2> QED
    BY <2>1
<1> HIDE DEF H
<1> DEFINE P == {d \in D : \A n, k \in Nat : m[d] <= n /\ m[d] <= k => H(n)[d] = H(k)[d]}
<1>4. ASSUME NEW d \in D, NEW n \in Nat, m[d] <= n
      PROVE  H(n)[d] = Unfolded(d, H(n)) /\ H(n)[d] \in V
  <2>1. d \in UpTo(n) /\ Solves(H(n), n)
    BY <1>3, <1>4
  <2> HIDE DEF UpTo, Unfolded
  <2> QED
    BY <2>1
<1>5. ASSUME NEW d \in D, d \in Stop \/ down[d] \in P
      PROVE  d \in P
  <2> SUFFICES ASSUME NEW n \in Nat, NEW k \in Nat, m[d] <= n, m[d] <= k
               PROVE  H(n)[d] = H(k)[d]
    OBVIOUS
  <2>1. H(n)[d] = Unfolded(d, H(n)) /\ H(k)[d] = Unfolded(d, H(k))
    BY <1>4
  <2>2. CASE d \in Stop
    BY <2>1, <2>2
  <2>3. CASE d \notin Stop
    <3>1. m[down[d]] <= n /\ m[down[d]] <= k
      BY <1>0, <2>3
    <3>2. H(n)[down[d]] = H(k)[down[d]]
      BY <1>5, <2>3, <3>1
    <3> QED
      BY <2>1, <2>3, <3>2
  <2> QED
    BY <2>2, <2>3
<1>6. \A d \in D : d \in P
  <2> HIDE DEF P
  <2>1. Inherits(P, D, down, Stop)
    BY <1>5 DEF Inherits
  <2>2. D \subseteq P
    BY <2>1, Descent, Zenon
  <2> QED
    BY <2>2
<1> DEFINE f == [d \in D |-> H(m[d])[d]]
<1>7. ASSUME NEW d \in D
      PROVE  f[d] = Unfolded(d, f) /\ f[d] \in V
  <2>1. m[d] \in Nat /\ m[d] <= m[d]
    BY <1>0
  <2>2. f[d] = Unfolded(d, H(m[d])) /\ f[d] \in V
    <3> HIDE DEF Unfolded
    <3> QED
      BY <1>4, <2>1
  <2>3. CASE d \in Stop
    BY <2>2, <2>3
  <2>4. CASE d \notin Stop
    <3>1. down[d] \in D /\ m[down[d]] \in Nat /\ m[down[d]] <= m[d] /\ m[down[d]] <= m[down[d]]
      BY <1>0, <2>4
    <3>2. H(m[d])[down[d]] = H(m[down[d]])[down[d]]
      BY <1>6, <2>1, <3>1
    <3>3. f[down[d]] = H(m[d])[down[d]]
      BY <3>1, <3>2
    <3> HIDE DEF f
    <3> QED
      BY <2>2, <2>4, <3>3
  <2> QED
    BY <2>2, <2>3, <2>4
<1>8. f \in [D -> V]
  BY <1>7
<1> HIDE DEF f
<1> QED
  BY <1>7, <1>8 DEF Recurs

---------------------------------------------------------------------------

Positive == Nat \ {0}
NotZero == Int \ {0}

---------------------------------------------------------------------------
(* Integers of C++.                                                        *)

LEMMA DivisionIs ==
  ASSUME NEW a \in Int, NEW b \in Positive, NEW q \in Int, NEW r \in Int, 0 <= r, r < b, a = b * q + r
  PROVE  a \div b = q /\ a % b = r
BY DEF Positive

LEMMA Division ==
  ASSUME NEW a \in Int, NEW b \in Positive
  PROVE  /\ a \div b \in Int /\ a % b \in Nat /\ a % b < b
         /\ a = b * (a \div b) + (a % b)
         /\ a >= 0 => a \div b >= 0
BY DEF Positive

LEMMA Cancel ==
  ASSUME NEW a \in Int, NEW b \in Int, NEW c \in NotZero, a * c = b * c
  PROVE  a = b
BY DEF NotZero

LEMMA NoZeroProduct ==
  ASSUME NEW a \in NotZero, NEW b \in NotZero
  PROVE  a * b \in NotZero
BY DEF NotZero

LEMMA AbsFacts ==
  ASSUME NEW a \in Int
  PROVE  /\ Abs(a) \in Nat /\ (a # 0 => Abs(a) \in Positive)
         /\ Sign(a) \in {-1, 1} /\ a = Sign(a) * Abs(a) /\ Abs(a) = Sign(a) * a
BY DEF Abs, Sign, Positive

LEMMA AbsOfProduct ==
  ASSUME NEW a \in Int, NEW b \in Int
  PROVE  Abs(a * b) = Abs(a) * Abs(b)
<1>1. a >= 0 /\ b >= 0 => a * b >= 0
  OBVIOUS
<1>2. a >= 0 /\ b <= 0 => a * b <= 0
  OBVIOUS
<1>3. a <= 0 /\ b >= 0 => a * b <= 0
  OBVIOUS
<1>4. a <= 0 /\ b <= 0 => a * b >= 0
  OBVIOUS
<1> QED
  BY <1>1, <1>2, <1>3, <1>4 DEF Abs

(* Division rounds towards zero, and the remainder has the sign of a.      *)
LEMMA QuotRem ==
  ASSUME NEW a \in Int, NEW b \in NotZero
  PROVE  /\ Quot(a, b) \in Int /\ Rem(a, b) \in Int
         /\ a = b * Quot(a, b) + Rem(a, b)
         /\ Abs(Rem(a, b)) < Abs(b)
         /\ a >= 0 => Rem(a, b) >= 0
         /\ a <= 0 => Rem(a, b) <= 0
<1> DEFINE q == Abs(a) \div Abs(b)
           r == Abs(a) % Abs(b)
<1>1. Abs(a) \in Nat /\ Abs(b) \in Positive /\ Sign(a) \in {-1, 1} /\ Sign(b) \in {-1, 1}
  BY AbsFacts DEF NotZero
<1>2. q \in Int /\ r \in Int /\ 0 <= r /\ r < Abs(b) /\ Abs(a) = Abs(b) * q + r
  BY <1>1, Division
<1> HIDE DEF q, r
<1>3. Quot(a, b) = Sign(a) * Sign(b) * q
  BY DEF Quot, q
<1>4. b * (Sign(b) * q) = Abs(b) * q
  <2>1. b * Sign(b) = Abs(b)
    BY AbsFacts DEF NotZero
  <2> QED
    BY <1>1, <1>2, <2>1 DEF NotZero
<1>5. Quot(a, b) \in Int /\ b * Quot(a, b) = Sign(a) * (Abs(b) * q)
  <2>1. Sign(a) = 1 => Quot(a, b) = Sign(b) * q
    BY <1>1, <1>2, <1>3
  <2>2. Sign(a) = -1 => Quot(a, b) = -(Sign(b) * q)
    BY <1>1, <1>2, <1>3
  <2>3. Sign(b) * q \in Int /\ Abs(b) * q \in Int
    BY <1>1, <1>2 DEF Positive
  <2> QED
    BY <1>1, <1>4, <2>1, <2>2, <2>3 DEF NotZero
<1>6. a = Sign(a) * (Abs(b) * q) + Sign(a) * r
  <2>1. a = Sign(a) * Abs(a)
    BY AbsFacts
  <2>2. Abs(b) * q \in Int
    BY <1>1, <1>2 DEF Positive
  <2> QED
    BY <1>1, <1>2, <2>1, <2>2
<1>7. Rem(a, b) = Sign(a) * r
  <2>1. Abs(b) * q \in Int
    BY <1>1, <1>2 DEF Positive
  <2> QED
    BY <1>1, <1>2, <1>5, <1>6, <2>1 DEF Rem
<1>8. Rem(a, b) \in Int /\ a = b * Quot(a, b) + Rem(a, b)
  BY <1>1, <1>2, <1>5, <1>6, <1>7
<1>9. Abs(Rem(a, b)) < Abs(b)
  <2>1. Abs(Rem(a, b)) = r
    BY <1>1, <1>2, <1>7 DEF Abs
  <2> QED
    BY <1>2, <2>1
<1>10. (a >= 0 => Rem(a, b) >= 0) /\ (a <= 0 => Rem(a, b) <= 0)
  <2>1. CASE a < 0
    BY <1>2, <1>7, <2>1 DEF Sign
  <2>2. CASE a > 0
    BY <1>2, <1>7, <2>2 DEF Sign
  <2>3. CASE a = 0
    <3>1. Abs(b) * q >= 0 /\ Abs(b) * q \in Int
      <4>1. q >= 0
        BY <1>1, Division DEF q
      <4> QED
        BY <1>1, <1>2, <4>1 DEF Positive
    <3>2. r = 0
      BY <1>2, <2>3, <3>1 DEF Abs
    <3> QED
      BY <1>1, <1>7, <3>2
  <2> QED
    BY <2>1, <2>2, <2>3
<1> QED
  BY <1>5, <1>8, <1>9, <1>10

LEMMA ExactQuot ==
  ASSUME NEW a \in Int, NEW b \in NotZero, NEW k \in Int, a = b * k
  PROVE  Quot(a, b) = k
<1>1. /\ Quot(a, b) \in Int /\ Rem(a, b) \in Int
      /\ a = b * Quot(a, b) + Rem(a, b)
      /\ Abs(Rem(a, b)) < Abs(b)
  BY QuotRem
<1> DEFINE e == k - Quot(a, b)
<1>2. e \in Int /\ b * e = Rem(a, b)
  <2>1. \A q \in Int : b * (k - q) = b * k - b * q
    BY DEF NotZero
  <2>2. b * e = b * k - b * Quot(a, b)
    BY <1>1, <2>1
  <2>3. b * k \in Int /\ b * Quot(a, b) \in Int
    BY <1>1 DEF NotZero
  <2> QED
    BY <1>1, <2>2, <2>3
<1> HIDE DEF e
<1>3. Abs(Rem(a, b)) = Abs(b) * Abs(e)
  BY <1>2, AbsOfProduct DEF NotZero
<1>4. Abs(b) \in Positive /\ Abs(e) \in Nat
  BY <1>2, AbsFacts DEF NotZero
<1>5. Abs(e) = 0
  <2>1. Abs(e) >= 1 => Abs(b) * Abs(e) >= Abs(b)
    BY <1>4 DEF Positive
  <2>2. Abs(b) * Abs(e) < Abs(b)
    BY <1>1, <1>3
  <2> QED
    BY <1>4, <2>1, <2>2 DEF Positive
<1>6. e = 0
  BY <1>2, <1>5 DEF Abs
<1> QED
  BY <1>1, <1>6 DEF e

(* d divides n: n is d times something.                                    *)
LEMMA DividesIs ==
  ASSUME NEW d \in Positive, NEW n \in Int
  PROVE  Divides(d, n) <=> \E k \in Int : n = d * k
<1>1. ASSUME Divides(d, n)
      PROVE  \E k \in Int : n = d * k
  <2> DEFINE q == Abs(n) \div d
  <2>1. q \in Int /\ Abs(n) = d * q
    <3>1. Abs(n) \in Int /\ Abs(n) % d = 0
      BY <1>1, AbsFacts DEF Divides
    <3>2. q \in Int /\ Abs(n) = d * q + (Abs(n) % d)
      BY <3>1, Division
    <3> QED
      BY <3>1, <3>2 DEF Positive
  <2> HIDE DEF q
  <2>2. n = d * q \/ n = d * (-q)
    BY <2>1 DEF Abs, Positive
  <2> QED
    BY <2>1, <2>2
<1>2. ASSUME NEW k \in Int, n = d * k
      PROVE  Divides(d, n)
  <2>1. Abs(n) = d * Abs(k)
    <3>1. Abs(d) = d
      BY DEF Abs, Positive
    <3> QED
      BY <1>2, <3>1, AbsOfProduct DEF Positive
  <2>2. Abs(n) % d = 0
    <3>1. Abs(n) = d * Abs(k) + 0 /\ Abs(n) \in Int /\ Abs(k) \in Int
      BY <2>1, AbsFacts DEF Positive
    <3> QED
      BY <3>1, DivisionIs DEF Positive
  <2> QED
    BY <2>2 DEF Divides
<1> QED
  BY <1>1, <1>2

---------------------------------------------------------------------------
(* Divisors.                                                               *)

LEMMA DivisorIsLess ==
  ASSUME NEW d \in Positive, NEW n \in NotZero, Divides(d, n)
  PROVE  d <= Abs(n)
<1>1. PICK k \in Int : n = d * k
  BY DividesIs DEF NotZero
<1>2. Abs(n) = d * Abs(k)
  BY <1>1, AbsOfProduct DEF Abs, Positive
<1>3. k # 0
  BY <1>1 DEF NotZero, Positive
<1>4. Abs(k) \in Nat /\ Abs(k) >= 1
  BY <1>3, AbsFacts DEF Positive
<1>5. d * Abs(k) >= d
  BY <1>4 DEF Positive
<1> QED
  BY <1>2, <1>5

LEMMA OneDivides ==
  ASSUME NEW n \in Int
  PROVE  Divides(1, n)
<1>1. n = 1 * n /\ 1 \in Positive
  BY DEF Positive
<1> QED
  BY <1>1, DividesIs

(* The greatest common divisor is one, and the greatest.                   *)
LEMMA GCDIs ==
  ASSUME NEW a \in Int, NEW b \in NotZero
  PROVE  /\ GCD(a, b) \in Positive
         /\ Divides(GCD(a, b), a) /\ Divides(GCD(a, b), b)
         /\ \A e \in Positive : Divides(e, a) /\ Divides(e, b) => e <= GCD(a, b)
<1>0. Abs(b) \in Positive
  BY AbsFacts DEF NotZero
<1>1. CASE a = 0
  <2>1. GCD(a, b) = Abs(b)
    BY <1>0, <1>1 DEF GCD, Abs, Positive
  <2>2. Divides(Abs(b), 0)
    <3>1. 0 = Abs(b) * 0
      BY <1>0 DEF Positive
    <3> QED
      BY <1>0, <3>1, DividesIs
  <2>3. Divides(Abs(b), b)
    <3>1. b = Abs(b) * Sign(b) /\ Sign(b) \in Int
      BY AbsFacts DEF NotZero
    <3> QED
      BY <1>0, <3>1, DividesIs DEF NotZero
  <2>4. \A e \in Positive : Divides(e, b) => e <= Abs(b)
    BY DivisorIsLess
  <2> QED
    BY <1>0, <1>1, <2>1, <2>2, <2>3, <2>4
<1>2. CASE a # 0
  <2> DEFINE C == {d \in 1 .. Abs(b) : Divides(d, a) /\ Divides(d, b)}
             Best(d) == /\ Divides(d, a) /\ Divides(d, b)
                        /\ \A e \in d + 1 .. Abs(b) : ~(Divides(e, a) /\ Divides(e, b))
  <2>1. C \in SUBSET (0 .. Abs(b)) /\ C # {} /\ Abs(b) \in Nat
    <3>1. 1 \in C
      BY <1>0, OneDivides DEF Positive, NotZero
    <3> QED
      BY <1>0, <3>1 DEF Positive
  <2>2. PICK m \in C : \A n \in C : m >= n
    <3> HIDE DEF C
    <3> QED
      BY <2>1, Largest
  <2>3. \E d \in 1 .. Abs(b) : Best(d)
    <3>1. ASSUME NEW e \in m + 1 .. Abs(b), Divides(e, a), Divides(e, b)
          PROVE  FALSE
      <4>1. e \in C /\ m \in Int /\ e \in Int /\ e >= m + 1
        BY <1>0, <3>1 DEF Positive
      <4>2. m >= e
        BY <2>2, <4>1
      <4> QED
        BY <4>1, <4>2
    <3> QED
      BY <2>2, <3>1
  <2>4. GCD(a, b) = CHOOSE d \in 1 .. Abs(b) : Best(d)
    <3>1. b # 0
      BY DEF NotZero
    <3> QED
      BY <1>2, <3>1, Zenon DEF GCD
  <2>5. GCD(a, b) \in 1 .. Abs(b) /\ Best(GCD(a, b))
    <3> HIDE DEF Best
    <3> QED
      BY <2>3, <2>4, Zenon
  <2>6. ASSUME NEW e \in Positive, Divides(e, a), Divides(e, b)
        PROVE  e <= GCD(a, b)
    <3>1. e <= Abs(b)
      BY <2>6, DivisorIsLess
    <3>2. e \notin GCD(a, b) + 1 .. Abs(b)
      BY <2>5, <2>6
    <3> QED
      BY <1>0, <2>5, <3>1, <3>2 DEF Positive
  <2> QED
    BY <1>0, <2>5, <2>6 DEF Positive
<1> QED
  BY <1>1, <1>2

LEMMA GCDOfNothing == GCD(0, 0) = 0
BY DEF GCD, Abs

(* What is a / b reduced to?  Some k / l with a / b = k / l, both the same    *)
(* part of a and of b.                                                     *)
LEMMA Reduced ==
  ASSUME NEW a \in Int, NEW b \in NotZero
  PROVE  \E k \in Int, l \in NotZero :
           /\ a = GCD(a, b) * k /\ b = GCD(a, b) * l
           /\ Quot(a, GCD(a, b)) = k /\ Quot(b, GCD(a, b)) = l
<1> DEFINE g == GCD(a, b)
<1>1. g \in Positive /\ Divides(g, a) /\ Divides(g, b)
  BY GCDIs
<1> HIDE DEF g
<1>2. PICK k \in Int : a = g * k
  BY <1>1, DividesIs
<1>3. PICK l \in Int : b = g * l
  BY <1>1, DividesIs DEF NotZero
<1>4. l # 0
  BY <1>1, <1>3 DEF NotZero, Positive
<1>5. g \in NotZero
  BY <1>1 DEF NotZero, Positive
<1>6. Quot(a, g) = k /\ Quot(b, g) = l
  BY <1>2, <1>3, <1>5, ExactQuot DEF NotZero
<1> QED
  BY <1>2, <1>3, <1>4, <1>6 DEF g, NotZero

(* The least common multiple is a multiple of both.                        *)
LEMMA LCMIs ==
  ASSUME NEW a \in NotZero, NEW b \in NotZero
  PROVE  /\ LCM(a, b) \in Positive
         /\ \E k \in Int : LCM(a, b) = a * k
         /\ \E l \in Int : LCM(a, b) = b * l
<1>0. a \in Int
  BY DEF NotZero
<1>1. PICK k \in Int, l \in NotZero :
           /\ a = GCD(a, b) * k /\ b = GCD(a, b) * l
           /\ Quot(a, GCD(a, b)) = k /\ Quot(b, GCD(a, b)) = l
  BY <1>0, Reduced
<1> DEFINE g == GCD(a, b)
<1>2. g \in Positive /\ a = g * k /\ b = g * l
  BY <1>1, GCDIs DEF NotZero
<1>3. LCM(a, b) = Abs(a) * (Abs(b) \div g)
  BY DEF LCM, NotZero
<1> HIDE DEF g
<1>4. Abs(g) = g /\ g \in Int
  BY <1>2 DEF Abs, Positive
<1>5. Abs(a) = g * Abs(k) /\ Abs(b) = g * Abs(l)
  BY <1>2, <1>4, AbsOfProduct DEF NotZero
<1>6. Abs(k) \in Int /\ Abs(l) \in Positive /\ Abs(a) \in Positive
  BY AbsFacts DEF NotZero
<1>7. Abs(b) \div g = Abs(l)
  <2>1. Abs(b) = g * Abs(l) + 0 /\ Abs(b) \in Int /\ Abs(l) \in Int
    BY <1>2, <1>5, <1>6 DEF Positive
  <2> QED
    BY <1>2, <2>1, DivisionIs DEF Positive
<1>8. LCM(a, b) = Abs(a) * Abs(l)
  BY <1>3, <1>7
<1>9. LCM(a, b) \in Positive
  BY <1>6, <1>8 DEF Positive
<1>10. LCM(a, b) = a * (Sign(a) * Abs(l)) /\ Sign(a) * Abs(l) \in Int
  <2>1. Sign(a) \in {-1, 1} /\ Abs(a) = Sign(a) * a /\ a \in Int
    BY AbsFacts DEF NotZero
  <2> QED
    BY <1>6, <1>8, <2>1 DEF Positive
<1>11. LCM(a, b) = Abs(b) * Abs(k)
  BY <1>2, <1>4, <1>5, <1>6, <1>8 DEF Positive
<1>12. LCM(a, b) = b * (Sign(b) * Abs(k)) /\ Sign(b) * Abs(k) \in Int
  <2>1. Sign(b) \in {-1, 1} /\ Abs(b) = Sign(b) * b /\ b \in Int
    BY AbsFacts DEF NotZero
  <2> QED
    BY <1>6, <1>11, <2>1 DEF Positive
<1> QED
  BY <1>9, <1>10, <1>12

---------------------------------------------------------------------------
(* Fractions.                                                              *)

(* As a Value holds them.                                                  *)
Proper == [num : Int, den : Positive]

LEMMA ProperIs ==
  ASSUME NEW n \in Int, NEW d \in Positive
  PROVE  Number(n, d) \in Proper
BY DEF Number, Proper

LEMMA NumberIs ==
  ASSUME NEW n, NEW d
  PROVE  Number(n, d).num = n /\ Number(n, d).den = d
BY DEF Number

(* A fraction keeps its worth when it is simplified.                       *)
LEMMA Simplified ==
  ASSUME NEW n \in Int, NEW d \in NotZero
  PROVE  /\ Simplify(Number(n, d)) \in Proper
         /\ Simplify(Number(n, d)).num * d = Simplify(Number(n, d)).den * n
<1>1. PICK k \in Int, l \in NotZero :
           /\ n = GCD(n, d) * k /\ d = GCD(n, d) * l
           /\ Quot(n, GCD(n, d)) = k /\ Quot(d, GCD(n, d)) = l
  BY Reduced
<1> DEFINE g == GCD(n, d)
<1>2. g \in Positive
  BY GCDIs
<1>3. Simplify(Number(n, d)) = Number(Sign(d) * k, Sign(d) * l)
  BY <1>1, <1>2, NumberIs DEF Simplify, Positive
<1>4. n = g * k /\ d = g * l
  BY <1>1
<1> HIDE DEF g
<1>5. Sign(d) = Sign(l)
  <2>1. l < 0 => g * l < 0
    BY <1>2 DEF Positive, NotZero
  <2>2. l > 0 => g * l > 0
    BY <1>2 DEF Positive, NotZero
  <2> QED
    BY <1>4, <2>1, <2>2 DEF Sign, NotZero
<1>6. Sign(d) * k \in Int /\ Sign(d) * l \in Positive
  BY <1>5 DEF Sign, Positive, NotZero
<1>7. (Sign(d) * k) * (g * l) = (Sign(d) * l) * (g * k)
  <2>1. Sign(d) \in Int /\ g \in Int /\ l \in Int
    BY <1>2 DEF Sign, Positive, NotZero
  <2> QED
    BY <2>1
<1> QED
  BY <1>3, <1>4, <1>6, <1>7, NumberIs, ProperIs

LEMMA FractionIs ==
  /\ \A x \in Fraction : x.num \in Int /\ x.den \in NotZero
  /\ \A x \in Proper : x.num \in Int /\ x.den \in Positive /\ x \in Fraction
BY DEF Fraction, Proper, NotZero, Positive

(* A fraction in proportion to what is simplified is worth the result.      *)
LEMMA SimplifiedIs ==
  ASSUME NEW n \in Int, NEW d \in NotZero, NEW m \in Int, NEW e \in Int, n * e = d * m
  PROVE  Same(Simplify(Number(n, d)), m, e)
<1> DEFINE s == Simplify(Number(n, d))
<1>1. s \in Proper /\ s.num * d = s.den * n
  BY Simplified
<1> HIDE DEF s
<1>2. s.num \in Int /\ s.den \in Int /\ s.den # 0
  BY <1>1 DEF Proper, Positive
<1>3. s.num * e = s.den * m
  <2>1. PICK p, q : p = s.num /\ q = s.den
    OBVIOUS
  <2>2. p \in Int /\ q \in Int /\ p * d = q * n
    BY <1>1, <1>2, <2>1
  <2>3. p * e = q * m
    <3>0. d \in Int
      BY DEF NotZero
    <3>1. (p * e) * d = (p * d) * e
      BY <2>2, <3>0
    <3>2. (q * n) * e = q * (n * e)
      BY <2>2
    <3>3. q * (d * m) = (q * m) * d
      BY <2>2, <3>0
    <3>4. (p * e) * d = (q * m) * d
      BY <2>2, <3>1, <3>2, <3>3
    <3>5. p * e \in Int /\ q * m \in Int
      BY <2>2
    <3> QED
      BY <3>4, <3>5, Cancel
  <2> QED
    BY <2>1, <2>3
<1>4. Same(s, m, e)
  BY <1>2, <1>3 DEF Same
<1> QED
  BY <1>4 DEF s

---------------------------------------------------------------------------
(* Arithmetic.                                                             *)

LEMMA IntIs ==
  ASSUME NEW n \in Nat
  PROVE  ToInt(n) \in Int /\ (n < IntRange \div 2 => ToInt(n) = n)
<1> DEFINE half == IntRange \div 2
<1>1. IntRange \in Positive /\ half \in Int /\ IntRange = 2 * half
  BY NumbersAssumption, Division DEF Positive
<1>2. ToInt(n) = ((n + half) % IntRange) - half
  BY DEF ToInt
<1> HIDE DEF half
<1>3. (n + half) % IntRange \in Int
  BY <1>1, Division DEF Positive
<1>4. n < half => (n + half) % IntRange = n + half
  <2>1. n + half = IntRange * 0 + (n + half)
    BY <1>1 DEF Positive
  <2>2. n < half => 0 <= n + half /\ n + half < IntRange
    BY <1>1 DEF Positive
  <2> QED
    BY <1>1, <2>1, <2>2, DivisionIs
<1> QED
  BY <1>1, <1>2, <1>3, <1>4 DEF half

LEMMA CommonIs ==
  ASSUME NEW x \in Fraction, NEW y \in Fraction
  PROVE  /\ Common(x, y) \in Int
         /\ Fits(x, y) => /\ Common(x, y) \in NotZero
                          /\ \E k \in Int : Common(x, y) = x.den * k
                          /\ \E l \in Int : Common(x, y) = y.den * l
<1> DEFINE m == LCM(x.den, y.den)
<1>1. /\ m \in Positive
      /\ \E k \in Int : m = x.den * k
      /\ \E l \in Int : m = y.den * l
  BY FractionIs, LCMIs
<1>2. Common(x, y) = ToInt(m)
  BY DEF Common
<1>3. Fits(x, y) => m < IntRange \div 2
  BY DEF Fits
<1> HIDE DEF m
<1>4. ToInt(m) \in Int /\ (Fits(x, y) => ToInt(m) = m)
  BY <1>1, <1>3, IntIs DEF Positive
<1> QED
  BY <1>1, <1>2, <1>4 DEF Positive, NotZero

LEMMA QuotOfNothing ==
  ASSUME NEW b \in NotZero
  PROVE  Quot(0, b) = 0
BY ExactQuot DEF NotZero

(* Whatever becomes of the common denominator.                             *)
LEMMA Scaled ==
  ASSUME NEW n \in Int, NEW c \in Int, c = 0 => n = 0
  PROVE  Simplify(Number(n, c)) \in Proper \cup {Crashed}
<1>1. CASE c = 0
  BY <1>1, GCDOfNothing, NumberIs DEF Simplify
<1>2. CASE c # 0
  BY <1>2, Simplified DEF NotZero
<1> QED
  BY <1>1, <1>2

LEMMA SumIsNumber ==
  ASSUME NEW x \in Fraction, NEW y \in Fraction
  PROVE  Plus(x, y) \in Proper \cup {Crashed} /\ Minus(x, y) \in Proper \cup {Crashed}
<1> DEFINE c == Common(x, y)
           p == x.num * Quot(c, x.den)
           q == y.num * Quot(c, y.den)
<1>1. c \in Int /\ x.num \in Int /\ y.num \in Int /\ x.den \in NotZero /\ y.den \in NotZero
  BY CommonIs, FractionIs
<1>2. Plus(x, y) = Simplify(Number(p + q, c)) /\ Minus(x, y) = Simplify(Number(p - q, c))
  BY DEF Plus, Minus
<1> HIDE DEF c
<1>3. Quot(c, x.den) \in Int /\ Quot(c, y.den) \in Int
  BY <1>1, QuotRem
<1>4. p \in Int /\ q \in Int
  BY <1>1, <1>3
<1>5. c = 0 => p = 0 /\ q = 0
  BY <1>1, QuotOfNothing
<1> HIDE DEF p, q
<1>6. p + q \in Int /\ p - q \in Int /\ (c = 0 => p + q = 0 /\ p - q = 0)
  BY <1>4, <1>5
<1> QED
  BY <1>1, <1>2, <1>6, Scaled

LEMMA SumIsExact ==
  ASSUME NEW x \in Fraction, NEW y \in Fraction, Fits(x, y)
  PROVE  /\ Same(Plus(x, y), x.num * y.den + y.num * x.den, x.den * y.den)
         /\ Same(Minus(x, y), x.num * y.den - y.num * x.den, x.den * y.den)
<1>0. PICK a, b, m, n : a = x.num /\ b = x.den /\ m = y.num /\ n = y.den
  OBVIOUS
<1>1. a \in Int /\ b \in NotZero /\ m \in Int /\ n \in NotZero
  BY <1>0, FractionIs
<1>2. PICK c : c = Common(x, y)
  OBVIOUS
<1>3. c \in NotZero /\ (\E k \in Int : c = b * k) /\ (\E l \in Int : c = n * l)
  BY <1>0, <1>2, CommonIs
<1>4. PICK k \in Int : c = b * k
  BY <1>3
<1>5. PICK l \in Int : c = n * l
  BY <1>3
<1>6. Quot(c, b) = k /\ Quot(c, n) = l /\ c \in Int
  BY <1>1, <1>3, <1>4, <1>5, ExactQuot DEF NotZero
<1>7. Plus(x, y) = Simplify(Number(a * k + m * l, c)) /\ Minus(x, y) = Simplify(Number(a * k - m * l, c))
  BY <1>0, <1>2, <1>6 DEF Plus, Minus
<1>8. b \in Int /\ n \in Int
  BY <1>1 DEF NotZero
<1>9. (a * k) * (b * n) = c * (a * n) /\ (m * l) * (b * n) = c * (m * b)
  <2>1. (a * k) * (b * n) = (b * k) * (a * n)
    BY <1>1, <1>8
  <2>2. (m * l) * (b * n) = (n * l) * (m * b)
    BY <1>1, <1>8
  <2> QED
    BY <1>4, <1>5, <2>1, <2>2
<1>10. PICK p, q, u, v, d : p = a * k /\ q = m * l /\ u = a * n /\ v = m * b /\ d = b * n
  OBVIOUS
<1>11. p \in Int /\ q \in Int /\ u \in Int /\ v \in Int /\ d \in Int
  BY <1>1, <1>8, <1>10
<1>12. p * d = c * u /\ q * d = c * v
  BY <1>9, <1>10
<1>13. (p + q) * d = c * (u + v) /\ (p - q) * d = c * (u - v)
  <2>1. (p + q) * d = p * d + q * d /\ (p - q) * d = p * d - q * d
    BY <1>11
  <2>2. c * (u + v) = c * u + c * v /\ c * (u - v) = c * u - c * v
    BY <1>6, <1>11
  <2> QED
    BY <1>12, <2>1, <2>2
<1>14. Same(Simplify(Number(p + q, c)), u + v, d) /\ Same(Simplify(Number(p - q, c)), u - v, d)
  <2>1. p + q \in Int /\ p - q \in Int /\ u + v \in Int /\ u - v \in Int
    BY <1>11
  <2> QED
    BY <1>3, <1>11, <1>13, <2>1, SimplifiedIs
<1> QED
  BY <1>0, <1>7, <1>10, <1>14

LEMMA ProductIsExact ==
  ASSUME NEW x \in Fraction, NEW y \in Fraction
  PROVE  /\ Times(x, y) \in Proper
         /\ Same(Times(x, y), x.num * y.num, x.den * y.den)
<1>1. x.num * y.num \in Int /\ x.den * y.den \in NotZero
  BY FractionIs, NoZeroProduct DEF NotZero
<1>2. PICK n, d : n = x.num * y.num /\ d = x.den * y.den
  OBVIOUS
<1>3. n \in Int /\ d \in NotZero /\ d \in Int /\ n * d = d * n
  BY <1>1, <1>2 DEF NotZero
<1>4. Simplify(Number(n, d)) \in Proper /\ Same(Simplify(Number(n, d)), n, d)
  BY <1>3, Simplified, SimplifiedIs
<1> QED
  BY <1>2, <1>4 DEF Times

LEMMA QuotientIsExact ==
  ASSUME NEW x \in Fraction, NEW y \in Fraction
  PROVE  /\ y.num = 0 => Over(x, y) = Error
         /\ y.num # 0 => /\ Over(x, y) \in Proper
                         /\ Same(Over(x, y), x.num * y.den, x.den * y.num)
<1>1. CASE y.num = 0
  BY <1>1 DEF Over
<1>2. CASE y.num # 0
  <2>1. x.num * y.den \in Int /\ x.den * y.num \in NotZero
    <3>1. x.num \in Int /\ y.den \in Int /\ x.den \in NotZero /\ y.num \in NotZero
      BY <1>2, FractionIs DEF NotZero
    <3> QED
      BY <3>1, NoZeroProduct
  <2>2. PICK n, d : n = x.num * y.den /\ d = x.den * y.num
    OBVIOUS
  <2>3. n \in Int /\ d \in NotZero /\ d \in Int /\ n * d = d * n
    BY <2>1, <2>2 DEF NotZero
  <2>4. Simplify(Number(n, d)) \in Proper /\ Same(Simplify(Number(n, d)), n, d)
    BY <2>3, Simplified, SimplifiedIs
  <2> QED
    BY <1>2, <2>2, <2>4 DEF Over
<1> QED
  BY <1>1, <1>2

(* Numbers are told apart by what they are worth if denominators are        *)
(* positive.                                                               *)
LEMMA ComparisonIsExact ==
  ASSUME NEW x \in Proper, NEW y \in Proper
  PROVE  /\ Less(x, y) <=> (x.num * y.den - y.num * x.den) * Sign(x.den * y.den) < 0
         /\ Equal(x, y) <=> Same(x, y.num, y.den)
<1>0. PICK a, b, m, n : a = x.num /\ b = x.den /\ m = y.num /\ n = y.den
  OBVIOUS
<1>1. a \in Int /\ b \in Positive /\ m \in Int /\ n \in Positive
  BY <1>0, FractionIs
<1>2. Sign(b * n) = 1
  BY <1>1 DEF Sign, Positive
<1>3. m * b = b * m /\ a * n \in Int /\ m * b \in Int
  BY <1>1 DEF Positive
<1>4. Less(x, y) <=> a * n - b * m < 0
  BY <1>0 DEF Less
<1>5. Equal(x, y) <=> a * n - b * m = 0
  BY <1>0 DEF Equal
<1>6. Same(x, m, n) <=> a * n = b * m
  BY <1>0, <1>1 DEF Same, Positive
<1>7. a * n - b * m < 0 <=> (a * n - m * b) * 1 < 0
  BY <1>3
<1>8. a * n - b * m = 0 <=> a * n = b * m
  BY <1>3
<1> QED
  BY <1>0, <1>2, <1>4, <1>5, <1>6, <1>7, <1>8

---------------------------------------------------------------------------
(* Rounding.                                                               *)

LEMMA SimplifiedWhole ==
  ASSUME NEW d \in Positive, NEW k \in Int
  PROVE  Simplify(Number(d * k, d)) = Number(k, 1)
<1> DEFINE g == GCD(d * k, d)
<1>1. d \in NotZero /\ d * k \in Int /\ d \in Int /\ Abs(d) = d /\ Sign(d) = 1
  BY DEF Positive, NotZero, Abs, Sign
<1>2. Divides(d, d) /\ Divides(d, d * k)
  <2>1. (\E j \in Int : d = d * j) /\ (\E j \in Int : d * k = d * j)
    <3>1. d = d * 1
      BY <1>1
    <3> QED
      BY <3>1
  <2> QED
    BY <1>1, <2>1, DividesIs
<1>3. g = d
  <2>1. /\ g \in Positive /\ Divides(g, d)
        /\ \A e \in Positive : Divides(e, d * k) /\ Divides(e, d) => e <= g
    BY <1>1, GCDIs
  <2> HIDE DEF g
  <2>2. g <= d
    BY <1>1, <2>1, DivisorIsLess
  <2>3. d <= g
    BY <1>2, <2>1
  <2> QED
    BY <2>1, <2>2, <2>3 DEF Positive
<1>4. Quot(d * k, d) = k /\ Quot(d, d) = 1
  <2>1. d = d * 1
    BY <1>1
  <2> QED
    BY <1>1, <2>1, ExactQuot
<1>5. Simplify(Number(d * k, d)) = Number(1 * Quot(d * k, d), 1 * Quot(d, d))
  BY <1>1, <1>3, NumberIs DEF Simplify, Positive
<1> QED
  BY <1>4, <1>5

Ceils(mode, negative, r, den) == mode = "ceil" \/ (mode = "round" /\ NearestUp(negative, r, den))

(* The next integer away from zero is taken if there is a remainder and the  *)
(* mode and the sign say so.                                               *)
LEMMA RoundedIs ==
  ASSUME NEW a \in Int, NEW d \in Positive, NEW mode, NEW q \in Nat, NEW r \in Nat,
         r < d, Abs(a) = d * q + r
  PROVE  LET u == IF r # 0 /\ Ceils(mode, a < 0, r, d) # (a < 0) THEN q + 1 ELSE q
         IN  RoundBy(Number(a, d), mode) = Number(IF a < 0 THEN -u ELSE u, 1)
<1> DEFINE x == Number(a, d)
           negative == (x.num < 0) # (x.den < 0)
           num == Abs(x.num)
           den == Abs(x.den)
           rest == num % den
           ceil == Ceils(mode, negative, rest, den)
           whole == (num + (IF ceil # negative THEN den ELSE 0)) \div den
           simple == Simplify(Number(num, den))
           up == IF Ceils(mode, a < 0, r, d) # (a < 0) THEN d ELSE 0
<1>1. RoundBy(x, mode) =
        IF den = 1 THEN Simplify(x)
        ELSE IF rest # 0 THEN Number(IF negative THEN -whole ELSE whole, 1)
        ELSE Number(IF negative THEN -simple.num ELSE simple.num, simple.den)
  BY Zenon DEF RoundBy, Ceils
<1>2. x.num = a /\ x.den = d
  BY NumberIs
<1> HIDE DEF x
<1>3. den = d /\ num = d * q + r /\ num \in Int /\ d \in Int /\ d > 0
  BY <1>2, AbsFacts DEF Abs, Positive
<1>4. rest = r
  BY <1>3, DivisionIs
<1>5. negative = (a < 0)
  <2>1. (x.den < 0) = FALSE
    BY <1>2, <1>3
  <2> QED
    BY <1>2, <2>1
<1>6. ceil = Ceils(mode, a < 0, r, d)
  BY <1>3, <1>4, <1>5
<1>7. whole = (d * q + r + up) \div d
  BY <1>3, <1>5, <1>6
<1>8. CASE r # 0
  <2>1. den # 1 /\ rest # 0
    BY <1>3, <1>4, <1>8
  <2>2. (d * q + r) \div d = q /\ (d * q + r + d) \div d = q + 1
    <3>1. d * q + r + d = d * (q + 1) + r /\ d * q + r \in Int /\ d * q + r + d \in Int
      BY <1>3
    <3> QED
      BY <1>3, <3>1, DivisionIs
  <2>3. whole = IF Ceils(mode, a < 0, r, d) # (a < 0) THEN q + 1 ELSE q
    <3>1. d * q + r + 0 = d * q + r
      BY <1>3
    <3> QED
      BY <1>7, <2>2, <3>1
  <2> HIDE DEF whole, negative, den, rest
  <2>4. RoundBy(x, mode) = Number(IF a < 0 THEN -whole ELSE whole, 1)
    BY <1>1, <1>5, <2>1
  <2> QED
    BY <1>8, <2>3, <2>4 DEF x
<1>9. CASE r = 0
  <2>1. num = d * q
    BY <1>3, <1>9
  <2>2. simple = Number(q, 1)
    BY <1>3, <2>1, SimplifiedWhole
  <2>3. CASE d = 1
    <3>1. a = 1 * (IF a < 0 THEN -q ELSE q)
      BY <1>9, <2>3 DEF Abs
    <3>2. Simplify(Number(1 * (IF a < 0 THEN -q ELSE q), 1)) = Number(IF a < 0 THEN -q ELSE q, 1)
      <4>1. (IF a < 0 THEN -q ELSE q) \in Int /\ 1 \in Positive
        BY DEF Positive
      <4> QED
        BY <4>1, SimplifiedWhole
    <3>3. RoundBy(x, mode) = Simplify(x)
      BY <1>1, <1>3, <2>3
    <3> QED
      BY <1>9, <2>3, <3>1, <3>2, <3>3 DEF x
  <2>4. CASE d # 1
    <3>1. den # 1 /\ rest = 0
      BY <1>3, <1>4, <1>9, <2>4
    <3>2. simple.num = q /\ simple.den = 1
      BY <2>2, NumberIs
    <3> HIDE DEF whole, negative, den, rest, simple
    <3>3. RoundBy(x, mode) = Number(IF a < 0 THEN -q ELSE q, 1)
      BY <1>1, <1>5, <3>1, <3>2
    <3> QED
      BY <1>9, <3>3 DEF x
  <2> QED
    BY <2>3, <2>4
<1> QED
  BY <1>8, <1>9

LEMMA Rounded ==
  ASSUME NEW x \in Proper
  PROVE  /\ Floor(x) \in Proper /\ Ceil(x) \in Proper /\ Round(x) \in Proper
         /\ Floor(x).den = 1 /\ Ceil(x).den = 1 /\ Round(x).den = 1
         /\ Floor(x).num * x.den <= x.num /\ x.num < (Floor(x).num + 1) * x.den
         /\ (Ceil(x).num - 1) * x.den < x.num /\ x.num <= Ceil(x).num * x.den
         /\ (2 * Round(x).num - 1) * x.den <= 2 * x.num
         /\ 2 * x.num < (2 * Round(x).num + 1) * x.den
<1>0. PICK a \in Int, d \in Positive : x = Number(a, d)
  BY DEF Proper, Number
<1>1. x.num = a /\ x.den = d /\ d \in Int /\ d > 0
  BY <1>0, NumberIs DEF Positive
<1>2. PICK q \in Nat, r \in Nat : r < d /\ Abs(a) = d * q + r
  <2>1. Abs(a) \in Nat
    BY AbsFacts
  <2>2. Abs(a) \div d \in Nat /\ Abs(a) % d \in Nat /\ Abs(a) % d < d
        /\ Abs(a) = d * (Abs(a) \div d) + (Abs(a) % d)
    BY <2>1, Division
  <2> QED
    BY <2>2
<1> DEFINE Away(mode) == r # 0 /\ Ceils(mode, a < 0, r, d) # (a < 0)
           Abs_(mode) == IF Away(mode) THEN q + 1 ELSE q
           To(mode) == IF a < 0 THEN -Abs_(mode) ELSE Abs_(mode)
<1>3. \A mode : RoundBy(x, mode) = Number(To(mode), 1)
  BY <1>0, <1>2, RoundedIs
<1>4. PICK f, c, n : f = To("floor") /\ c = To("ceil") /\ n = To("round")
  OBVIOUS
<1>5. Floor(x) = Number(f, 1) /\ Ceil(x) = Number(c, 1) /\ Round(x) = Number(n, 1)
  BY <1>3, <1>4 DEF Floor, Ceil, Round
<1>6. PICK p : p = d * q
  OBVIOUS
<1>7. p \in Int /\ q * d = p /\ (q + 1) * d = p + d /\ (q - 1) * d = p - d
      /\ (-q) * d = -p /\ (-(q + 1)) * d = -p - d /\ (-q + 1) * d = d - p /\ (-q - 1) * d = -p - d
      /\ (-(q + 1) + 1) * d = -p /\ (-(q + 1) - 1) * d = -p - 2 * d /\ (q + 1 + 1) * d = p + 2 * d
      /\ (q + 1 - 1) * d = p
  BY <1>1, <1>6
<1>8. a = IF a < 0 THEN -p - r ELSE p + r
  BY <1>2, <1>6, <1>7 DEF Abs
<1>9. f \in Int /\ f * d <= a /\ a < (f + 1) * d
  <2>1. f = IF a < 0 THEN (IF r # 0 THEN -(q + 1) ELSE -q) ELSE q
    BY <1>4 DEF Ceils
  <2> QED
    BY <1>1, <1>2, <1>7, <1>8, <2>1
<1>10. c \in Int /\ (c - 1) * d < a /\ a <= c * d
  <2>1. c = IF a < 0 THEN -q ELSE (IF r # 0 THEN q + 1 ELSE q)
    BY <1>4 DEF Ceils
  <2> QED
    BY <1>1, <1>2, <1>7, <1>8, <2>1
<1>11. n \in Int /\ (2 * n - 1) * d <= 2 * a /\ 2 * a < (2 * n + 1) * d
  <2>1. n = IF a < 0 THEN (IF r * 2 > d THEN -(q + 1) ELSE -q) ELSE (IF r * 2 >= d THEN q + 1 ELSE q)
    <3>1. CASE a < 0
      <4>1. Away("round") <=> r # 0 /\ ~(r * 2 <= d)
        BY <3>1 DEF Ceils, NearestUp
      <4> QED
        BY <1>1, <1>4, <3>1, <4>1
    <3>2. CASE ~(a < 0)
      <4>1. Away("round") <=> r # 0 /\ r * 2 >= d
        BY <3>2 DEF Ceils, NearestUp
      <4> QED
        BY <1>1, <1>4, <3>2, <4>1
    <3> QED
      BY <3>1, <3>2
  <2>2. /\ (2 * q - 1) * d = 2 * p - d /\ (2 * q + 1) * d = 2 * p + d
        /\ (2 * (q + 1) - 1) * d = 2 * p + d /\ (2 * (q + 1) + 1) * d = 2 * p + 3 * d
        /\ (2 * (-q) - 1) * d = -2 * p - d /\ (2 * (-q) + 1) * d = -2 * p + d
        /\ (2 * (-(q + 1)) - 1) * d = -2 * p - 3 * d /\ (2 * (-(q + 1)) + 1) * d = -2 * p - d
    BY <1>1, <1>6
  <2> QED
    BY <1>1, <1>2, <1>7, <1>8, <2>1, <2>2
<1> QED
  BY <1>1, <1>5, <1>9, <1>10, <1>11, NumberIs, ProperIs DEF Positive

---------------------------------------------------------------------------
(* Powers.                                                                 *)

Pred == [i \in Nat |-> IF i = 0 THEN 0 ELSE i - 1]

LEMMA PredFalls == Falls(Nat, [i \in Nat |-> i], Pred, {0})
BY DEF Falls, Pred

LEMMA PowerIs ==
  ASSUME NEW x \in Int, NEW n \in Nat
  PROVE  Power(x, n) \in Int /\ (x # 0 => Power(x, n) # 0) /\ (x > 0 => Power(x, n) > 0)
<1> DEFINE base == [i \in Nat |-> 1]
           step == [i \in Nat |-> [v \in Int |-> x * v]]
           power[i \in Nat] == IF i = 0 THEN 1 ELSE x * power[i - 1]
<1>1. base \in [Nat -> Int] /\ step \in [Nat -> [Int -> Int]]
  OBVIOUS
<1>2. PICK f : Recurs(f, Nat, Pred, {0}, Int, base, step)
  <2> HIDE DEF base, step
  <2> QED
    BY <1>1, PredFalls, Recursion, Zenon
<1>3. f = [i \in Nat |-> IF i = 0 THEN 1 ELSE x * f[i - 1]]
  <2>1. ASSUME NEW i \in Nat
        PROVE  f[i] = IF i = 0 THEN 1 ELSE x * f[i - 1]
    <3>1. f[i] = IF i = 0 THEN base[i] ELSE step[i][f[Pred[i]]]
      BY <1>2 DEF Recurs
    <3>2. CASE i = 0
      BY <3>1, <3>2
    <3>3. CASE i # 0
      <4>1. Pred[i] = i - 1 /\ i - 1 \in Nat
        BY <3>3 DEF Pred
      <4>2. f[i - 1] \in Int
        BY <1>2, <4>1 DEF Recurs
      <4>3. step[i][f[i - 1]] = x * f[i - 1]
        BY <4>2
      <4> HIDE DEF step, base
      <4> QED
        BY <3>1, <3>3, <4>1, <4>3
    <3> QED
      BY <3>2, <3>3
  <2> QED
    BY <1>2, <2>1 DEF Recurs
<1>4. power = [i \in Nat |-> IF i = 0 THEN 1 ELSE x * power[i - 1]]
  BY <1>3, Zenon
<1>5. Power(x, n) = power[n]
  BY Zenon DEF Power
<1> HIDE DEF power
<1> DEFINE P == {i \in Nat : power[i] \in Int /\ (x # 0 => power[i] # 0) /\ (x > 0 => power[i] > 0)}
<1>6. ASSUME NEW i \in Nat, i \in {0} \/ Pred[i] \in P
      PROVE  i \in P
  <2>1. CASE i = 0
    BY <1>4, <2>1
  <2>2. CASE i # 0
    <3>1. power[i] = x * power[i - 1] /\ Pred[i] = i - 1
      BY <1>4, <2>2 DEF Pred
    <3>2. power[i - 1] \in Int /\ (x # 0 => power[i - 1] # 0)
          /\ (x > 0 => power[i - 1] > 0)
      BY <1>6, <2>2, <3>1
    <3> QED
      BY <3>1, <3>2
  <2> QED
    BY <2>1, <2>2
<1>7. Nat \subseteq P
  <2> HIDE DEF P
  <2>1. Inherits(P, Nat, Pred, {0})
    BY <1>6 DEF Inherits
  <2> QED
    BY <2>1, PredFalls, Descent, Zenon
<1> QED
  BY <1>5, <1>7

LEMMA SimplifiedIsProper ==
  ASSUME NEW x \in Fraction
  PROVE  Simplify(x) \in Proper
<1>1. PICK a \in Int, b \in NotZero : x = Number(a, b)
  BY DEF Fraction, Number, NotZero
<1> QED
  BY <1>1, Simplified

LEMMA RaisedIsNumber ==
  ASSUME NEW x \in Fraction, NEW y \in Fraction
  PROVE  Pow(x, y) \in Fraction \cup {Crashed, Error}
<1>1. PICK n, m : n = Simplify(y).num /\ m = Abs(n)
  OBVIOUS
<1>2. n \in Int /\ m \in Nat
  <2>1. PICK a \in Int, b \in NotZero : y = Number(a, b)
    BY DEF Fraction, Number, NotZero
  <2> QED
    BY <1>1, <2>1, Simplified, AbsFacts DEF Proper
<1>3. PICK a, b : a = Power(x.num, m) /\ b = Power(x.den, m)
  OBVIOUS
<1>4. a \in Int /\ b \in NotZero
  BY <1>2, <1>3, FractionIs, PowerIs DEF NotZero
<1>5. Number(a, b) \in Fraction /\ Inverted(Number(a, b)) \in Fraction \cup {Error}
  BY <1>4, NumberIs DEF Inverted, Number, Fraction, NotZero
<1>6. Pow(x, y) = IF Simplify(y).den # 1 THEN Crashed
                  ELSE IF n = 0 THEN Number(1, 1)
                  ELSE IF n < 0 THEN Inverted(Number(a, b)) ELSE Number(a, b)
  BY <1>1, <1>3, Zenon DEF Pow
<1>7. Number(1, 1) \in Fraction
  BY DEF Number, Fraction
<1> QED
  BY <1>5, <1>6, <1>7

---------------------------------------------------------------------------
(* Literals.                                                               *)

LEMMA LiteralIsNumber ==
  ASSUME NEW t, Readable(t)
  PROVE  FromText(t) \in Proper
<1>1. t.whole \in Nat /\ t.frac \in Nat /\ t.digits \in Nat /\ ToInt(Power(10, t.digits)) # 0
  BY DEF Readable, Text
<1>2. PICK num, f, b : /\ num = (IF t.negative THEN -t.whole ELSE t.whole)
                       /\ f = Sign(num) * t.frac /\ b = Power(10, t.digits)
  OBVIOUS
<1>3. num \in Int /\ f \in Int /\ b \in Positive /\ ToInt(b) # 0
  <2>1. 10 \in Int /\ 10 > 0
    OBVIOUS
  <2>2. b \in Int /\ b > 0
    BY <1>1, <1>2, <2>1, PowerIs
  <2> QED
    BY <1>1, <1>2, <2>2 DEF Sign, Positive
<1>4. FromText(t) = Simplify(IF t.digits = 0 THEN Number(num, 1) ELSE Plus(Number(num, 1), Number(f, b)))
  BY <1>2 DEF FromText
<1>5. Simplify(Number(num, 1)) \in Proper
  BY <1>3, Simplified DEF NotZero
<1>6. Simplify(Plus(Number(num, 1), Number(f, b))) \in Proper
  <2> DEFINE x == Number(num, 1)
             y == Number(f, b)
  <2>1. x.num = num /\ x.den = 1 /\ y.num = f /\ y.den = b /\ x \in Fraction /\ y \in Fraction
    BY <1>3 DEF Number, Fraction, Positive
  <2> HIDE DEF x, y
  <2>2. PICK c : c = Common(x, y)
    OBVIOUS
  <2>3. c \in Int /\ c # 0
    <3>1. Abs(b) = b /\ b \in NotZero
      BY <1>3 DEF Abs, Positive, NotZero
    <3>2. GCD(1, b) = 1
      <4>1. 1 \in NotZero /\ 1 \in Int /\ 1 \in Positive
        BY DEF NotZero, Positive
      <4>2. GCD(1, b) \in Positive /\ Divides(GCD(1, b), 1)
        BY <3>1, <4>1, GCDIs
      <4>3. GCD(1, b) <= Abs(1)
        BY <4>1, <4>2, DivisorIsLess
      <4> QED
        BY <4>2, <4>3 DEF Abs, Positive
    <3>3. LCM(1, b) = b
      <4>1. b \div 1 = b /\ 1 * b = b
        BY <1>3 DEF Positive
      <4>2. Abs(1) = 1 /\ b # 0
        BY <1>3 DEF Abs, Positive
      <4> QED
        BY <3>1, <3>2, <4>1, <4>2 DEF LCM
    <3>4. c = ToInt(b)
      BY <2>1, <2>2, <3>3 DEF Common
    <3> QED
      BY <1>3, <2>1, <2>2, <3>4, CommonIs
  <2>4. PICK p : p = x.num * Quot(c, x.den) + y.num * Quot(c, y.den)
    OBVIOUS
  <2>5. p \in Int
    <3>1. x.den \in NotZero /\ y.den \in NotZero
      BY <2>1, FractionIs
    <3>2. Quot(c, x.den) \in Int /\ Quot(c, y.den) \in Int
      BY <2>3, <3>1, QuotRem
    <3> QED
      BY <1>3, <2>1, <2>4, <3>2
  <2>6. Plus(x, y) = Simplify(Number(p, c))
    BY <2>2, <2>4 DEF Plus
  <2>7. Plus(x, y) \in Proper
    BY <2>3, <2>5, <2>6, Simplified DEF NotZero
  <2>8. Simplify(Plus(x, y)) \in Proper
    BY <2>7, FractionIs, SimplifiedIsProper
  <2> QED
    BY <2>8 DEF x, y
<1> QED
  BY <1>4, <1>5, <1>6

LEMMA LowestIs == Lowest = {x \in Proper : GCD(x.num, x.den) = 1}
BY DEF Lowest, Proper, Positive

(* Nothing but 1 divides both once simplified.                             *)
LEMMA SimplifiedIsLowest ==
  ASSUME NEW x \in Fraction
  PROVE  Simplify(x) \in Lowest
<1>1. PICK a \in Int, b \in NotZero : x = Number(a, b)
  BY DEF Fraction, Number, NotZero
<1>0. PICK g : g = GCD(a, b)
  OBVIOUS
<1>2. PICK k \in Int, l \in NotZero : a = g * k /\ b = g * l /\ Quot(a, g) = k /\ Quot(b, g) = l
  BY <1>0, Reduced
<1>3. g \in Positive /\ \A e \in Positive : Divides(e, a) /\ Divides(e, b) => e <= g
  BY <1>0, GCDIs
<1>4. PICK s \in {-1, 1} : s = Sign(b)
  BY AbsFacts DEF NotZero
<1>5. PICK n, d : n = s * k /\ d = s * l
  OBVIOUS
<1>6. Simplify(x) = Number(n, d)
  BY <1>0, <1>1, <1>2, <1>3, <1>4, <1>5, NumberIs DEF Simplify, Positive
<1>7. n \in Int /\ d \in NotZero /\ k = s * n /\ l = s * d
  BY <1>5 DEF NotZero
<1>8. PICK h : h = GCD(n, d)
  OBVIOUS
<1>9. h \in Positive /\ Divides(h, n) /\ Divides(h, d)
  BY <1>7, <1>8, GCDIs
<1>10. PICK u \in Int, v \in Int : n = h * u /\ d = h * v
  BY <1>7, <1>9, DividesIs DEF NotZero
<1>11. g \in Int /\ h \in Int /\ s \in Int /\ g > 0 /\ h > 0
  BY <1>3, <1>9 DEF Positive
<1>12. g * h \in Positive
  BY <1>11 DEF Positive
<1>13. ASSUME NEW w \in Int
       PROVE  g * (s * (h * w)) = (g * h) * (s * w) /\ s * w \in Int
  BY <1>11
<1>14. a = (g * h) * (s * u) /\ b = (g * h) * (s * v) /\ s * u \in Int /\ s * v \in Int
  BY <1>2, <1>7, <1>10, <1>13
<1>15. Divides(g * h, a) /\ Divides(g * h, b)
  BY <1>12, <1>14, DividesIs DEF NotZero
<1>16. g * h <= g
  BY <1>3, <1>12, <1>15
<1>17. h = 1
  <2>1. h >= 2 => g * h >= g * 2
    BY <1>11
  <2> QED
    BY <1>11, <1>16, <2>1
<1>18. Simplify(x) \in Proper /\ Simplify(x).num = n /\ Simplify(x).den = d
  BY <1>6, NumberIs, SimplifiedIsProper
<1> QED
  BY <1>8, <1>17, <1>18, LowestIs

---------------------------------------------------------------------------
(* The loop of modular_inverse.                                            *)

Ends == {s \in Locals : s.newr = 0}
Loop == [s \in Locals |-> IF s.newr = 0 THEN s ELSE Exchanged(s)]
Left == [s \in Locals |-> Abs(s.newr)]

LEMMA ExchangedIs ==
  ASSUME NEW s \in Locals, s.newr # 0
  PROVE  /\ Exchanged(s) \in Locals
         /\ Exchanged(s).t = s.newt /\ Exchanged(s).newt = s.t - Quot(s.r, s.newr) * s.newt
         /\ Exchanged(s).r = s.newr /\ Exchanged(s).newr = Rem(s.r, s.newr)
         /\ Abs(Rem(s.r, s.newr)) < Abs(s.newr)
<1>1. s.t \in Int /\ s.newt \in Int /\ s.r \in Int /\ s.newr \in NotZero /\ s.newr \in Int
  BY DEF Locals, NotZero
<1>2. PICK q, rem : q = Quot(s.r, s.newr) /\ rem = Rem(s.r, s.newr)
  OBVIOUS
<1>3. q \in Int /\ rem \in Int /\ Abs(rem) < Abs(s.newr) /\ rem = s.r - s.newr * q
  <2>1. Quot(s.r, s.newr) \in Int /\ Rem(s.r, s.newr) \in Int /\ Abs(Rem(s.r, s.newr)) < Abs(s.newr)
    BY <1>1, QuotRem
  <2> QED
    BY <1>2, <2>1 DEF Rem
<1>4. s.newr * q = q * s.newr
  BY <1>1, <1>3
<1>5. Exchanged(s) = [t |-> s.newt, newt |-> s.t - q * s.newt, r |-> s.newr, newr |-> rem]
  BY <1>2, <1>3, <1>4 DEF Exchanged
<1>6. q * s.newt \in Int
  BY <1>1, <1>3
<1> QED
  BY <1>1, <1>2, <1>3, <1>5, <1>6 DEF Locals

LEMMA LoopFalls == Falls(Locals, Left, Loop, Ends)
<1>1. ASSUME NEW s \in Locals
      PROVE  Abs(s.newr) \in Nat
  BY AbsFacts DEF Locals
<1>2. ASSUME NEW s \in Locals
      PROVE  (IF s.newr = 0 THEN s ELSE Exchanged(s)) \in Locals
  BY ExchangedIs
<1>3. Left \in [Locals -> Nat]
  BY <1>1 DEF Left
<1>4. Loop \in [Locals -> Locals]
  BY <1>2 DEF Loop
<1>5. ASSUME NEW s \in Locals \ Ends
      PROVE  Left[Loop[s]] < Left[s]
  <2>1. s.newr # 0
    BY DEF Ends
  <2>2. Loop[s] = Exchanged(s) /\ Exchanged(s) \in Locals /\ Abs(Exchanged(s).newr) < Abs(s.newr)
    BY <2>1, ExchangedIs DEF Loop
  <2>3. Left[s] = Abs(s.newr) /\ Left[Exchanged(s)] = Abs(Exchanged(s).newr)
    BY <2>2 DEF Left
  <2> QED
    BY <2>2, <2>3
<1> QED
  BY <1>3, <1>4, <1>5 DEF Falls

LEMMA EuclidEnds ==
  ASSUME NEW s \in Locals
  PROVE  /\ Euclid[s] \in Locals
         /\ s.newr = 0 => Euclid[s] = s
         /\ s.newr # 0 => Euclid[s] = Euclid[Exchanged(s)]
<1> DEFINE base == [v \in Locals |-> v]
           step == [v \in Locals |-> base]
<1>1. base \in [Locals -> Locals] /\ step \in [Locals -> [Locals -> Locals]]
  OBVIOUS
<1>2. PICK f : Recurs(f, Locals, Loop, Ends, Locals, base, step)
  <2> HIDE DEF base, step
  <2> QED
    BY <1>1, LoopFalls, Recursion, Zenon
<1>3. f = [v \in Locals |-> IF v.newr # 0 THEN f[Exchanged(v)] ELSE v]
  <2>1. ASSUME NEW v \in Locals
        PROVE  f[v] = IF v.newr # 0 THEN f[Exchanged(v)] ELSE v
    <3>1. f[v] = IF v \in Ends THEN base[v] ELSE step[v][f[Loop[v]]]
      BY <1>2 DEF Recurs
    <3>2. CASE v.newr = 0
      BY <3>1, <3>2 DEF Ends
    <3>3. CASE v.newr # 0
      <4>1. Loop[v] = Exchanged(v) /\ Exchanged(v) \in Locals /\ v \notin Ends
        BY <3>3, ExchangedIs DEF Loop, Ends
      <4>2. f[Exchanged(v)] \in Locals
        BY <1>2, <4>1 DEF Recurs
      <4>3. step[v][f[Exchanged(v)]] = f[Exchanged(v)]
        BY <4>2
      <4> HIDE DEF step, base
      <4> QED
        BY <3>1, <3>3, <4>1, <4>3
    <3> QED
      BY <3>2, <3>3
  <2> QED
    BY <1>2, <2>1 DEF Recurs
<1>4. Euclid = [v \in Locals |-> IF v.newr # 0 THEN Euclid[Exchanged(v)] ELSE v]
  BY <1>3, Zenon DEF Euclid
<1> DEFINE P == {v \in Locals : Euclid[v] \in Locals}
<1>5. ASSUME NEW v \in Locals, v \in Ends \/ Loop[v] \in P
      PROVE  v \in P
  <2>1. CASE v.newr = 0
    BY <1>4, <2>1
  <2>2. CASE v.newr # 0
    <3>1. Loop[v] = Exchanged(v) /\ v \notin Ends
      BY <2>2 DEF Loop, Ends
    <3>2. Euclid[v] = Euclid[Exchanged(v)]
      BY <1>4, <2>2
    <3> QED
      BY <1>5, <3>1, <3>2
  <2> QED
    BY <2>1, <2>2
<1>6. Locals \subseteq P
  <2> HIDE DEF P
  <2>1. Inherits(P, Locals, Loop, Ends)
    BY <1>5 DEF Inherits
  <2> QED
    BY <2>1, LoopFalls, Descent, Zenon
<1> QED
  BY <1>4, <1>6

---------------------------------------------------------------------------
(* What it finds, for positive integers n and a.                           *)

LEMMA DividesDifference ==
  ASSUME NEW d \in Positive, NEW m \in Int, NEW n \in Int, NEW q \in Int, Divides(d, m), Divides(d, n)
  PROVE  Divides(d, m - q * n) /\ Divides(d, m + q * n)
<1>1. PICK j \in Int : m = d * j
  BY DividesIs
<1>2. PICK k \in Int : n = d * k
  BY DividesIs
<1>3. q * (d * k) = d * (q * k) /\ q * k \in Int /\ d \in Int
  BY DEF Positive
<1>4. d * (j - q * k) = d * j - d * (q * k) /\ d * (j + q * k) = d * j + d * (q * k)
  BY <1>3
<1>5. m - q * n = d * (j - q * k) /\ m + q * n = d * (j + q * k)
  BY <1>1, <1>2, <1>3, <1>4
<1>6. j - q * k \in Int /\ j + q * k \in Int /\ m - q * n \in Int /\ m + q * n \in Int
  BY <1>3
<1>7. (\E i \in Int : m - q * n = d * i) /\ (\E i \in Int : m + q * n = d * i)
  BY <1>5, <1>6
<1> QED
  BY <1>6, <1>7, DividesIs

(* t and newt are inverses of r and newr, one of them not positive, the other *)
(* not negative, and together they are no greater than n.                  *)
InverseOf(t, r, n, a) == \E i \in Int : t * a = r + n * i

Bounded(s, n) ==
  \E u, v \in Nat, sign \in {-1, 1} :
    s.t + sign * u = 0 /\ s.newt = sign * v /\ u * s.newr + v * s.r = n /\ u <= n

Divisors(r, newr, n, a) ==
  \A d \in Positive : Divides(d, r) /\ Divides(d, newr) <=> Divides(d, n) /\ Divides(d, a)

Steady(s, n, a) ==
  /\ s.r >= 1 /\ s.newr >= 0
  /\ InverseOf(s.t, s.r, n, a) /\ InverseOf(s.newt, s.newr, n, a)
  /\ Bounded(s, n)
  /\ Divisors(s.r, s.newr, n, a)

LEMMA SteadyStep ==
  ASSUME NEW n \in Positive, NEW a \in Positive, NEW s \in Locals, Steady(s, n, a), s.newr # 0
  PROVE  Steady(Exchanged(s), n, a)
<1>0. PICK t, newt, r, newr : t = s.t /\ newt = s.newt /\ r = s.r /\ newr = s.newr
  OBVIOUS
<1>1. t \in Int /\ newt \in Int /\ r \in Int /\ newr \in NotZero /\ newr \in Int /\ r >= 1 /\ newr >= 1
      /\ newr \in Positive /\ n \in Int /\ a \in Int
  BY <1>0 DEF Locals, Steady, NotZero, Positive
<1>2. PICK q, rem : q = Quot(r, newr) /\ rem = Rem(r, newr)
  OBVIOUS
<1>3. /\ q \in Int /\ rem \in Int /\ r = newr * q + rem /\ rem >= 0
      /\ Abs(rem) < Abs(newr)
  <2>1. /\ Quot(r, newr) \in Int /\ Rem(r, newr) \in Int
        /\ r = newr * Quot(r, newr) + Rem(r, newr)
        /\ Abs(Rem(r, newr)) < Abs(newr)
        /\ r >= 0 => Rem(r, newr) >= 0
    BY <1>1, QuotRem
  <2> QED
    BY <1>1, <1>2, <2>1
<1>4. rem < newr
  BY <1>1, <1>3 DEF Abs
<1>5. q >= 0
  <2>1. q <= -1 => newr * q <= -newr
    BY <1>1, <1>3
  <2> QED
    BY <1>1, <1>3, <1>4, <2>1
<1>6. PICK e : e = Exchanged(s)
  OBVIOUS
<1>7. e.t = newt /\ e.newt = t - q * newt /\ e.r = newr /\ e.newr = rem
  BY <1>0, <1>1, <1>2, <1>6, ExchangedIs
<1>8. InverseOf(newt, newr, n, a) /\ InverseOf(t, r, n, a)
  BY <1>0 DEF Steady
<1>9. InverseOf(t - q * newt, rem, n, a)
  <2>1. PICK i \in Int : t * a = r + n * i
    BY <1>8 DEF InverseOf
  <2>2. PICK j \in Int : newt * a = newr + n * j
    BY <1>8 DEF InverseOf
  <2>3. (t - q * newt) * a = t * a - q * (newt * a)
    <3>1. (t - q * newt) * a = t * a - (q * newt) * a
      BY <1>1, <1>3
    <3>2. (q * newt) * a = q * (newt * a)
      BY <1>1, <1>3
    <3> QED
      BY <3>1, <3>2
  <2>4. q * (newr + n * j) = newr * q + n * (q * j)
    <3>1. q * (newr + n * j) = q * newr + q * (n * j)
      BY <1>1, <1>3
    <3>2. q * (n * j) = n * (q * j) /\ q * newr = newr * q
      BY <1>1, <1>3
    <3> QED
      BY <3>1, <3>2
  <2>5. n * (i - q * j) = n * i - n * (q * j) /\ i - q * j \in Int
    BY <1>1, <1>3
  <2>6. newr * q \in Int /\ n * i \in Int /\ n * (q * j) \in Int
    BY <1>1, <1>3
  <2>7. (t - q * newt) * a = rem + n * (i - q * j)
    BY <1>1, <1>3, <2>1, <2>2, <2>3, <2>4, <2>5, <2>6
  <2> QED
    BY <2>5, <2>7 DEF InverseOf
<1>10. Bounded(e, n)
  <2>1. PICK u \in Nat, v \in Nat, sign \in {-1, 1} :
          t + sign * u = 0 /\ newt = sign * v /\ u * newr + v * r = n /\ u <= n
    BY <1>0 DEF Steady, Bounded
  <2>2. u + q * v \in Nat
    BY <1>3, <1>5
  <2>3. newt + (-sign) * v = 0 /\ -sign \in {-1, 1}
    BY <2>1
  <2>4. t - q * newt = (-sign) * (u + q * v)
    <3>1. q * v \in Int
      BY <1>3
    <3>2. CASE sign = 1
      <4>1. t = -u /\ newt = v
        BY <1>1, <2>1, <3>2
      <4> QED
        BY <3>1, <3>2, <4>1
    <3>3. CASE sign = -1
      <4>1. t = u /\ newt = -v
        BY <1>1, <2>1, <3>3
      <4>2. q * (-v) = -(q * v)
        BY <1>3
      <4> QED
        BY <3>1, <3>3, <4>1, <4>2
    <3> QED
      BY <3>2, <3>3
  <2>5. v * rem + (u + q * v) * newr = n
    <3>1. v * r = v * (newr * q) + v * rem
      BY <1>1, <1>3
    <3>2. (u + q * v) * newr = u * newr + (q * v) * newr
      BY <1>1, <1>3
    <3>3. v * (newr * q) = (q * v) * newr
      BY <1>1, <1>3
    <3>4. v * rem \in Int /\ u * newr \in Int /\ (q * v) * newr \in Int
      BY <1>1, <1>3
    <3> QED
      BY <2>1, <3>1, <3>2, <3>3, <3>4
  <2>6. v <= n
    <3>1. v * r >= v
      BY <1>1
    <3>2. u * newr >= 0 /\ u * newr \in Int /\ v * r \in Int
      BY <1>1
    <3> QED
      BY <1>1, <2>1, <3>1, <3>2
  <2> QED
    BY <1>7, <2>2, <2>3, <2>4, <2>5, <2>6 DEF Bounded
<1>11. Divisors(newr, rem, n, a)
  <2> SUFFICES ASSUME NEW d \in Positive
               PROVE  Divides(d, newr) /\ Divides(d, rem) <=> Divides(d, n) /\ Divides(d, a)
    BY DEF Divisors
  <2>1. Divides(d, r) /\ Divides(d, newr) <=> Divides(d, n) /\ Divides(d, a)
    BY <1>0 DEF Steady, Divisors
  <2>2. rem = r - q * newr /\ r = rem + q * newr
    BY <1>1, <1>3
  <2>3. Divides(d, r) /\ Divides(d, newr) => Divides(d, rem)
    BY <1>1, <1>3, <2>2, DividesDifference
  <2>4. Divides(d, rem) /\ Divides(d, newr) => Divides(d, r)
    BY <1>1, <1>3, <2>2, DividesDifference
  <2> QED
    BY <2>1, <2>3, <2>4
<1>12. Steady(e, n, a)
  BY <1>1, <1>3, <1>7, <1>8, <1>9, <1>10, <1>11 DEF Steady
<1> QED
  BY <1>6, <1>12

LEMMA EuclidFinds ==
  ASSUME NEW n \in Positive, NEW a \in Positive
  PROVE  LET e == Euclid[[t |-> 0, newt |-> 1, r |-> n, newr |-> a]]
         IN  /\ e \in Locals /\ e.r = GCD(a, n) /\ e.r \in Positive
             /\ -n <= e.t /\ e.t <= n
             /\ InverseOf(e.t, e.r, n, a)
<1> DEFINE Found(e) == Steady(e, n, a) /\ e.newr = 0
           P == {s \in Locals : Steady(s, n, a) => Found(Euclid[s])}
<1>1. ASSUME NEW s \in Locals, s \in Ends \/ Loop[s] \in P
      PROVE  s \in P
  <2> SUFFICES ASSUME Steady(s, n, a)
               PROVE  Found(Euclid[s])
    OBVIOUS
  <2>1. CASE s.newr = 0
    BY <2>1, EuclidEnds
  <2>2. CASE s.newr # 0
    <3>1. Loop[s] = Exchanged(s) /\ s \notin Ends /\ Exchanged(s) \in P
      BY <1>1, <2>2 DEF Loop, Ends
    <3>2. Steady(Exchanged(s), n, a)
      BY <2>2, SteadyStep
    <3>3. Found(Euclid[Exchanged(s)])
      BY <3>1, <3>2
    <3>4. Euclid[s] = Euclid[Exchanged(s)]
      BY <2>2, EuclidEnds
    <3> QED
      BY <3>3, <3>4
  <2> QED
    BY <2>1, <2>2
<1>2. Locals \subseteq P
  <2> HIDE DEF P
  <2>1. Inherits(P, Locals, Loop, Ends)
    BY <1>1 DEF Inherits
  <2> QED
    BY <2>1, LoopFalls, Descent, Zenon
<1>3. PICK s : s = [t |-> 0, newt |-> 1, r |-> n, newr |-> a]
  OBVIOUS
<1>4. s \in Locals /\ s.t = 0 /\ s.newt = 1 /\ s.r = n /\ s.newr = a
  BY <1>3 DEF Locals, Positive
<1>5. Steady(s, n, a)
  <2>1. InverseOf(0, n, n, a) /\ InverseOf(1, a, n, a)
    <3>1. 0 * a = n + n * (-1) /\ 1 * a = a + n * 0 /\ -1 \in Int /\ 0 \in Int
      BY DEF Positive
    <3>2. InverseOf(0, n, n, a)
      <4> SUFFICES \E i \in Int : 0 * a = n + n * i
        BY DEF InverseOf
      <4> WITNESS -1 \in Int
      <4> QED
        BY <3>1
    <3>3. InverseOf(1, a, n, a)
      <4> SUFFICES \E i \in Int : 1 * a = a + n * i
        BY DEF InverseOf
      <4> WITNESS 0 \in Int
      <4> QED
        BY <3>1
    <3> QED
      BY <3>2, <3>3
  <2>2. Bounded(s, n)
    <3>1. n \in Nat /\ a \in Nat
      BY DEF Positive
    <3>2. 0 + 1 * 0 = 0 /\ 1 = 1 * 1
      OBVIOUS
    <3>3. 0 * a + 1 * n = n /\ 0 <= n
      BY <3>1
    <3> QED
      BY <1>4, <3>2, <3>3 DEF Bounded
  <2>3. Divisors(n, a, n, a)
    BY DEF Divisors
  <2>4. n >= 1 /\ a >= 0
    BY DEF Positive
  <2> QED
    BY <1>4, <2>1, <2>2, <2>3, <2>4 DEF Steady
<1>6. PICK e : e = Euclid[s]
  OBVIOUS
<1>7. e \in Locals /\ Steady(e, n, a) /\ e.newr = 0
  BY <1>2, <1>4, <1>5, <1>6, EuclidEnds
<1>8. e.r \in Positive /\ e.t \in Int /\ e.r \in Int
  BY <1>7 DEF Locals, Steady, Positive
<1>9. \A d \in Positive : Divides(d, e.r) <=> Divides(d, n) /\ Divides(d, a)
  <2>1. \A d \in Positive : Divides(d, 0)
    <3>1. ASSUME NEW d \in Positive PROVE Divides(d, 0)
      <4>1. 0 = d * 0
        BY DEF Positive
      <4> QED
        BY <4>1, DividesIs
    <3> QED
      BY <3>1
  <2> QED
    BY <1>7, <2>1 DEF Steady, Divisors
<1>10. e.r = GCD(a, n)
  <2>1. /\ GCD(a, n) \in Positive
        /\ Divides(GCD(a, n), a) /\ Divides(GCD(a, n), n)
        /\ \A d \in Positive : Divides(d, a) /\ Divides(d, n) => d <= GCD(a, n)
    BY GCDIs DEF Positive, NotZero
  <2>2. PICK g, r : g = GCD(a, n) /\ r = e.r
    OBVIOUS
  <2>3. g \in Positive /\ r \in Positive /\ r \in NotZero /\ Abs(r) = r
    BY <1>8, <2>1, <2>2 DEF Positive, NotZero, Abs
  <2>4. Divides(g, r)
    BY <1>9, <2>1, <2>2, <2>3
  <2>5. g <= r
    BY <2>3, <2>4, DivisorIsLess
  <2>6. Divides(r, r)
    <3>1. r = r * 1
      BY <2>3 DEF Positive
    <3> QED
      BY <2>3, <3>1, DividesIs DEF NotZero
  <2>7. r <= g
    BY <1>9, <2>1, <2>2, <2>3, <2>6
  <2> QED
    BY <2>2, <2>3, <2>5, <2>7 DEF Positive
<1>11. -n <= e.t /\ e.t <= n
  <2>1. PICK u \in Nat, sign \in {-1, 1} : e.t + sign * u = 0 /\ u <= n
    BY <1>7 DEF Steady, Bounded
  <2> QED
    BY <1>8, <2>1 DEF Positive
<1> QED
  BY <1>3, <1>6, <1>7, <1>8, <1>10, <1>11 DEF Steady

---------------------------------------------------------------------------
(* Remainders.                                                             *)

LEMMA ModuloIsNumber ==
  ASSUME NEW x \in Fraction, NEW y \in Fraction
  PROVE  Modulo(x, y) \in Proper \cup {Error}
<1> DEFINE ret == Simplify(x)
           n == Simplify(y)
           e == Euclid[[t |-> 0, newt |-> 1, r |-> n.num, newr |-> ret.den]]
<1>1. ret \in Proper /\ n \in Proper
  BY SimplifiedIsProper
<1>2. y.num # 0 => n.num # 0
  <2>1. PICK a \in Int, b \in NotZero : y = Number(a, b)
    BY DEF Fraction, Number, NotZero
  <2>2. n.num * b = n.den * a
    BY <2>1, Simplified
  <2>3. PICK p, q : p = n.num /\ q = n.den
    OBVIOUS
  <2>4. p \in Int /\ q \in NotZero /\ p * b = q * a
    BY <1>1, <2>2, <2>3 DEF Proper, Positive, NotZero
  <2>5. a # 0 => q * a \in NotZero
    BY <2>4, NoZeroProduct DEF NotZero
  <2>6. p = 0 => p * b = 0
    BY <2>4 DEF NotZero
  <2> QED
    BY <2>1, <2>3, <2>4, <2>5, <2>6, NumberIs DEF NotZero
<1> HIDE DEF ret, n
<1>3. e \in Locals
  <2>1. [t |-> 0, newt |-> 1, r |-> n.num, newr |-> ret.den] \in Locals
    BY <1>1 DEF Locals, Proper, Positive
  <2> QED
    BY <2>1, EuclidEnds
<1> HIDE DEF e
<1>4. ret.num \in Int /\ n.num \in Int /\ NonNegative(e.t, n.num) \in Int
  BY <1>1, <1>3 DEF Proper, Locals, NonNegative
<1>5. NonNegative(e.t, n.num) * ret.num \in Int
  BY <1>4
<1>6. ASSUME NEW a \in Int, y.num # 0
      PROVE  Number(Rem(a, n.num), 1) \in Proper
  <2>1. n.num \in NotZero
    BY <1>2, <1>4, <1>6 DEF NotZero
  <2>2. Rem(a, n.num) \in Int /\ 1 \in Positive
    BY <2>1, QuotRem DEF Positive
  <2> QED
    BY <2>2, ProperIs
<1>7. Modulo(x, y) =
        IF y.num = 0 \/ n.den # 1 THEN Error
        ELSE IF ret.den = 1 THEN Number(Rem(ret.num, n.num), 1)
        ELSE IF e.r > 1 THEN Error
        ELSE Number(Rem(NonNegative(e.t, n.num) * ret.num, n.num), 1)
  BY DEF Modulo, ret, n, e
<1> QED
  BY <1>4, <1>5, <1>6, <1>7

(* n divides what is left when n goes into something.                      *)
LEMMA MultipleHasNoRest ==
  ASSUME NEW n \in Positive, NEW k \in Int
  PROVE  (n * k) % n = 0
<1>1. n * k = n * k + 0 /\ n * k \in Int /\ 0 < n
  BY DEF Positive
<1> QED
  BY <1>1, DivisionIs

LEMMA SignsAgree ==
  ASSUME NEW a \in Int, NEW b \in Int
  PROVE  /\ a >= 0 /\ b >= 0 => a * b >= 0
         /\ a <= 0 /\ b <= 0 => a * b >= 0
         /\ a >= 0 /\ b <= 0 => a * b <= 0
<1>1. a >= 0 /\ b >= 0 => a * b >= 0
  OBVIOUS
<1>2. a <= 0 /\ b <= 0 => a * b >= 0
  <2>1. (0 - a) * (0 - b) = a * b
    <3>1. (0 - a) * (0 - b) = 0 * (0 - b) - a * (0 - b)
      OBVIOUS
    <3>2. a * (0 - b) = a * 0 - a * b /\ a * b \in Int /\ a * (0 - b) \in Int
      OBVIOUS
    <3> QED
      BY <3>1, <3>2
  <2>2. a <= 0 /\ b <= 0 => (0 - a) * (0 - b) >= 0
    <3>1. \A p, q \in Nat : p * q >= 0
      OBVIOUS
    <3>2. a <= 0 /\ b <= 0 => 0 - a \in Nat /\ 0 - b \in Nat
      OBVIOUS
    <3> QED
      BY <3>1, <3>2
  <2> QED
    BY <2>1, <2>2
<1>3. a >= 0 /\ b <= 0 => a * b <= 0
  <2>1. a * (0 - b) = 0 - a * b /\ a * b \in Int
    OBVIOUS
  <2>2. a >= 0 /\ b <= 0 => a * (0 - b) >= 0
    <3>1. \A p, q \in Nat : p * q >= 0
      OBVIOUS
    <3>2. a >= 0 /\ b <= 0 => a \in Nat /\ 0 - b \in Nat
      OBVIOUS
    <3> QED
      BY <3>1, <3>2
  <2> QED
    BY <2>1, <2>2
<1> QED
  BY <1>1, <1>2, <1>3

(* x is simplified, y is a positive integer.                               *)
LEMMA ModuloIs ==
  ASSUME NEW x \in Fraction, NEW y \in Fraction, y.den = 1, y.num > 0
  PROVE  LET s == Simplify(x)
             n == y.num
             r == Modulo(x, y)
         IN  IF GCD(s.den, n) = 1
             THEN /\ r.den = 1 /\ Abs(r.num) < n
                  /\ (s.den * r.num - s.num) % n = 0
                  /\ r.num * s.num >= 0
             ELSE r = Error
<1>0. PICK n, s : n = y.num /\ s = Simplify(x)
  OBVIOUS
<1>1. n \in Positive /\ n \in NotZero /\ n \in Int /\ n > 0 /\ Abs(n) = n /\ Simplify(y) = Number(n, 1)
  <2>1. n \in Positive
    BY <1>0, FractionIs DEF Positive
  <2>2. y = Number(1 * n, 1)
    BY <1>0, <2>1 DEF Fraction, Number, Positive
  <2>3. 1 \in Positive /\ n \in Int
    BY <2>1 DEF Positive
  <2>4. Simplify(y) = Number(n, 1)
    BY <2>2, <2>3, SimplifiedWhole
  <2> QED
    BY <2>1, <2>4 DEF Positive, NotZero, Abs
<1>2. s \in Proper
  BY <1>0, SimplifiedIsProper
<1>3. PICK b, a : b = s.num /\ a = s.den
  OBVIOUS
<1>4. b \in Int /\ a \in Positive /\ a \in Int
  BY <1>2, <1>3 DEF Proper, Positive
<1>5. PICK e : e = Euclid[[t |-> 0, newt |-> 1, r |-> n, newr |-> a]]
  OBVIOUS
<1>6. /\ e.r = GCD(a, n) /\ e.r \in Positive
      /\ -n <= e.t /\ e.t <= n /\ e.t \in Int
      /\ InverseOf(e.t, e.r, n, a)
  BY <1>1, <1>4, <1>5, EuclidFinds DEF Locals
<1>7. Modulo(x, y) =
        IF a = 1 THEN Number(Rem(b, n), 1)
        ELSE IF e.r > 1 THEN Error
        ELSE Number(Rem(NonNegative(e.t, n) * b, n), 1)
  <2>1. Simplify(y).num = n /\ Simplify(y).den = 1 /\ y.num # 0
    BY <1>0, <1>1, NumberIs
  <2> QED
    BY <1>0, <1>3, <1>5, <2>1 DEF Modulo
<1> DEFINE Solved(r) == /\ r.den = 1 /\ Abs(r.num) < n
                        /\ (a * r.num - b) % n = 0
                        /\ r.num * b >= 0
<1>8. ASSUME NEW c \in Int, NEW m \in Int, a * c - b = n * m, (c >= 0 /\ b >= 0) \/ (c <= 0 /\ b <= 0)
      PROVE  Solved(Number(Rem(c, n), 1))
  <2>1. PICK q, r : q = Quot(c, n) /\ r = Rem(c, n)
    OBVIOUS
  <2>2. /\ q \in Int /\ r \in Int /\ c = n * q + r /\ Abs(r) < n
        /\ c >= 0 => r >= 0
        /\ c <= 0 => r <= 0
    BY <1>1, <2>1, QuotRem
  <2>3. (a * r - b) % n = 0
    <3>1. a * c = a * (n * q) + a * r
      BY <1>1, <1>4, <2>2
    <3>2. a * (n * q) = n * (a * q)
      BY <1>1, <1>4, <2>2
    <3>3. n * (m - a * q) = n * m - n * (a * q)
      BY <1>1, <1>4, <2>2
    <3>4. a * r \in Int /\ n * (a * q) \in Int /\ n * m \in Int /\ a * c \in Int /\ m - a * q \in Int
      BY <1>1, <1>4, <2>2
    <3>5. a * r - b = n * (m - a * q)
      BY <1>4, <1>8, <3>1, <3>2, <3>3, <3>4
    <3> QED
      BY <1>1, <3>4, <3>5, MultipleHasNoRest
  <2>4. r * b >= 0
    <3>1. CASE c >= 0 /\ b >= 0
      BY <1>4, <2>2, <3>1, SignsAgree
    <3>2. CASE c <= 0 /\ b <= 0
      BY <1>4, <2>2, <3>2, SignsAgree
    <3> QED
      BY <1>8, <3>1, <3>2
  <2> QED
    BY <2>1, <2>2, <2>3, <2>4, NumberIs
<1> HIDE DEF Solved
<1>9. CASE a = 1
  <2>1. GCD(a, n) = 1
    <3>1. 1 \in Int /\ 1 \in Positive /\ 1 \in NotZero
      BY DEF Positive, NotZero
    <3>2. GCD(1, n) \in Positive /\ Divides(GCD(1, n), 1)
      BY <1>1, <3>1, GCDIs
    <3>3. GCD(1, n) <= Abs(1)
      BY <3>1, <3>2, DivisorIsLess
    <3> QED
      BY <1>9, <3>2, <3>3 DEF Abs, Positive
  <2>2. a * b - b = n * 0 /\ 0 \in Int
    BY <1>1, <1>4, <1>9
  <2>3. (b >= 0 /\ b >= 0) \/ (b <= 0 /\ b <= 0)
    BY <1>4
  <2>4. Solved(Number(Rem(b, n), 1))
    BY <1>4, <1>8, <2>2, <2>3
  <2> QED
    BY <1>0, <1>3, <1>7, <1>9, <2>1, <2>4 DEF Solved
<1>10. CASE a # 1 /\ e.r # 1
  <2>1. e.r > 1
    BY <1>6, <1>10 DEF Positive
  <2> QED
    BY <1>0, <1>3, <1>6, <1>7, <1>10, <2>1
<1>11. CASE a # 1 /\ e.r = 1
  <2>1. PICK t : t = NonNegative(e.t, n)
    OBVIOUS
  <2>2. t \in Int /\ t >= 0 /\ (t = e.t \/ t = e.t + n)
    BY <1>1, <1>6, <2>1 DEF NonNegative
  <2>3. PICK i \in Int : e.t * a = 1 + n * i
    BY <1>6, <1>11 DEF InverseOf
  <2>4. \E j \in Int : a * t = 1 + n * j
    <3>1. CASE t = e.t
      BY <1>4, <1>6, <2>3, <3>1
    <3>2. CASE t = e.t + n
      <4>1. a * t = e.t * a + n * a
        BY <1>1, <1>4, <1>6, <3>2
      <4>2. n * i + n * a = n * (i + a) /\ i + a \in Int /\ n * i \in Int /\ n * a \in Int
        BY <1>1, <1>4, <2>3
      <4>3. a * t = 1 + n * (i + a)
        BY <2>3, <4>1, <4>2
      <4> QED
        BY <4>2, <4>3
    <3> QED
      BY <2>2, <3>1, <3>2
  <2>5. PICK j \in Int : a * t = 1 + n * j
    BY <2>4
  <2>6. t * b \in Int /\ j * b \in Int
    BY <1>4, <2>2
  <2>7. a * (t * b) - b = n * (j * b)
    <3>1. a * (t * b) = (a * t) * b
      BY <1>4, <2>2
    <3>2. (1 + n * j) * b = b + n * (j * b)
      <4>1. n * j \in Int /\ (n * j) * b = n * (j * b)
        BY <1>1, <1>4
      <4>2. (1 + n * j) * b = 1 * b + (n * j) * b
        BY <1>4, <4>1
      <4> QED
        BY <1>4, <4>1, <4>2
    <3>3. n * (j * b) \in Int
      BY <1>1, <2>6
    <3> QED
      BY <1>4, <2>5, <3>1, <3>2, <3>3
  <2>8. (t * b >= 0 /\ b >= 0) \/ (t * b <= 0 /\ b <= 0)
    <3>1. CASE b >= 0
      <4>1. t * b >= 0
        BY <1>4, <2>2, <3>1, SignsAgree
      <4> QED
        BY <3>1, <4>1
    <3>2. CASE b <= 0
      <4>1. t * b <= 0
        BY <1>4, <2>2, <3>2, SignsAgree
      <4> QED
        BY <3>2, <4>1
    <3> QED
      BY <1>4, <3>1, <3>2
  <2>9. Solved(Number(Rem(t * b, n), 1))
    BY <1>8, <2>6, <2>7, <2>8
  <2>10. ~(e.r > 1)
    BY <1>11
  <2> QED
    BY <1>0, <1>3, <1>6, <1>7, <1>11, <2>1, <2>9, <2>10 DEF Solved
<1> QED
  BY <1>9, <1>10, <1>11

---------------------------------------------------------------------------
(* What is folded, and what is flattened.                                  *)

Rest(s) == IF s = {} THEN s ELSE s \ {Max(s)}

\* The last place of some.
LEMMA LastPlace ==
  ASSUME NEW n \in Nat, NEW S \in SUBSET (1 .. n), S # {}
  PROVE  Max(S) \in S /\ \A k \in S : k <= Max(S)
<1> DEFINE max == Max(S)
<1>1. S \in SUBSET (0 .. n) /\ S \in SUBSET Int
  OBVIOUS
<1>2. PICK m \in S : \A k \in S : m >= k
  BY <1>1, Largest
<1>3. max \in S /\ \A k \in S : max >= k
  BY <1>2, Zenon DEF Max
<1> HIDE DEF max
<1>4. \A k \in S : k <= max
  BY <1>1, <1>3
<1> QED
  BY <1>3, <1>4 DEF max

LEMMA PlacesFall ==
  ASSUME NEW T, NEW seq \in Seq(T)
  PROVE  LET D == SUBSET DOMAIN seq
         IN  /\ Falls(D, [s \in D |-> Cardinality(s)], [s \in D |-> Rest(s)], {{}})
             /\ \A s \in D : s # {} => /\ Rest(s) = s \ {Max(s)} /\ Rest(s) \in D
                                       /\ Max(s) \in DOMAIN seq /\ seq[Max(s)] \in T
<1> DEFINE D == SUBSET DOMAIN seq
<1>0. DOMAIN seq = 1 .. Len(seq) /\ Len(seq) \in Nat /\ IsFiniteSet(DOMAIN seq)
  BY FS_Interval
<1>1. ASSUME NEW s \in D, s # {}
      PROVE  /\ Max(s) \in s /\ s \ {Max(s)} \in D
             /\ Cardinality(s \ {Max(s)}) \in Nat /\ Cardinality(s \ {Max(s)}) < Cardinality(s)
  <2>1. s \in SUBSET Int /\ IsFiniteSet(s)
    BY <1>0, FS_Subset
  <2>2. Max(s) \in s
    BY <1>0, <1>1, LastPlace
  <2>3. Cardinality(s) \in Nat /\ Cardinality(s \ {Max(s)}) \in Nat
        /\ Cardinality(s \ {Max(s)}) = Cardinality(s) - 1
    BY <2>1, <2>2, FS_RemoveElement, FS_CardinalityType
  <2> QED
    BY <2>2, <2>3
<1>2. \A s \in D : Cardinality(s) \in Nat
  BY <1>0, FS_Subset, FS_CardinalityType
<1>3. ASSUME NEW s \in D, s # {}
      PROVE  /\ Rest(s) = s \ {Max(s)} /\ Rest(s) \in D /\ Cardinality(Rest(s)) < Cardinality(s)
             /\ Max(s) \in DOMAIN seq /\ seq[Max(s)] \in T
  <2>1. Max(s) \in DOMAIN seq
    BY <1>1, <1>3
  <2>2. seq[Max(s)] \in T
    BY <2>1
  <2>3. Rest(s) = s \ {Max(s)}
    BY <1>3 DEF Rest
  <2> HIDE DEF D
  <2> QED
    BY <1>1, <1>3, <2>1, <2>2, <2>3
<1>4. \A s \in D : Rest(s) \in D
  BY <1>3 DEF Rest
<1>5. Falls(D, [s \in D |-> Cardinality(s)], [s \in D |-> Rest(s)], {{}})
  <2> HIDE DEF D
  <2> QED
    BY <1>2, <1>3, <1>4 DEF Falls
<1> QED
  BY <1>3, <1>5

(* A fold of a sequence, of which each step stays in V.                     *)
Folds(f, seq, V, base, step) ==
  /\ f \in [SUBSET DOMAIN seq -> V]
  /\ \A s \in SUBSET DOMAIN seq :
       f[s] = IF s = {} THEN base ELSE step[seq[Max(s)]][f[s \ {Max(s)}]]

LEMMA Folded ==
  ASSUME NEW T, NEW seq \in Seq(T), NEW V, NEW base \in V, NEW step \in [T -> [V -> V]]
  PROVE  \E f : Folds(f, seq, V, base, step)
<1> DEFINE D == SUBSET DOMAIN seq
           down == [s \in D |-> Rest(s)]
           first == [s \in D |-> base]
           next == [s \in D |-> IF s = {} THEN [v \in V |-> v] ELSE step[seq[Max(s)]]]
<1>1. Falls(D, [s \in D |-> Cardinality(s)], down, {{}})
  BY PlacesFall
<1>2. \A s \in D : s # {} => Rest(s) = s \ {Max(s)} /\ Rest(s) \in D /\ seq[Max(s)] \in T
  BY PlacesFall
<1>3. first \in [D -> V] /\ next \in [D -> [V -> V]]
  BY <1>2
<1>4. PICK f : Recurs(f, D, down, {{}}, V, first, next)
  <2> HIDE DEF D, down, first, next
  <2> QED
    BY <1>1, <1>3, Recursion, Zenon
<1>5. f \in [D -> V] /\ \A s \in D : f[s] = IF s \in {{}} THEN first[s] ELSE next[s][f[down[s]]]
  BY <1>4, Zenon DEF Recurs
<1>6. ASSUME NEW s \in D
      PROVE  f[s] = IF s = {} THEN base ELSE step[seq[Max(s)]][f[s \ {Max(s)}]]
  <2>1. CASE s = {}
    BY <1>5, <2>1
  <2>2. CASE s # {}
    <3>1. down[s] = s \ {Max(s)} /\ next[s] = step[seq[Max(s)]]
      BY <1>2, <2>2
    <3> HIDE DEF down, next, first, D
    <3> QED
      BY <1>5, <2>2, <3>1
  <2> QED
    BY <2>1, <2>2
<1> QED
  BY <1>5, <1>6 DEF Folds

LEMMA FoldStays ==
  ASSUME NEW T, NEW seq \in Seq(T), NEW V, NEW f,
         f[{}] \in V,
         \A s \in SUBSET DOMAIN seq :
           s # {} /\ seq[Max(s)] \in T /\ f[s \ {Max(s)}] \in V => f[s] \in V
  PROVE  f[DOMAIN seq] \in V
<1> DEFINE D == SUBSET DOMAIN seq
           P == {s \in D : f[s] \in V}
           down == [s \in D |-> Rest(s)]
           size == [s \in D |-> Cardinality(s)]
<1>1. Falls(D, size, down, {{}})
  BY PlacesFall
<1>2. \A s \in D : s # {} => Rest(s) = s \ {Max(s)} /\ Rest(s) \in D /\ seq[Max(s)] \in T
  BY PlacesFall
<1>3. Inherits(P, D, down, {{}})
  <2>1. ASSUME NEW s \in D, s \in {{}} \/ down[s] \in P
        PROVE  s \in P
    <3>1. CASE s = {}
      BY <3>1
    <3>2. CASE s # {}
      <4>1. f[s \ {Max(s)}] \in V /\ seq[Max(s)] \in T
        BY <1>2, <2>1, <3>2
      <4> QED
        BY <3>2, <4>1
    <3> QED
      BY <3>1, <3>2
  <2> HIDE DEF D, P, down
  <2> QED
    BY <2>1 DEF Inherits
<1>4. D \subseteq P
  <2> HIDE DEF D, P, down, size
  <2> QED
    BY <1>1, <1>3, Descent, Zenon
<1> QED
  BY <1>4

(* What is flattened, sequence by sequence.                               *)
Flattens(F, seqs, S) ==
  /\ F \in [0 .. Len(seqs) -> Seq(S)] /\ F[0] = <<>>
  /\ \A i \in 1 .. Len(seqs) : F[i] = F[i - 1] \o seqs[i]

\* The recursion has a solution.
LEMMA FlattenGoesOn ==
  ASSUME NEW S, NEW seqs \in Seq(Seq(S))
  PROVE  \E F : Flattens(F, seqs, S) /\ FlattenSeq(seqs) = F[Len(seqs)]
<1>1. CASE Len(seqs) = 0
  <2>1. seqs = <<>> /\ FlattenSeq(seqs) = seqs
    BY <1>1 DEF FlattenSeq
  <2>2. <<>> \in Seq(S)
    OBVIOUS
  <2> DEFINE F == [i \in 0 .. Len(seqs) |-> <<>>]
  <2>3. Flattens(F, seqs, S) /\ F[Len(seqs)] = <<>>
    BY <1>1, <2>2 DEF Flattens
  <2> QED
    BY <2>1, <2>3
<1>2. CASE Len(seqs) # 0
  <2> DEFINE D == 1 .. Len(seqs)
             m == [i \in D |-> i]
             down == [i \in D |-> IF i = 1 THEN 1 ELSE i - 1]
             step == [i \in D |-> [s \in Seq(S) |-> s \o seqs[i]]]
             flatten[i \in 1 .. Len(seqs)] == IF i = 1 THEN seqs[i] ELSE flatten[i - 1] \o seqs[i]
  <2>0. Len(seqs) \in Nat /\ Len(seqs) \in D /\ seqs \in [D -> Seq(S)]
    BY <1>2
  <2>1. Falls(D, m, down, {1})
    <3>1. m \in [D -> Nat] /\ down \in [D -> D]
      BY <2>0
    <3>2. \A i \in D \ {1} : m[down[i]] < m[i]
      BY <2>0
    <3> HIDE DEF D, m, down
    <3> QED
      BY <3>1, <3>2 DEF Falls
  <2>2. step \in [D -> [Seq(S) -> Seq(S)]]
    BY <2>0
  <2>3. PICK f : Recurs(f, D, down, {1}, Seq(S), seqs, step)
    <3> HIDE DEF D, m, down, step
    <3> QED
      BY <2>0, <2>1, <2>2, Recursion, Zenon
  <2>4. f \in [D -> Seq(S)] /\ \A i \in D : f[i] = IF i \in {1} THEN seqs[i] ELSE step[i][f[down[i]]]
    BY <2>3, Zenon DEF Recurs
  <2>5. ASSUME NEW i \in D
        PROVE  f[i] = IF i = 1 THEN seqs[i] ELSE f[i - 1] \o seqs[i]
    <3>1. CASE i = 1
      BY <2>4, <3>1
    <3>2. CASE i # 1
      <4>1. down[i] = i - 1 /\ i - 1 \in D
        BY <2>0, <3>2
      <4>2. step[i][f[i - 1]] = f[i - 1] \o seqs[i]
        BY <2>4, <4>1
      <4> HIDE DEF step, down, D
      <4> QED
        BY <2>4, <3>2, <4>1, <4>2
    <3> QED
      BY <3>1, <3>2
  <2>6. f = [i \in 1 .. Len(seqs) |-> IF i = 1 THEN seqs[i] ELSE f[i - 1] \o seqs[i]]
    BY <2>4, <2>5
  <2>7. flatten = [i \in 1 .. Len(seqs) |-> IF i = 1 THEN seqs[i] ELSE flatten[i - 1] \o seqs[i]]
    BY <2>6, Zenon
  <2>8. FlattenSeq(seqs) = flatten[Len(seqs)]
    BY <1>2, Zenon DEF FlattenSeq
  <2> HIDE DEF flatten
  <2> DEFINE P == {i \in D : flatten[i] \in Seq(S)}
  <2>9. Inherits(P, D, down, {1})
    <3>1. ASSUME NEW i \in D, i \in {1} \/ down[i] \in P
          PROVE  i \in P
      <4>1. CASE i = 1
        BY <2>0, <2>7, <4>1
      <4>2. CASE i # 1
        <5>1. flatten[i - 1] \in Seq(S) /\ flatten[i] = flatten[i - 1] \o seqs[i]
          BY <2>7, <3>1, <4>2
        <5>2. seqs[i] \in Seq(S)
          BY <2>0
        <5>3. flatten[i - 1] \o seqs[i] \in Seq(S)
          <6> HIDE DEF P, D
          <6> QED
            BY <5>1, <5>2
        <5> QED
          BY <5>1, <5>3
      <4> QED
        BY <4>1, <4>2
    <3> HIDE DEF D, P, down
    <3> QED
      BY <3>1 DEF Inherits
  <2>10. D \subseteq P
    <3> HIDE DEF D, P, down, m
    <3> QED
      BY <2>1, <2>9, Descent, Zenon
  <2> DEFINE F == [i \in 0 .. Len(seqs) |-> IF i = 0 THEN <<>> ELSE flatten[i]]
  <2>11. F \in [0 .. Len(seqs) -> Seq(S)]
    <3>1. <<>> \in Seq(S)
      OBVIOUS
    <3> QED
      BY <2>0, <2>10, <3>1
  <2>12. ASSUME NEW i \in 1 .. Len(seqs)
         PROVE  F[i] = F[i - 1] \o seqs[i]
    <3>1. CASE i = 1
      <4>1. seqs[1] \in Seq(S) /\ F[1] = seqs[1] /\ F[0] = <<>>
        BY <2>0, <2>7
      <4> HIDE DEF F
      <4>2. <<>> \o seqs[1] = seqs[1] /\ i - 1 = 0
        BY <3>1, <4>1
      <4> QED
        BY <3>1, <4>1, <4>2
    <3>2. CASE i # 1
      <4>1. i \in D /\ i - 1 \in D /\ i \in 0 .. Len(seqs) /\ i - 1 \in 0 .. Len(seqs)
            /\ i # 0 /\ i - 1 # 0
        BY <2>0, <3>2
      <4>2. F[i] = flatten[i] /\ F[i - 1] = flatten[i - 1]
        BY <4>1
      <4> HIDE DEF F
      <4> QED
        BY <2>7, <3>2, <4>1, <4>2
    <3> QED
      BY <3>1, <3>2
  <2>13. F[0] = <<>> /\ F[Len(seqs)] = flatten[Len(seqs)]
    BY <1>2, <2>0
  <2> HIDE DEF F, D
  <2> QED
    BY <2>8, <2>11, <2>12, <2>13 DEF Flattens
<1> QED
  BY <1>1, <1>2

\* It is a sequence of what the sequences hold.
LEMMA FlattenIs ==
  ASSUME NEW S, NEW seqs \in Seq(Seq(S))
  PROVE  FlattenSeq(seqs) \in Seq(S)
<1>1. PICK F : Flattens(F, seqs, S) /\ FlattenSeq(seqs) = F[Len(seqs)]
  BY FlattenGoesOn
<1>2. Len(seqs) \in 0 .. Len(seqs)
  OBVIOUS
<1> QED
  BY <1>1, <1>2 DEF Flattens

\* Empty sequences add nothing.
AreEmpty(seqs, p, n) ==
  p \in 0 .. Len(seqs) /\ n \in p .. Len(seqs) /\ \A r \in p + 1 .. n : seqs[r] = <<>>

LEMMA FlattenSkips ==
  ASSUME NEW S, NEW seqs, seqs \in Seq(Seq(S)), NEW F, Flattens(F, seqs, S),
         NEW p, NEW n, AreEmpty(seqs, p, n)
  PROVE  F[n] = F[p]
<1> DEFINE Wrong == {k \in p .. n : F[k] # F[p]}
<1>0. \A r \in p + 1 .. n : seqs[r] = <<>>
  BY Zenon DEF AreEmpty
<1>1. Len(seqs) \in Nat /\ p \in Nat /\ n \in Nat /\ p <= n /\ n <= Len(seqs)
  BY DEF AreEmpty
<1>2. ASSUME Wrong # {}
      PROVE  FALSE
  <2>1. Wrong \in SUBSET Nat
    BY <1>1
  <2>2. PICK k \in Wrong : \A j \in Wrong : k <= j
    <3> HIDE DEF Wrong
    <3> QED
      BY <1>2, <2>1, Smallest
  <2>3. k \in p .. n /\ k # p /\ F[k] # F[p]
    OBVIOUS
  <2>4. k - 1 \in p .. n /\ ~(k <= k - 1) /\ k \in 1 .. Len(seqs) /\ k - 1 \in 0 .. Len(seqs)
    BY <1>1, <2>3
  <2>5. F[k - 1] = F[p]
    BY <2>2, <2>4
  <2>6. F[k] = F[k - 1] \o seqs[k] /\ F[k - 1] \in Seq(S)
    BY <2>4 DEF Flattens
  <2>7. seqs[k] = <<>>
    <3>1. k \in p + 1 .. n
      BY <1>1, <2>3
    <3> QED
      BY <1>0, <3>1
  <2>8. F[k - 1] \o <<>> = F[k - 1]
    BY <2>6
  <2> QED
    BY <2>3, <2>5, <2>6, <2>7, <2>8
<1>3. n \in p .. n
  BY <1>1
<1> QED
  BY <1>2, <1>3

---------------------------------------------------------------------------
(* Kinds of values.                                                        *)

Results == Fraction \cup {Crashed, Error} \cup AnyMusic
Values == Lowest \cup {Crashed, Error} \cup AnyMusic
Chord == Seq(Notes)

LEMMA Kinds ==
  /\ \A x \in Fraction : IsNumber(x) /\ ~IsMusic(x) /\ x # Other
  /\ \A x \in Lowest : IsNumber(x) /\ ~IsMusic(x) /\ x # Other
  /\ \A x \in {Crashed, Error} : ~IsNumber(x) /\ ~IsMusic(x)
  /\ \A x \in AnyMusic : IsMusic(x) /\ ~IsNumber(x)
  /\ \A s : ~IsMusic(List(s)) /\ ~IsNumber(List(s)) /\ List(s) # Other /\ List(s).list = s
  /\ ~IsMusic(Other) /\ ~IsNumber(Other)
<1>1. \A x \in Fraction : IsNumber(x) /\ ~IsMusic(x) /\ x # Other
  BY DEF Fraction, IsNumber, IsMusic, Other, Crashed, Error, Number
<1>6. \A x \in Lowest : IsNumber(x) /\ ~IsMusic(x) /\ x # Other
  BY <1>1, LowestIs, FractionIs
<1>2. \A x \in {Crashed, Error} : ~IsNumber(x) /\ ~IsMusic(x)
  BY DEF IsNumber, IsMusic, Crashed, Error, Number
<1>3. \A x \in AnyMusic : IsMusic(x) /\ ~IsNumber(x)
  BY DEF IsNumber, IsMusic, AnyMusic
<1>4. \A s : ~IsMusic(List(s)) /\ ~IsNumber(List(s)) /\ List(s) # Other /\ List(s).list = s
  BY DEF IsNumber, IsMusic, List, Other
<1>5. ~IsMusic(Other) /\ ~IsNumber(Other)
  BY DEF IsNumber, IsMusic, Other
<1> QED
  BY <1>1, <1>2, <1>3, <1>4, <1>5, <1>6

LEMMA MusicIs ==
  /\ \A c \in Seq(Chord) : Many(c) \in AnyMusic
  /\ \A c \in Chord : One(c) \in AnyMusic
  /\ \A m \in AnyMusic : /\ m.array \in BOOLEAN /\ m.chords \in Seq(Chord)
                         /\ m.array \/ Len(m.chords) = 1
  /\ \A m : m.array \in BOOLEAN /\ m.chords \in Seq(Chord) /\ (m.array \/ Len(m.chords) = 1)
            /\ m = [array |-> m.array, chords |-> m.chords] => m \in AnyMusic
<1> USE DEF Chord
<1>1. ASSUME NEW c \in Seq(Chord)
      PROVE  Many(c) \in AnyMusic
  BY DEF Many, AnyMusic
<1>2. ASSUME NEW c \in Chord
      PROVE  One(c) \in AnyMusic
  <2>1. <<c>> \in Seq(Chord) /\ Len(<<c>>) = 1
    OBVIOUS
  <2> QED
    BY <2>1 DEF One, AnyMusic
<1>3. ASSUME NEW m \in AnyMusic
      PROVE  m.array \in BOOLEAN /\ m.chords \in Seq(Chord) /\ (m.array \/ Len(m.chords) = 1)
  BY DEF AnyMusic
<1>4. ASSUME NEW m, m.array \in BOOLEAN, m.chords \in Seq(Chord), m.array \/ Len(m.chords) = 1,
             m = [array |-> m.array, chords |-> m.chords]
      PROVE  m \in AnyMusic
  BY <1>4 DEF AnyMusic
<1> QED
  BY <1>1, <1>2, <1>3, <1>4

LEMMA NoteIs ==
  ASSUME NEW b \in Int \cup {Unset}, NEW o \in Int \cup {Unset}, NEW l \in Lowest \cup {Unset}
  PROVE  Note(b, o, l) \in Notes
BY DEF Note, Notes

(* A change that makes notes of notes makes music of music.                 *)
LEMMA Changed ==
  ASSUME NEW m \in AnyMusic, NEW f \in [Notes -> Notes]
  PROVE  [m EXCEPT !.chords = [i \in DOMAIN @ |-> [j \in DOMAIN @[i] |-> f[@[i][j]]]]] \in AnyMusic
<1> DEFINE change(c) == [j \in DOMAIN c |-> f[c[j]]]
           chords == [i \in DOMAIN m.chords |-> change(m.chords[i])]
<1>1. m.chords \in Seq(Chord) /\ m.array \in BOOLEAN /\ (m.array \/ Len(m.chords) = 1)
      /\ m = [array |-> m.array, chords |-> m.chords]
  BY MusicIs DEF AnyMusic
<1>2. ASSUME NEW c \in Chord
      PROVE  change(c) \in Chord
  <2>1. Len(c) \in Nat /\ DOMAIN c = 1 .. Len(c) /\ \A j \in 1 .. Len(c) : c[j] \in Notes
    BY DEF Chord
  <2>2. change(c) \in [1 .. Len(c) -> Notes]
    BY <2>1
  <2> QED
    BY <2>1, <2>2 DEF Chord
<1>3. chords \in Seq(Chord) /\ Len(chords) = Len(m.chords)
  <2>1. Len(m.chords) \in Nat /\ DOMAIN m.chords = 1 .. Len(m.chords)
        /\ \A i \in 1 .. Len(m.chords) : m.chords[i] \in Chord
    BY <1>1
  <2>2. chords \in [1 .. Len(m.chords) -> Chord]
    BY <1>2, <2>1
  <2> HIDE DEF chords
  <2> QED
    BY <2>1, <2>2
<1>4. [m EXCEPT !.chords = [i \in DOMAIN @ |-> [j \in DOMAIN @[i] |-> f[@[i][j]]]]]
        = [array |-> m.array, chords |-> chords]
  <2>1. \A c : [m EXCEPT !.chords = c] = [array |-> m.array, chords |-> c]
    BY <1>1
  <2> QED
    BY <2>1, Zenon
<1> HIDE DEF chords
<1> QED
  BY <1>1, <1>3, <1>4 DEF AnyMusic, Chord

---------------------------------------------------------------------------
(* What each operation gives.                                              *)

LEMMA TransposedIsNote ==
  ASSUME NEW n \in Notes, NEW k \in Int
  PROVE  Transposed(n, k) \in Notes
<1>1. CASE n.base = Unset
  BY <1>1 DEF Transposed
<1>2. CASE n.base # Unset
  <2> DEFINE m == [n EXCEPT !.base = @ + k]
  <2>1. n.base \in Int /\ n.octave \in Int \cup {Unset} /\ n.length \in Lowest \cup {Unset}
    BY <1>2 DEF Notes
  <2>2. m \in Notes /\ m.base = n.base + k /\ m.base \in Int /\ m.octave = n.octave
    BY <2>1 DEF Notes
  <2>3. Transposed(n, k) = Simplify_Note(m)
    BY <1>2 DEF Transposed
  <2> HIDE DEF m
  <2>4. CASE Unset \in {m.base, m.octave}
    BY <2>2, <2>3, <2>4 DEF Simplify_Note
  <2>5. CASE Unset \notin {m.base, m.octave}
    <3> DEFINE b == m.base % 12
               o == Clamp(m.octave + Quot(m.base, 12), -1, 9)
    <3>1. m.octave \in Int
      BY <2>1, <2>2, <2>5
    <3>2. b \in Int /\ o \in Int
      <4>1. 12 \in NotZero /\ 12 \in Positive
        BY DEF NotZero, Positive
      <4>2. Quot(m.base, 12) \in Int /\ m.base % 12 \in Int
        BY <2>2, <4>1, QuotRem, Division
      <4> QED
        BY <3>1, <4>2 DEF Clamp
    <3>3. Simplify_Note(m) = [m EXCEPT !.base = b, !.octave = o]
      BY <2>5 DEF Simplify_Note
    <3> HIDE DEF b, o
    <3> QED
      BY <2>2, <2>3, <3>2, <3>3 DEF Notes
  <2> QED
    BY <2>4, <2>5
<1> QED
  BY <1>1, <1>2

LEMMA MoveIs ==
  ASSUME NEW op, NEW m \in AnyMusic, NEW by \in Fraction
  PROVE  Move(op, m, by) \in AnyMusic \cup {Crashed}
<1> DEFINE k == IF op = "up" THEN by.num ELSE -by.num
           f == [n \in Notes |-> Transposed(n, k)]
<1>1. k \in Int
  BY FractionIs
<1>2. f \in [Notes -> Notes]
  <2> HIDE DEF k
  <2> QED
    BY <1>1, TransposedIsNote
<1>3. EachNote(m, LAMBDA n : Transposed(n, k)) \in AnyMusic
  <2> HIDE DEF k
  <2>1. \A c \in Chord : [j \in DOMAIN c |-> f[c[j]]] = [j \in DOMAIN c |-> Transposed(c[j], k)]
    BY DEF Chord
  <2>2. [m EXCEPT !.chords = [i \in DOMAIN @ |-> [j \in DOMAIN @[i] |-> f[@[i][j]]]]]
          = [m EXCEPT !.chords = [i \in DOMAIN @ |-> [j \in DOMAIN @[i] |-> Transposed(@[i][j], k)]]]
    <3> DEFINE c == m.chords
               changed(i) == [j \in DOMAIN c[i] |-> Transposed(c[i][j], k)]
    <3>1. \A i \in DOMAIN c : [j \in DOMAIN c[i] |-> f[c[i][j]]] = changed(i)
      <4>1. \A i \in DOMAIN c : c[i] \in Chord
        BY MusicIs
      <4> HIDE DEF f, c
      <4> QED
        BY <2>1, <4>1
    <3>2. [i \in DOMAIN c |-> [j \in DOMAIN c[i] |-> f[c[i][j]]]] = [i \in DOMAIN c |-> changed(i)]
      <4> HIDE DEF f, c, changed
      <4> QED
        BY <3>1
    <3> HIDE DEF f
    <3> QED
      BY <3>2
  <2> HIDE DEF f
  <2> QED
    BY <1>2, <2>2, Changed DEF EachNote
<1> QED
  BY <1>3 DEF Move

LEMMA SetLenIs ==
  ASSUME NEW m \in AnyMusic, NEW length \in Lowest
  PROVE  Set_Len(m, length) \in AnyMusic
<1> DEFINE f == [n \in Notes |-> [n EXCEPT !.length = length]]
<1>1. f \in [Notes -> Notes]
  BY DEF Notes
<1>2. \A c \in Chord : [j \in DOMAIN c |-> f[c[j]]] = [j \in DOMAIN c |-> [c[j] EXCEPT !.length = length]]
  BY DEF Chord
<1>3. [m EXCEPT !.chords = [i \in DOMAIN @ |-> [j \in DOMAIN @[i] |-> f[@[i][j]]]]]
        = [m EXCEPT !.chords = [i \in DOMAIN @ |-> [j \in DOMAIN @[i] |-> [@[i][j] EXCEPT !.length = length]]]]
  <2> DEFINE c == m.chords
             changed(i) == [j \in DOMAIN c[i] |-> [c[i][j] EXCEPT !.length = length]]
  <2>1. \A i \in DOMAIN c : [j \in DOMAIN c[i] |-> f[c[i][j]]] = changed(i)
    <3>1. \A i \in DOMAIN c : c[i] \in Chord
      BY MusicIs
    <3> HIDE DEF f, c
    <3> QED
      BY <1>2, <3>1
  <2>2. [i \in DOMAIN c |-> [j \in DOMAIN c[i] |-> f[c[i][j]]]] = [i \in DOMAIN c |-> changed(i)]
    <3> HIDE DEF f, c, changed
    <3> QED
      BY <2>1
  <2> HIDE DEF f
  <2> QED
    BY <2>2
<1> HIDE DEF f
<1> QED
  BY <1>1, <1>3, Changed DEF Set_Len, EachNote

LEMMA SetOctIs ==
  ASSUME NEW m \in AnyMusic, NEW octave \in Proper
  PROVE  Set_Oct(m, octave) \in AnyMusic
<1> DEFINE o == ((Round(octave).num + 128) % 256) - 128
           f == [n \in Notes |-> [n EXCEPT !.octave = o]]
<1>1. o \in Int
  <2>1. Round(octave).num \in Int
    BY Rounded, FractionIs
  <2> QED
    BY <2>1
<1> HIDE DEF o
<1>2. f \in [Notes -> Notes]
  BY <1>1 DEF Notes
<1>3. \A c \in Chord : [j \in DOMAIN c |-> f[c[j]]] = [j \in DOMAIN c |-> [c[j] EXCEPT !.octave = o]]
  BY DEF Chord
<1>4. [m EXCEPT !.chords = [i \in DOMAIN @ |-> [j \in DOMAIN @[i] |-> f[@[i][j]]]]]
        = [m EXCEPT !.chords = [i \in DOMAIN @ |-> [j \in DOMAIN @[i] |-> [@[i][j] EXCEPT !.octave = o]]]]
  <2> DEFINE c == m.chords
             changed(i) == [j \in DOMAIN c[i] |-> [c[i][j] EXCEPT !.octave = o]]
  <2>1. \A i \in DOMAIN c : [j \in DOMAIN c[i] |-> f[c[i][j]]] = changed(i)
    <3>1. \A i \in DOMAIN c : c[i] \in Chord
      BY MusicIs
    <3> HIDE DEF f, c
    <3> QED
      BY <1>3, <3>1
  <2>2. [i \in DOMAIN c |-> [j \in DOMAIN c[i] |-> f[c[i][j]]]] = [i \in DOMAIN c |-> changed(i)]
    <3> HIDE DEF f, c, changed
    <3> QED
      BY <2>1
  <2> HIDE DEF f
  <2> QED
    BY <2>2
<1>5. [m EXCEPT !.chords = [i \in DOMAIN @ |-> [j \in DOMAIN @[i] |-> f[@[i][j]]]]] \in AnyMusic
  BY <1>2, Changed
<1> HIDE DEF f
<1>6. Set_Oct(m, octave)
        = [m EXCEPT !.chords = [i \in DOMAIN @ |-> [j \in DOMAIN @[i] |-> [@[i][j] EXCEPT !.octave = o]]]]
  BY Zenon DEF Set_Oct, EachNote, o
<1> QED
  BY <1>4, <1>5, <1>6

LEMMA RepeatIs ==
  ASSUME NEW m \in AnyMusic, NEW times \in Proper
  PROVE  Repeat(m, times) \in AnyMusic \cup {Crashed}
<1>1. PICK n : n = Floor(times).num
  OBVIOUS
<1>2. n \in Int
  BY <1>1, Rounded, FractionIs
<1>3. n >= 0 => [i \in 1 .. n |-> m.chords] \in Seq(Seq(Chord))
  <2>1. m.chords \in Seq(Chord)
    BY MusicIs
  <2> QED
    BY <1>2, <2>1
<1>4. n >= 0 => Many(FlattenSeq([i \in 1 .. n |-> m.chords])) \in AnyMusic
  BY <1>3, FlattenIs, MusicIs
<1>5. Repeat(m, times) = CASE n >= 0 -> Many(FlattenSeq([i \in 1 .. n |-> m.chords]))
                           [] n < 0 /\ m.chords = <<>> -> m
                           [] n < 0 /\ m.chords # <<>> -> Crashed
  BY <1>1 DEF Repeat
<1> QED
  BY <1>2, <1>4, <1>5

LEMMA JoinIs ==
  ASSUME NEW l \in AnyMusic, NEW r \in AnyMusic
  PROVE  Join(l, r) \in AnyMusic \cup {Error}
<1>0. l.array \in BOOLEAN /\ r.array \in BOOLEAN
  BY MusicIs
<1>1. CASE l.array # r.array
  <2>1. ~(l.array /\ r.array) /\ ~(~l.array /\ ~r.array)
    BY <1>0, <1>1
  <2>2. Join(l, r) = Error
    BY <1>1, <2>1, Zenon DEF Join
  <2> QED
    BY <2>2
<1>2. CASE l.array /\ r.array
  <2>1. l.chords \o r.chords \in Seq(Chord)
    BY MusicIs
  <2>2. Join(l, r) = Many(l.chords \o r.chords)
    BY <1>2 DEF Join
  <2> QED
    BY <2>1, <2>2, MusicIs
<1>3. CASE ~l.array /\ ~r.array
  <2>1. l.chords \in Seq(Chord) /\ Len(l.chords) = 1 /\ r.chords \in Seq(Chord) /\ Len(r.chords) = 1
    BY <1>3, MusicIs
  <2>2. l.chords[1] \in Chord /\ r.chords[1] \in Chord
    BY <2>1
  <2>3. l.chords[1] \o r.chords[1] \in Chord
    BY <2>2 DEF Chord
  <2>4. Join(l, r) = One(l.chords[1] \o r.chords[1])
    BY <1>3 DEF Join
  <2> QED
    BY <2>3, <2>4, MusicIs
<1> QED
  BY <1>0, <1>1, <1>2, <1>3

LEMMA MakeChordIs ==
  ASSUME NEW all \in Seq(Chord)
  PROVE  Make_Chord(all) \in AnyMusic
<1>1. PICK notes : notes = FlattenSeq(all)
  OBVIOUS
<1>2. notes \in Seq(Notes)
  BY <1>1, FlattenIs DEF Chord
<1> DEFINE parts == [i \in DOMAIN notes |-> IF notes[i].base = Unset THEN <<>> ELSE <<notes[i]>>]
<1>3. parts \in Seq(Seq(Notes))
  <2>1. Len(notes) \in Nat /\ DOMAIN notes = 1 .. Len(notes) /\ \A i \in 1 .. Len(notes) : notes[i] \in Notes
    BY <1>2
  <2>2. \A x \in Notes : <<x>> \in Seq(Notes)
    OBVIOUS
  <2>3. <<>> \in Seq(Notes)
    OBVIOUS
  <2>4. parts \in [1 .. Len(notes) -> Seq(Notes)]
    BY <2>1, <2>2, <2>3
  <2> HIDE DEF parts
  <2> QED
    BY <2>1, <2>4
<1>4. Make_Chord(all) = One(FlattenSeq(parts))
  BY <1>1 DEF Make_Chord
<1> HIDE DEF parts
<1> QED
  BY <1>3, <1>4, FlattenIs, MusicIs DEF Chord

LEMMA FillIs ==
  ASSUME NEW n \in Notes
  PROVE  Fill(n).length \in Proper
<1>1. Default.length \in Proper
  BY DEF Default, Number, Proper, Positive
<1>2. n.length \in Lowest \cup {Unset} /\ Fill(n).length = IF n.length = Unset THEN Default.length ELSE n.length
  BY DEF Fill, Notes
<1> QED
  BY <1>1, <1>2, LowestIs

LEMMA LongestIs ==
  ASSUME NEW chord \in Chord
  PROVE  Longest(chord) \in Proper
<1> DEFINE zero == Number(0, 1)
           Longer(length, n) == IF Less(length, Fill(n).length) THEN Fill(n).length ELSE length
           step == [n \in Notes |-> [v \in Proper |-> Longer(v, n)]]
           iter[s \in SUBSET DOMAIN chord] ==
             IF s = {} THEN zero ELSE Longer(iter[s \ {Max(s)}], chord[Max(s)])
<1>1. zero \in Proper /\ chord \in Seq(Notes)
  BY DEF Number, Proper, Positive, Chord
<1>2. \A n \in Notes, v \in Proper : Longer(v, n) \in Proper
  BY FillIs
<1>3. step \in [Notes -> [Proper -> Proper]]
  BY <1>2
<1>4. PICK h : Folds(h, chord, Proper, zero, step)
  <2> HIDE DEF zero, step
  <2> QED
    BY <1>1, <1>3, Folded, Zenon
<1>5. \A s \in SUBSET DOMAIN chord :
        s # {} => chord[Max(s)] \in Notes /\ s \ {Max(s)} \in SUBSET DOMAIN chord
  BY <1>1, PlacesFall
<1>6. ASSUME NEW s \in SUBSET DOMAIN chord
      PROVE  h[s] = IF s = {} THEN zero ELSE Longer(h[s \ {Max(s)}], chord[Max(s)])
  <2> HIDE DEF zero, Longer
  <2>1. CASE s = {}
    BY <1>4, <2>1 DEF Folds
  <2>2. CASE s # {}
    <3>1. h[s] = step[chord[Max(s)]][h[s \ {Max(s)}]]
      <4> HIDE DEF step
      <4> QED
        BY <1>4, <2>2 DEF Folds
    <3>2. chord[Max(s)] \in Notes /\ h[s \ {Max(s)}] \in Proper
      BY <1>4, <1>5, <2>2 DEF Folds
    <3> QED
      BY <2>2, <3>1, <3>2
  <2> QED
    BY <2>1, <2>2
<1>7. h = [s \in SUBSET DOMAIN chord |->
             IF s = {} THEN zero ELSE Longer(h[s \ {Max(s)}], chord[Max(s)])]
  <2> HIDE DEF zero, Longer, step
  <2> QED
    BY <1>4, <1>6 DEF Folds
<1>8. iter = [s \in SUBSET DOMAIN chord |->
                IF s = {} THEN zero ELSE Longer(iter[s \ {Max(s)}], chord[Max(s)])]
  <2> HIDE DEF zero, Longer
  <2> QED
    BY <1>7, Zenon
<1>9. Longest(chord) = iter[DOMAIN chord]
  BY Zenon DEF Longest, FoldLeft, MapThenFoldSet
<1> HIDE DEF iter, zero, Longer, step
<1>10. iter[{}] \in Proper
  BY <1>1, <1>8
<1>11. \A s \in SUBSET DOMAIN chord :
         s # {} /\ chord[Max(s)] \in Notes /\ iter[s \ {Max(s)}] \in Proper => iter[s] \in Proper
  BY <1>2, <1>8
<1>12. iter[DOMAIN chord] \in Proper
  BY <1>1, <1>10, <1>11, FoldStays, Zenon
<1> QED
  BY <1>9, <1>12

LEMMA DurationIs ==
  ASSUME NEW m \in AnyMusic
  PROVE  Duration(m) \in Proper \cup {Crashed}
<1> DEFINE zero == Number(0, 1)
           Total == Proper \cup {Crashed}
           Add(total, c) == IF total = Crashed THEN total ELSE Plus(total, Longest(c))
           step == [c \in Chord |-> [v \in Total |-> Add(v, c)]]
           chords == m.chords
           iter[s \in SUBSET DOMAIN chords] ==
             IF s = {} THEN zero ELSE Add(iter[s \ {Max(s)}], chords[Max(s)])
<1>1. zero \in Total /\ chords \in Seq(Chord)
  BY MusicIs DEF Number, Proper, Positive
<1>2. \A c \in Chord, v \in Total : Add(v, c) \in Total
  BY LongestIs, SumIsNumber, FractionIs
<1>3. step \in [Chord -> [Total -> Total]]
  BY <1>2
<1>4. PICK h : Folds(h, chords, Total, zero, step)
  <2> HIDE DEF zero, step, chords, Total
  <2> QED
    BY <1>1, <1>3, Folded, Zenon
<1>5. \A s \in SUBSET DOMAIN chords :
        s # {} => chords[Max(s)] \in Chord /\ s \ {Max(s)} \in SUBSET DOMAIN chords
  BY <1>1, PlacesFall
<1>6. ASSUME NEW s \in SUBSET DOMAIN chords
      PROVE  h[s] = IF s = {} THEN zero ELSE Add(h[s \ {Max(s)}], chords[Max(s)])
  <2> HIDE DEF zero, Add, chords, Total
  <2>1. CASE s = {}
    BY <1>4, <2>1 DEF Folds
  <2>2. CASE s # {}
    <3>1. h[s] = step[chords[Max(s)]][h[s \ {Max(s)}]]
      <4> HIDE DEF step, chords, Total
      <4> QED
        BY <1>4, <2>2 DEF Folds
    <3>2. chords[Max(s)] \in Chord /\ h[s \ {Max(s)}] \in Total
      BY <1>4, <1>5, <2>2 DEF Folds
    <3> QED
      BY <2>2, <3>1, <3>2
  <2> QED
    BY <2>1, <2>2
<1>7. h = [s \in SUBSET DOMAIN chords |->
             IF s = {} THEN zero ELSE Add(h[s \ {Max(s)}], chords[Max(s)])]
  <2> HIDE DEF zero, Add, chords, Total, step
  <2> QED
    BY <1>4, <1>6 DEF Folds
<1>8. iter = [s \in SUBSET DOMAIN chords |->
                IF s = {} THEN zero ELSE Add(iter[s \ {Max(s)}], chords[Max(s)])]
  <2> HIDE DEF zero, Add, chords, Total
  <2> QED
    BY <1>7, Zenon
<1>9. Duration(m) = iter[DOMAIN chords]
  BY Zenon DEF Duration, FoldLeft, MapThenFoldSet
<1> HIDE DEF iter, zero, Add, step, chords, Total
<1>10. iter[{}] \in Total
  BY <1>1, <1>8
<1>11. \A s \in SUBSET DOMAIN chords :
         s # {} /\ chords[Max(s)] \in Chord /\ iter[s \ {Max(s)}] \in Total => iter[s] \in Total
  BY <1>2, <1>8
<1>12. iter[DOMAIN chords] \in Total
  BY <1>1, <1>10, <1>11, FoldStays, Zenon
<1> QED
  BY <1>9, <1>12 DEF Total

---------------------------------------------------------------------------
(* Calls.                                                                  *)

Argument ==
  Lowest \cup {Other} \cup [list : Seq(Lowest \cup {Other})] \cup {m \in AnyMusic : ~m.array}
States ==
  [array : Seq(Chord), current : Seq(Chord) \ {<<>>},
   state : {"Waiting_For_Note", "Waiting_For_Length"}, ends : {"", "error", "crash"}]

LEMMA ArgumentsAre ==
  ASSUME NEW args \in Calls
  PROVE  args \in Seq(Argument)
<1>1. args \in Seq(ToSet(args)) /\ \A i \in DOMAIN args : IsArgument(args[i])
  BY MusicAssumption
<1>2. \A x : IsArgument(x) => x \in Argument
  BY DEF IsArgument, Argument
<1> QED
  BY <1>1, <1>2

LEMMA GoesRound ==
  ASSUME NEW T, NEW s \in Seq(T) \ {<<>>}, NEW i \in Nat \ {0}
  PROVE  s[((i - 1) % Len(s)) + 1] \in T
<1>1. Len(s) \in Positive
  BY DEF Positive
<1>2. i - 1 \in Int
  OBVIOUS
<1>3. (i - 1) % Len(s) \in Nat /\ (i - 1) % Len(s) < Len(s)
  BY <1>1, <1>2, Division
<1>4. ((i - 1) % Len(s)) + 1 \in 1 .. Len(s)
  BY <1>1, <1>3 DEF Positive
<1> QED
  BY <1>4

LEMMA NotEmpty ==
  ASSUME NEW T, NEW s \in Seq(T), Len(s) # 0
  PROVE  s \in Seq(T) \ {<<>>}
<1>1. Len(<<>>) = 0
  OBVIOUS
<1> QED
  BY <1>1

LEMMA WithLengthsIs ==
  ASSUME NEW current \in Seq(Chord) \ {<<>>}, NEW list \in Seq(Lowest \cup {Other}) \ {<<>>}
  PROVE  WithLengths(current, list) \in Seq(Chord) \ {<<>>}
<1> DEFINE size == IF Len(current) < Len(list) THEN Len(list) ELSE Len(current)
           chord(i) == current[((i - 1) % Len(current)) + 1]
           length(i) == list[((i - 1) % Len(list)) + 1]
           each(i) == IF IsNumber(length(i)) THEN WithLength(chord(i), length(i)) ELSE chord(i)
<1>1. size \in Nat \ {0}
  <2>1. Len(current) \in Nat \ {0} /\ Len(list) \in Nat
    OBVIOUS
  <2> QED
    BY <2>1
<1>2. ASSUME NEW c \in Chord, NEW l \in Lowest
      PROVE  WithLength(c, l) \in Chord
  <2>1. Len(c) \in Nat /\ DOMAIN c = 1 .. Len(c) /\ \A j \in 1 .. Len(c) : c[j] \in Notes
    BY DEF Chord
  <2>2. \A n \in Notes : [n EXCEPT !.length = l] \in Notes
    BY DEF Notes
  <2>3. WithLength(c, l) \in [1 .. Len(c) -> Notes]
    BY <2>1, <2>2 DEF WithLength
  <2>4. \A n \in Nat : \A f \in [1 .. n -> Notes] : f \in Seq(Notes)
    OBVIOUS
  <2> QED
    BY <2>1, <2>3, <2>4 DEF Chord
<1>3. ASSUME NEW i \in 1 .. size
      PROVE  each(i) \in Chord
  <2>1. i \in Nat \ {0}
    BY <1>1
  <2>2. chord(i) \in Chord /\ length(i) \in Lowest \cup {Other}
    BY <2>1, GoesRound
  <2>3. IsNumber(length(i)) => length(i) \in Lowest
    BY <2>2, Kinds
  <2> HIDE DEF chord, length
  <2> QED
    BY <1>2, <2>2, <2>3
<1>4. WithLengths(current, list) = [i \in 1 .. size |-> each(i)]
  BY DEF WithLengths
<1> HIDE DEF size, each
<1>5. [i \in 1 .. size |-> each(i)] \in Seq(Chord) /\ Len([i \in 1 .. size |-> each(i)]) = size
  BY <1>1, <1>3
<1> QED
  BY <1>1, <1>4, <1>5, NotEmpty

LEMMA TakeIs ==
  ASSUME NEW s \in States, NEW x \in Argument
  PROVE  Take(s, x) \in States
<1>0. s.array \in Seq(Chord) /\ s.current \in Seq(Chord) \ {<<>>} /\ s \in States
  BY DEF States
<1>1. CASE s.ends # ""
  BY <1>1 DEF Take
<1>2. CASE s.ends = "" /\ IsMusic(x)
  <2>1. x \in AnyMusic /\ ~x.array
    BY <1>2, Kinds DEF Argument, List, IsMusic
  <2>2. x.chords \in Seq(Chord) \ {<<>>}
    <3>1. x.chords \in Seq(Chord) /\ Len(x.chords) # 0
      BY <2>1, MusicIs
    <3> QED
      BY <3>1, NotEmpty, Zenon
  <2>3. s.array \o s.current \in Seq(Chord)
    BY <1>0
  <2>4. x # Other
    BY <2>1, Kinds
  <2>5. Take(s, x) = [s EXCEPT !.array = @ \o s.current, !.current = x.chords,
                               !.state = "Waiting_For_Length"]
    BY <1>2, <2>4 DEF Take
  <2> QED
    BY <1>0, <2>2, <2>3, <2>5 DEF States
<1>3. CASE s.ends = "" /\ ~IsMusic(x) /\ x = Other
  BY <1>3 DEF Take
<1>4. CASE s.ends = "" /\ ~IsMusic(x) /\ x # Other
  <2> DEFINE list == IF IsNumber(x) THEN <<x>> ELSE x.list
  <2>1. x \in Lowest \cup [list : Seq(Lowest \cup {Other})]
    BY <1>4, Kinds DEF Argument
  <2>2. Take(s, x) = IF s.state = "Waiting_For_Note" THEN [s EXCEPT !.ends = "error"]
                     ELSE IF x = List(<<>>) THEN [s EXCEPT !.ends = "crash"]
                     ELSE [s EXCEPT !.state = "Waiting_For_Note", !.current = WithLengths(@, list)]
    BY <1>4 DEF Take
  <2>3. ASSUME x # List(<<>>)
        PROVE  list \in Seq(Lowest \cup {Other}) \ {<<>>}
    <3>1. CASE x \in Lowest
      <4>1. IsNumber(x)
        BY <3>1, Kinds
      <4>2. <<x>> \in Seq(Lowest \cup {Other}) /\ <<x>> # <<>>
        BY <3>1
      <4> QED
        BY <4>1, <4>2
    <3>2. CASE x \in [list : Seq(Lowest \cup {Other})]
      <4>1. x = List(x.list) /\ x.list \in Seq(Lowest \cup {Other})
        BY <3>2 DEF List
      <4>2. ~IsNumber(x) /\ x.list # <<>>
        BY <2>3, <4>1, Kinds
      <4> QED
        BY <4>1, <4>2
    <3> QED
      BY <2>1, <3>1, <3>2
  <2> HIDE DEF list
  <2>4. x # List(<<>>) => WithLengths(s.current, list) \in Seq(Chord) \ {<<>>}
    BY <1>0, <2>3, WithLengthsIs
  <2> QED
    BY <1>0, <2>2, <2>4 DEF States
<1> QED
  BY <1>1, <1>2, <1>3, <1>4

\* How a call begins.
Begun(m) == [array |-> <<>>, current |-> m.chords, state |-> "Waiting_For_Length", ends |-> ""]

(* What is made of the first n arguments of a call.                         *)
Takes(t, m, args) ==
  /\ t \in [0 .. Len(args) -> States] /\ t[0] = Begun(m)
  /\ \A n \in 1 .. Len(args) : t[n] = Take(t[n - 1], args[n])

\* The arguments are taken one after the other.
LEMMA CallTakes ==
  ASSUME NEW m \in AnyMusic, ~m.array, NEW args \in Seq(Argument)
  PROVE  \E t : Takes(t, m, args) /\ FoldLeft(Take, Begun(m), args) = t[Len(args)]
<1> DEFINE start == Begun(m)
           step == [c \in Argument |-> [v \in States |-> Take(v, c)]]
           iter[s \in SUBSET DOMAIN args] ==
             IF s = {} THEN start ELSE Take(iter[s \ {Max(s)}], args[Max(s)])
<1>1. start \in States
  <2>1. m.chords \in Seq(Chord) /\ Len(m.chords) # 0
    <3>1. m.chords \in Seq(Chord) /\ Len(m.chords) = 1
      BY MusicIs, Zenon
    <3> QED
      BY <3>1
  <2>2. <<>> \in Seq(Chord)
    OBVIOUS
  <2>3. m.chords \in Seq(Chord) \ {<<>>}
    BY <2>1, NotEmpty, Zenon
  <2> QED
    BY <2>2, <2>3 DEF States, Begun
<1>2. \A c \in Argument, v \in States : Take(v, c) \in States
  BY TakeIs
<1>3. step \in [Argument -> [States -> States]]
  BY <1>2
<1>4. PICK h : Folds(h, args, States, start, step)
  <2> HIDE DEF start, step
  <2> QED
    BY <1>1, <1>3, Folded, Zenon
<1>5. \A s \in SUBSET DOMAIN args :
        s # {} => args[Max(s)] \in Argument /\ s \ {Max(s)} \in SUBSET DOMAIN args
  BY <1>1, PlacesFall
<1>6. ASSUME NEW s \in SUBSET DOMAIN args
      PROVE  h[s] = IF s = {} THEN start ELSE Take(h[s \ {Max(s)}], args[Max(s)])
  <2> HIDE DEF start
  <2>1. CASE s = {}
    BY <1>4, <2>1 DEF Folds
  <2>2. CASE s # {}
    <3>1. h[s] = step[args[Max(s)]][h[s \ {Max(s)}]]
      <4> HIDE DEF step
      <4> QED
        BY <1>4, <2>2 DEF Folds
    <3>2. args[Max(s)] \in Argument /\ h[s \ {Max(s)}] \in States
      BY <1>4, <1>5, <2>2 DEF Folds
    <3> QED
      BY <2>2, <3>1, <3>2
  <2> QED
    BY <2>1, <2>2
<1>7. h = [s \in SUBSET DOMAIN args |->
             IF s = {} THEN start ELSE Take(h[s \ {Max(s)}], args[Max(s)])]
  <2> HIDE DEF start, step
  <2> QED
    BY <1>4, <1>6 DEF Folds
<1>8. iter = [s \in SUBSET DOMAIN args |->
                IF s = {} THEN start ELSE Take(iter[s \ {Max(s)}], args[Max(s)])]
  <2> HIDE DEF start
  <2> QED
    BY <1>7, Zenon
<1>9. FoldLeft(Take, start, args) = iter[DOMAIN args]
  BY Zenon DEF FoldLeft, MapThenFoldSet
<1> HIDE DEF iter, step, start
<1>10. DOMAIN args = 1 .. Len(args) /\ Len(args) \in Nat
  OBVIOUS
<1> DEFINE t == [n \in 0 .. Len(args) |-> iter[1 .. n]]
<1>11. t[0] = start /\ t[Len(args)] = FoldLeft(Take, start, args)
  BY <1>8, <1>9, <1>10
<1>12. ASSUME NEW n \in 1 .. Len(args)
       PROVE  /\ t[n] = Take(t[n - 1], args[n])
              /\ t[n - 1] \in States => t[n] \in States
  <2>1. n \in Nat /\ (1 .. n) \in SUBSET DOMAIN args /\ n \in 1 .. n /\ n - 1 \in 0 .. Len(args)
    BY <1>10
  <2>2. PICK max : max = Max(1 .. n)
    OBVIOUS
  <2>3. max \in 1 .. n /\ \A k \in 1 .. n : k <= max
    <3>1. (1 .. n) \in SUBSET (1 .. n) /\ 1 .. n # {}
      BY <2>1
    <3> QED
      BY <2>1, <2>2, <3>1, LastPlace
  <2>4. max = n
    BY <2>1, <2>3
  <2>5. (1 .. n) \ {n} = 1 .. n - 1
    BY <2>1
  <2>6. iter[1 .. n] = Take(iter[1 .. n - 1], args[n])
    BY <1>8, <2>1, <2>2, <2>4, <2>5
  <2>7. args[n] \in Argument
    BY <1>10
  <2> QED
    BY <1>2, <1>10, <2>1, <2>6, <2>7
<1> HIDE DEF t
<1> DEFINE P == {n \in 0 .. Len(args) : t[n] \notin States}
<1>13. P = {}
  <2>1. ASSUME P # {}
        PROVE  FALSE
    <3>1. P \in SUBSET Nat
      BY <1>10
    <3>2. PICK n \in P : \A k \in P : n <= k
      <4> HIDE DEF P
      <4> QED
        BY <2>1, <3>1, Smallest
    <3>3. n \in 1 .. Len(args) /\ n \in Nat
      BY <1>1, <1>10, <1>11
    <3>4. n - 1 \in 0 .. Len(args) /\ ~(n <= n - 1)
      BY <1>10, <3>3
    <3>5. t[n - 1] \in States
      BY <3>2, <3>4
    <3> QED
      BY <1>12, <3>3, <3>5
  <2> QED
    BY <2>1
<1>14. Takes(t, m, args)
  <2>1. \A n \in 0 .. Len(args) : t[n] \in States
    BY <1>13
  <2>2. t \in [0 .. Len(args) -> States]
    BY <2>1 DEF t
  <2> QED
    BY <1>11, <1>12, <2>2 DEF Takes, start
<1> QED
  BY <1>11, <1>14 DEF start

LEMMA CallIs ==
  ASSUME NEW m \in AnyMusic, ~m.array, NEW args \in Calls
  PROVE  Call(m, args) \in AnyMusic \cup {Crashed, Error}
<1>1. args \in Seq(Argument)
  BY ArgumentsAre
<1>2. PICK t : Takes(t, m, args) /\ FoldLeft(Take, Begun(m), args) = t[Len(args)]
  BY <1>1, CallTakes
<1>3. PICK s \in States : s = FoldLeft(Take, Begun(m), args)
  <2>1. Len(args) \in 0 .. Len(args)
    BY <1>1
  <2> QED
    BY <1>2, <2>1 DEF Takes
<1>4. PICK all : all = s.array \o s.current
  OBVIOUS
<1>5. all \in Seq(Chord)
  <2>1. s.array \in Seq(Chord) /\ s.current \in Seq(Chord)
    BY DEF States
  <2>2. s.array \o s.current \in Seq(Chord)
    BY <2>1
  <2> QED
    BY <1>4, <2>2
<1>6. Call(m, args) = CASE s.ends = "error" -> Error
                        [] s.ends = "crash" -> Crashed
                        [] s.ends = "" -> IF Len(all) = 1 THEN One(all[1]) ELSE Many(all)
  BY <1>3, <1>4 DEF Call, Begun
<1>7. Len(all) = 1 => all[1] \in Chord
  BY <1>5
<1>8. s.ends \in {"", "error", "crash"}
  BY DEF States
<1> QED
  BY <1>5, <1>6, <1>7, <1>8, MusicIs

---------------------------------------------------------------------------
(* The lengths of a call go to the chords before them.                      *)

Lengths == Seq(Lowest \cup {Other})

ListOf(x) == IF IsNumber(x) THEN <<x>> ELSE x.list

Long(chord, l) == IF l = Other THEN chord ELSE [j \in DOMAIN chord |-> [chord[j] EXCEPT !.length = l]]
Longs(chord, list) == [i \in DOMAIN list |-> Long(chord, list[i])]

\* A chord, or lengths.
LEMMA ItemIs ==
  ASSUME NEW x \in Argument
  PROVE  /\ IsMusic(x) => /\ x \in AnyMusic /\ ~x.array /\ x.chords \in Seq(Chord) /\ Len(x.chords) = 1
                          /\ x.chords[1] \in Chord /\ x.chords = <<x.chords[1]>> /\ x # Other
         /\ IsLength(x) => /\ ListOf(x) \in Lengths
                           /\ x # List(<<>>) => ListOf(x) # <<>>
<1>1. ASSUME IsMusic(x)
      PROVE  /\ x \in AnyMusic /\ ~x.array /\ x.chords \in Seq(Chord) /\ Len(x.chords) = 1
             /\ x.chords[1] \in Chord /\ x.chords = <<x.chords[1]>> /\ x # Other
  <2>1. x \in AnyMusic /\ ~x.array
    BY <1>1, Kinds DEF Argument, List, IsMusic
  <2>2. x.chords \in Seq(Chord) /\ Len(x.chords) = 1
    BY <2>1, MusicIs
  <2>3. x.chords[1] \in Chord /\ x.chords = <<x.chords[1]>>
    BY <2>2
  <2> QED
    BY <2>1, <2>2, <2>3, Kinds
<1>2. ASSUME IsLength(x)
      PROVE  ListOf(x) \in Lengths /\ (x # List(<<>>) => ListOf(x) # <<>>)
  <2>1. x \in Lowest \cup [list : Seq(Lowest \cup {Other})]
    BY <1>2, Kinds DEF Argument, IsLength
  <2>2. CASE x \in Lowest
    <3>1. IsNumber(x)
      BY <2>2, Kinds
    <3>2. <<x>> \in Seq(Lowest \cup {Other}) /\ <<x>> # <<>>
      BY <2>2
    <3> QED
      BY <3>1, <3>2 DEF ListOf, Lengths
  <2>3. CASE x \in [list : Seq(Lowest \cup {Other})]
    <3>1. x = List(x.list) /\ x.list \in Seq(Lowest \cup {Other})
      BY <2>3 DEF List
    <3>2. ~IsNumber(x)
      BY <3>1, Kinds
    <3> QED
      BY <3>1, <3>2 DEF ListOf, Lengths
  <2> QED
    BY <2>1, <2>2, <2>3
<1> QED
  BY <1>1, <1>2

\* A chord with another length is a chord.
LEMMA LongIs ==
  ASSUME NEW chord \in Chord, NEW l \in Lowest \cup {Other}
  PROVE  /\ Long(chord, l) \in Chord
         /\ Long(chord, l) = IF IsNumber(l) THEN WithLength(chord, l) ELSE chord
<1>1. CASE l = Other
  BY <1>1, Kinds DEF Long
<1>2. CASE l \in Lowest
  <2>1. IsNumber(l) /\ l # Other
    BY <1>2, Kinds
  <2>2. Len(chord) \in Nat /\ DOMAIN chord = 1 .. Len(chord) /\ \A j \in 1 .. Len(chord) : chord[j] \in Notes
    BY DEF Chord
  <2>3. \A n \in Notes : [n EXCEPT !.length = l] \in Notes
    BY <1>2 DEF Notes
  <2>4. WithLength(chord, l) \in [1 .. Len(chord) -> Notes]
    BY <2>2, <2>3 DEF WithLength
  <2>5. WithLength(chord, l) \in Seq(Notes)
    BY <2>2, <2>4
  <2> QED
    BY <2>1, <2>5 DEF Long, WithLength, Chord
<1> QED
  BY <1>1, <1>2

\* One chord goes round as often as there are lengths.
LEMMA WithLengthsOfOne ==
  ASSUME NEW chord \in Chord, NEW list \in Lengths, list # <<>>
  PROVE  WithLengths(<<chord>>, list) = Longs(chord, list)
<1> DEFINE current == <<chord>>
           size == IF Len(current) < Len(list) THEN Len(list) ELSE Len(current)
           one(i) == current[((i - 1) % Len(current)) + 1]
           length(i) == list[((i - 1) % Len(list)) + 1]
           each(i) == IF IsNumber(length(i)) THEN WithLength(one(i), length(i)) ELSE one(i)
<1>1. Len(list) \in Nat \ {0} /\ DOMAIN list = 1 .. Len(list) /\ Len(current) = 1
  BY DEF Lengths
<1>2. size = Len(list)
  BY <1>1
<1>3. ASSUME NEW i \in 1 .. Len(list)
      PROVE  each(i) = Long(chord, list[i])
  <2>1. i - 1 \in Int /\ i - 1 \in Nat /\ i - 1 < Len(list)
    BY <1>1
  <2>2. (i - 1) % 1 = 0
    BY <2>1
  <2>3. (i - 1) % Len(list) = i - 1
    BY <1>1, <2>1
  <2>4. one(i) = chord /\ length(i) = list[i]
    BY <1>1, <2>1, <2>2, <2>3
  <2>5. list[i] \in Lowest \cup {Other}
    BY <1>1 DEF Lengths
  <2> HIDE DEF one, length
  <2> QED
    BY <2>4, <2>5, LongIs
<1>4. WithLengths(current, list) = [i \in 1 .. size |-> each(i)]
  BY DEF WithLengths
<1> HIDE DEF size, each
<1> QED
  BY <1>1, <1>2, <1>3, <1>4 DEF Longs

\* A chord with no lengths behind it, and with lengths at one place.
LEMMA LengthenedIs ==
  ASSUME NEW items \in Seq(Argument), NEW p \in DOMAIN items
  PROVE  /\ ~IsMusic(items[p]) => Lengthened(items, p) = <<>>
         /\ IsMusic(items[p]) /\ LengthsOf(items, p) = {} =>
              Lengthened(items, p) = <<items[p].chords[1]>>
         /\ IsMusic(items[p]) => \A q : LengthsOf(items, p) = {q} =>
              Lengthened(items, p) = Longs(items[p].chords[1], ListOf(items[q]))
         /\ Lengthened(items, p) \in Seq(Chord)
<1> DEFINE choice == CHOOSE q \in LengthsOf(items, p) : TRUE
           list == IF LengthsOf(items, p) = {} THEN <<Other>> ELSE ListOf(items[choice])
           chord == items[p].chords[1]
<1>1. IsMusic(items[p]) => Lengthened(items, p) = Longs(chord, list)
  BY DEF Lengthened, ListOf, Long, Longs
<1>2. ~IsMusic(items[p]) => Lengthened(items, p) = <<>>
  BY DEF Lengthened
<1>3. LengthsOf(items, p) # {} => choice \in LengthsOf(items, p)
  OBVIOUS
<1>4. \A q \in LengthsOf(items, p) : items[q] \in Argument /\ IsLength(items[q])
  <2>1. \A q \in p + 1 .. Len(items) : q \in DOMAIN items
    OBVIOUS
  <2> QED
    BY <2>1 DEF LengthsOf
<1> HIDE DEF choice
<1>5. list \in Lengths
  <2>1. <<Other>> \in Seq(Lowest \cup {Other})
    OBVIOUS
  <2> QED
    BY <1>3, <1>4, <2>1, ItemIs DEF Lengths
<1>6. ASSUME IsMusic(items[p]), LengthsOf(items, p) = {}
      PROVE  Lengthened(items, p) = <<items[p].chords[1]>>
  <2>1. list = <<Other>>
    BY <1>6
  <2>2. Longs(chord, list) = <<chord>>
    BY <2>1 DEF Long, Longs
  <2> QED
    BY <1>1, <1>6, <2>2
<1>7. ASSUME IsMusic(items[p]), NEW q, LengthsOf(items, p) = {q}
      PROVE  Lengthened(items, p) = Longs(items[p].chords[1], ListOf(items[q]))
  <2>1. choice = q
    BY <1>3, <1>7
  <2>2. list = ListOf(items[q])
    BY <1>7, <2>1
  <2> HIDE DEF list
  <2> QED
    BY <1>1, <1>7, <2>2
<1>8. Lengthened(items, p) \in Seq(Chord)
  <2>1. CASE IsMusic(items[p])
    <3>1. chord \in Chord
      BY <2>1, ItemIs
    <3>2. Len(list) \in Nat /\ DOMAIN list = 1 .. Len(list)
          /\ \A i \in 1 .. Len(list) : list[i] \in Lowest \cup {Other}
      <4> HIDE DEF list
      <4> QED
        BY <1>5 DEF Lengths
    <3> HIDE DEF list, chord
    <3>3. \A i \in 1 .. Len(list) : Long(chord, list[i]) \in Chord
      BY <3>1, <3>2, LongIs
    <3>4. [i \in 1 .. Len(list) |-> Long(chord, list[i])] \in Seq(Chord)
      BY <3>2, <3>3
    <3> QED
      BY <1>1, <2>1, <3>2, <3>4 DEF Longs
  <2>2. CASE ~IsMusic(items[p])
    BY <1>2, <2>2
  <2> QED
    BY <2>1, <2>2
<1> QED
  BY <1>2, <1>6, <1>7, <1>8

Empty(items) == \E p \in DOMAIN items : items[p] = List(<<>>)
Twice(items) ==
  \E p \in DOMAIN items : IsMusic(items[p]) /\ \E q, r \in LengthsOf(items, p) : q # r

Chunks(items) == [p \in DOMAIN items |-> Lengthened(items, p)]

(* Of the items up to k, p is the last chord; F is what comes of the first    *)
(* ones of them.                                                           *)
Waiting(items, k, p, s) ==
  \/ /\ s.state = "Waiting_For_Length" /\ s.current = <<items[p].chords[1]>>
     /\ \A r \in p + 1 .. k : ~IsLength(items[r])
  \/ /\ s.state = "Waiting_For_Note"
     /\ \E q \in p + 1 .. k :
          /\ IsLength(items[q]) /\ \A r \in p + 1 .. k : IsLength(items[r]) => r = q
          /\ s.current = Longs(items[p].chords[1], ListOf(items[q]))

Reading(items, F, k, p, s) ==
  /\ p \in 1 .. k /\ IsMusic(items[p]) /\ \A r \in p + 1 .. k : ~IsMusic(items[r])
  /\ s.array = F[p - 1]
  /\ \A o \in 1 .. p - 1 : IsMusic(items[o]) => \A q, r \in LengthsOf(items, o) : q = r
  /\ Waiting(items, k, p, s)

Read(items, F, k, s) ==
  \/ s.ends = "crash" /\ Empty(items)
  \/ s.ends = "error" /\ Twice(items)
  \/ s.ends = "" /\ \E p : Reading(items, F, k, p, s)

(* Behind item k nothing comes, or the next chord.                          *)
Known(items, k) == k = Len(items) \/ IsMusic(items[k + 1])

\* What comes of each item is a sequence of chords.
LEMMA ChunksAre ==
  ASSUME NEW items \in Seq(Argument)
  PROVE  Chunks(items) \in Seq(Seq(Chord)) /\ Len(Chunks(items)) = Len(items)
<1>1. DOMAIN items = 1 .. Len(items) /\ Len(items) \in Nat
  OBVIOUS
<1>2. \A p \in 1 .. Len(items) : Lengthened(items, p) \in Seq(Chord)
  BY <1>1, LengthenedIs
<1>3. Chunks(items) = [p \in 1 .. Len(items) |-> Lengthened(items, p)]
  BY <1>1 DEF Chunks
<1> QED
  BY <1>1, <1>2, <1>3

\* Where the next chord comes, or nothing more, the lengths of the last chord are known.
LEMMA ReadSoFar ==
  ASSUME NEW items \in Seq(Argument), NEW F, Flattens(F, Chunks(items), Chord),
         NEW k \in 1 .. Len(items), Known(items, k),
         NEW s, NEW p \in 1 .. k, Reading(items, F, k, p, s)
  PROVE  /\ s.array \o s.current = F[k]
         /\ \A o \in 1 .. k : IsMusic(items[o]) => \A q, r \in LengthsOf(items, o) : q = r
<1>0. /\ Len(items) \in Nat /\ DOMAIN items = 1 .. Len(items)
      /\ k \in Nat /\ k <= Len(items) /\ p \in Nat /\ 1 <= p /\ p <= k
      /\ p \in DOMAIN items /\ p \in 1 .. Len(items)
  OBVIOUS
<1>1. Chunks(items) \in Seq(Seq(Chord)) /\ Len(Chunks(items)) = Len(items)
  BY ChunksAre
<1>2. IsMusic(items[p]) /\ \A r \in p + 1 .. k : ~IsMusic(items[r])
  BY DEF Reading
<1>3. ASSUME NEW q
      PROVE  q \in LengthsOf(items, p) <=> q \in p + 1 .. k /\ IsLength(items[q])
  <2>1. ASSUME q \in p + 1 .. k, IsLength(items[q])
        PROVE  q \in LengthsOf(items, p)
    BY <1>0, <1>2, <2>1 DEF LengthsOf
  <2>2. ASSUME q \in LengthsOf(items, p)
        PROVE  q \in p + 1 .. k /\ IsLength(items[q])
    <3>1. q \in p + 1 .. Len(items) /\ IsLength(items[q]) /\ \A r \in p + 1 .. q : ~IsMusic(items[r])
      BY <2>2 DEF LengthsOf
    <3>2. q <= k
      <4>1. CASE k = Len(items)
        BY <1>0, <3>1, <4>1
      <4>2. CASE k # Len(items)
        <5>0. IsMusic(items[k + 1])
          BY <4>2 DEF Known
        <5>1. k + 1 \notin p + 1 .. q
          BY <3>1, <5>0
        <5> QED
          BY <1>0, <3>1, <5>1
      <4> QED
        BY <4>1, <4>2
    <3> QED
      BY <1>0, <3>1, <3>2
  <2> QED
    BY <2>1, <2>2
<1>4. s.current = Lengthened(items, p) /\ \A q, r \in LengthsOf(items, p) : q = r
  <2>1. CASE /\ s.current = <<items[p].chords[1]>>
             /\ \A r \in p + 1 .. k : ~IsLength(items[r])
    <3>1. LengthsOf(items, p) = {}
      BY <1>3, <2>1
    <3> QED
      BY <1>0, <1>2, <2>1, <3>1, LengthenedIs
  <2>2. ASSUME NEW q \in p + 1 .. k,
               IsLength(items[q]), \A r \in p + 1 .. k : IsLength(items[r]) => r = q,
               s.current = Longs(items[p].chords[1], ListOf(items[q]))
        PROVE  s.current = Lengthened(items, p) /\ \A o, r \in LengthsOf(items, p) : o = r
    <3>1. LengthsOf(items, p) = {q}
      BY <1>3, <2>2
    <3>2. Lengthened(items, p) = Longs(items[p].chords[1], ListOf(items[q]))
      BY <1>0, <1>2, <3>1, LengthenedIs
    <3>3. s.current = Lengthened(items, p)
      BY <2>2, <3>2, Zenon
    <3> QED
      BY <3>1, <3>3, Zenon
  <2> QED
    BY <2>1, <2>2 DEF Reading, Waiting
<1>5. F[p] = F[p - 1] \o Lengthened(items, p)
  BY <1>0, <1>1 DEF Flattens, Chunks
<1>6. F[k] = F[p]
  <2>1. \A r \in p + 1 .. k : Chunks(items)[r] = <<>>
    <3>1. ASSUME NEW r \in p + 1 .. k
          PROVE  Chunks(items)[r] = <<>>
      <4>1. r \in DOMAIN items /\ ~IsMusic(items[r])
        BY <1>0, <1>2
      <4> QED
        BY <4>1, LengthenedIs DEF Chunks
    <3> QED
      BY <3>1
  <2>2. p \in 0 .. Len(Chunks(items)) /\ k \in p .. Len(Chunks(items))
    BY <1>0, <1>1
  <2> QED
    <3>1. PICK chunks : chunks = Chunks(items)
      OBVIOUS
    <3>2. /\ chunks \in Seq(Seq(Chord)) /\ Flattens(F, chunks, Chord)
          /\ AreEmpty(chunks, p, k)
      BY <1>1, <2>1, <2>2, <3>1, Zenon DEF AreEmpty
    <3> QED
      BY <3>2, FlattenSkips
<1>7. s.array = F[p - 1] /\ \A o \in 1 .. p - 1 : IsMusic(items[o]) => \A q, r \in LengthsOf(items, o) : q = r
  BY DEF Reading
<1>8. ASSUME NEW o \in 1 .. k, IsMusic(items[o])
      PROVE  \A q, r \in LengthsOf(items, o) : q = r
  <2>1. o \in 1 .. p - 1 \/ o = p \/ o \in p + 1 .. k
    BY <1>0
  <2>2. CASE o \in 1 .. p - 1
    BY <1>7, <1>8, <2>2, Zenon
  <2>3. CASE o = p
    BY <1>4, <2>3, Zenon
  <2>4. CASE o \in p + 1 .. k
    BY <1>2, <1>8, <2>4, Zenon
  <2> QED
    BY <2>1, <2>2, <2>3, <2>4, Zenon
<1> QED
  BY <1>4, <1>5, <1>6, <1>7, <1>8

\* An argument more.
LEMMA ReadMore ==
  ASSUME NEW items \in Seq(Argument), NEW F, Flattens(F, Chunks(items), Chord),
         NEW k \in 1 .. Len(items), k + 1 \in 1 .. Len(items),
         NEW s \in States, Read(items, F, k, s)
  PROVE  Read(items, F, k + 1, Take(s, items[k + 1]))
<1> DEFINE x == items[k + 1]
           t == Take(s, x)
<1>0. /\ Len(items) \in Nat /\ DOMAIN items = 1 .. Len(items) /\ k \in Nat
      /\ x \in Argument /\ \A r \in 1 .. Len(items) : items[r] \in Argument
  OBVIOUS
<1>1. CASE s.ends # ""
  <2>1. t = s
    BY <1>1 DEF Take
  <2> QED
    BY <1>1, <2>1 DEF Read
<1>2. ASSUME s.ends = "", NEW p, Reading(items, F, k, p, s)
      PROVE  Read(items, F, k + 1, t)
  <2>0. /\ p \in 1 .. k /\ p \in Nat /\ IsMusic(items[p]) /\ \A r \in p + 1 .. k : ~IsMusic(items[r])
        /\ s.array = F[p - 1] /\ Waiting(items, k, p, s)
        /\ \A o \in 1 .. p - 1 : IsMusic(items[o]) => \A q, r \in LengthsOf(items, o) : q = r
    <3>1. p \in 1 .. k
      BY <1>2 DEF Reading
    <3>2. p \in Nat
      BY <1>0, <3>1
    <3> QED
      BY <1>2, <3>2, Zenon DEF Reading
  <2>01. p \in 1 .. k + 1 /\ \A r \in p + 1 .. k + 1 : r \in p + 1 .. k \/ r = k + 1
    BY <1>0, <2>0
  <2>1. CASE IsMusic(x)
    <3>1. x # Other /\ x.chords = <<x.chords[1]>>
      BY <1>0, <2>1, ItemIs
    <3>2. t = [s EXCEPT !.array = @ \o s.current, !.current = x.chords, !.state = "Waiting_For_Length"]
      BY <1>2, <2>1, <3>1 DEF Take
    <3>3. /\ s.array \o s.current = F[k]
          /\ \A o \in 1 .. k : IsMusic(items[o]) => \A q, r \in LengthsOf(items, o) : q = r
      <4>1. Known(items, k)
        BY <2>1 DEF Known
      <4> HIDE DEF x, t
      <4> QED
        BY <1>2, <2>0, <4>1, ReadSoFar
    <3>4. t.ends = "" /\ t.state = "Waiting_For_Length" /\ t.array = F[k] /\ t.current = <<x.chords[1]>>
      <4>1. PICK old : old = s.array \o s.current
        OBVIOUS
      <4>2. PICK new : new = x.chords
        OBVIOUS
      <4>3. t = [s EXCEPT !.array = old, !.current = new, !.state = "Waiting_For_Length"]
        BY <3>2, <4>1, <4>2
      <4> HIDE DEF t
      <4>4. t.ends = s.ends /\ t.state = "Waiting_For_Length" /\ t.array = old /\ t.current = new
        BY <4>3 DEF States
      <4>5. old = F[k] /\ new = <<x.chords[1]>>
        BY <3>1, <3>3, <4>1, <4>2, Zenon
      <4> QED
        BY <1>2, <4>4, <4>5, Zenon
    <3> HIDE DEF t
    <3>5. (k + 1) - 1 = k /\ k + 1 \in 1 .. k + 1 /\ \A r \in (k + 1) + 1 .. k + 1 : FALSE
      BY <1>0
    <3>6. Waiting(items, k + 1, k + 1, t)
      BY <3>4, <3>5 DEF Waiting
    <3>7. Reading(items, F, k + 1, k + 1, t)
      BY <2>1, <3>3, <3>4, <3>5, <3>6 DEF Reading
    <3> QED
      BY <3>4, <3>7 DEF Read
  <2>2. CASE ~IsMusic(x) /\ x = Other
    <3>1. t = s
      BY <2>2 DEF Take
    <3>2. ~IsLength(x)
      BY <2>2 DEF IsLength
    <3>3. Waiting(items, k + 1, p, s)
      <4>1. CASE /\ s.state = "Waiting_For_Length" /\ s.current = <<items[p].chords[1]>>
                 /\ \A r \in p + 1 .. k : ~IsLength(items[r])
        BY <2>01, <3>2, <4>1 DEF Waiting
      <4>2. ASSUME s.state = "Waiting_For_Note", NEW q \in p + 1 .. k,
                   IsLength(items[q]), \A r \in p + 1 .. k : IsLength(items[r]) => r = q,
                   s.current = Longs(items[p].chords[1], ListOf(items[q]))
            PROVE  Waiting(items, k + 1, p, s)
        <5>1. q \in p + 1 .. k + 1
          BY <1>0, <2>0
        <5>2. \A r \in p + 1 .. k + 1 : IsLength(items[r]) => r = q
          BY <2>01, <3>2, <4>2
        <5> QED
          BY <4>2, <5>1, <5>2 DEF Waiting
      <4> QED
        BY <2>0, <4>1, <4>2 DEF Waiting
    <3>4. Reading(items, F, k + 1, p, s)
      BY <2>0, <2>01, <2>2, <3>3 DEF Reading
    <3> HIDE DEF t
    <3> QED
      BY <1>2, <3>1, <3>4 DEF Read
  <2>3. CASE ~IsMusic(x) /\ x # Other
    <3>0. IsLength(x) /\ k + 1 \in p + 1 .. k + 1
      BY <1>0, <2>0, <2>3 DEF IsLength
    <3>1. t = IF s.state = "Waiting_For_Note" THEN [s EXCEPT !.ends = "error"]
              ELSE IF x = List(<<>>) THEN [s EXCEPT !.ends = "crash"]
              ELSE [s EXCEPT !.state = "Waiting_For_Note", !.current = WithLengths(@, ListOf(x))]
      BY <1>2, <2>3 DEF Take, ListOf
    <3>2. CASE s.state = "Waiting_For_Note"
      <4>1. t.ends = "error"
        BY <3>1, <3>2 DEF States
      <4>2. PICK q \in p + 1 .. k : IsLength(items[q])
        BY <2>0, <3>2 DEF Waiting
      <4>3. q # k + 1 /\ p \in DOMAIN items
        BY <1>0, <2>0
      <4>4. q \in LengthsOf(items, p) /\ k + 1 \in LengthsOf(items, p)
        <5>1. \A r \in p + 1 .. k + 1 : ~IsMusic(items[r])
          BY <2>0, <2>01, <2>3
        <5>2. q \in p + 1 .. Len(items) /\ k + 1 \in p + 1 .. Len(items)
              /\ \A r \in p + 1 .. q : r \in p + 1 .. k + 1
          BY <1>0, <2>0
        <5> QED
          BY <3>0, <4>2, <5>1, <5>2 DEF LengthsOf
      <4>5. Twice(items)
        BY <2>0, <4>3, <4>4 DEF Twice
      <4> HIDE DEF t
      <4> QED
        BY <4>1, <4>5 DEF Read
    <3>3. CASE s.state # "Waiting_For_Note" /\ x = List(<<>>)
      <4>1. t.ends = "crash"
        BY <3>1, <3>3 DEF States
      <4>2. Empty(items)
        BY <1>0, <3>3 DEF Empty
      <4> HIDE DEF t
      <4> QED
        BY <4>1, <4>2 DEF Read
    <3>4. CASE s.state # "Waiting_For_Note" /\ x # List(<<>>)
      <4>1. s.current = <<items[p].chords[1]>> /\ \A r \in p + 1 .. k : ~IsLength(items[r])
        BY <2>0, <3>4 DEF Waiting
      <4>2. PICK chord : chord = items[p].chords[1]
        OBVIOUS
      <4>3. chord \in Chord
        BY <1>0, <2>0, <4>2, ItemIs
      <4>4. ListOf(x) \in Lengths /\ ListOf(x) # <<>>
        BY <1>0, <3>0, <3>4, ItemIs
      <4>5. WithLengths(<<chord>>, ListOf(x)) = Longs(chord, ListOf(x))
        BY <4>3, <4>4, WithLengthsOfOne
      <4>6. t.ends = "" /\ t.state = "Waiting_For_Note" /\ t.array = s.array
            /\ t.current = Longs(chord, ListOf(x))
        <5>1. PICK new : new = WithLengths(s.current, ListOf(x))
          OBVIOUS
        <5>2. t = [s EXCEPT !.state = "Waiting_For_Note", !.current = new]
          BY <3>1, <3>4, <5>1
        <5>3. new = Longs(chord, ListOf(x))
          BY <4>1, <4>2, <4>5, <5>1, Zenon
        <5> HIDE DEF t
        <5>4. t.ends = s.ends /\ t.state = "Waiting_For_Note" /\ t.array = s.array /\ t.current = new
          BY <5>2 DEF States
        <5> QED
          BY <1>2, <5>3, <5>4, Zenon
      <4> HIDE DEF t
      <4>7. \A r \in p + 1 .. k + 1 : IsLength(items[r]) => r = k + 1
        BY <2>01, <4>1
      <4>8. Waiting(items, k + 1, p, t)
        BY <3>0, <4>2, <4>6, <4>7 DEF Waiting
      <4>9. Reading(items, F, k + 1, p, t)
        BY <2>0, <2>01, <2>3, <4>6, <4>8 DEF Reading
      <4> QED
        BY <4>6, <4>9 DEF Read
    <3> QED
      BY <3>2, <3>3, <3>4
  <2> QED
    BY <2>1, <2>2, <2>3
<1> QED
  BY <1>1, <1>2 DEF Read

\* A call reads all of its items.
LEMMA CallFollows ==
  ASSUME NEW m \in AnyMusic, ~m.array, NEW args \in Seq(Argument)
  PROVE  LengthsFollow(<<m>> \o args, Call(m, args))
<1>1. PICK items : items = <<m>> \o args
  OBVIOUS
<1>2. IsMusic(m) /\ m \in Argument /\ m.chords \in Seq(Chord) /\ Len(m.chords) = 1
  <2>1. IsMusic(m)
    BY Kinds, Zenon
  <2>2. m \in Argument
    BY DEF Argument
  <2> QED
    BY <2>1, <2>2, ItemIs, Zenon
<1>3. /\ items \in Seq(Argument) /\ Len(items) = Len(args) + 1 /\ items[1] = m
      /\ Len(args) \in Nat /\ \A n \in 1 .. Len(args) : items[n + 1] = args[n]
  <2>1. <<m>> \in Seq(Argument)
    BY <1>2
  <2> QED
    BY <1>1, <2>1
<1>4. PICK F : Flattens(F, Chunks(items), Chord) /\ FlattenSeq(Chunks(items)) = F[Len(items)]
  <2>1. Chunks(items) \in Seq(Seq(Chord)) /\ Len(Chunks(items)) = Len(items)
    BY <1>3, ChunksAre
  <2> QED
    BY <2>1, FlattenGoesOn
<1>5. PICK t : Takes(t, m, args) /\ FoldLeft(Take, Begun(m), args) = t[Len(args)]
  BY CallTakes
<1>6. /\ \A n \in 0 .. Len(args) : t[n] \in States
      /\ t[0] = Begun(m) /\ \A n \in 1 .. Len(args) : t[n] = Take(t[n - 1], args[n])
  BY <1>5 DEF Takes
<1>7. Read(items, F, 1, t[0])
  <2>1. 1 \in 1 .. 1 /\ 1 - 1 = 0 /\ \A r \in 1 + 1 .. 1 : FALSE
    OBVIOUS
  <2>2. F[0] = <<>>
    BY <1>4 DEF Flattens
  <2>3. /\ t[0].ends = "" /\ t[0].state = "Waiting_For_Length" /\ t[0].array = <<>>
        /\ t[0].current = <<items[1].chords[1]>>
    <3>1. PICK b : b = t[0]
      OBVIOUS
    <3>2. b = [array |-> <<>>, current |-> m.chords, state |-> "Waiting_For_Length", ends |-> ""]
      BY <1>6, <3>1, Zenon DEF Begun
    <3>3. m.chords = <<m.chords[1]>>
      BY <1>2
    <3>4. /\ b.ends = "" /\ b.state = "Waiting_For_Length" /\ b.array = <<>>
          /\ b.current = m.chords
      BY <3>2
    <3> QED
      BY <1>3, <3>1, <3>3, <3>4
  <2>4. Waiting(items, 1, 1, t[0])
    BY <2>1, <2>3 DEF Waiting
  <2>5. Reading(items, F, 1, 1, t[0])
    <3>1. IsMusic(items[1]) /\ \A o \in 1 .. 1 - 1 : FALSE
      BY <1>2, <1>3
    <3>2. t[0].array = F[1 - 1]
      BY <2>1, <2>2, <2>3
    <3> QED
      BY <2>1, <2>4, <3>1, <3>2, Zenon DEF Reading
  <2> QED
    BY <2>3, <2>5 DEF Read
<1> DEFINE Wrong == {n \in 0 .. Len(args) : ~Read(items, F, n + 1, t[n])}
<1>8. Wrong = {}
  <2>1. ASSUME Wrong # {}
        PROVE  FALSE
    <3>1. Wrong \in SUBSET Nat
      BY <1>3
    <3>2. PICK n \in Wrong : \A k \in Wrong : n <= k
      <4> HIDE DEF Wrong
      <4> QED
        BY <2>1, <3>1, Smallest
    <3>3. n \in 0 .. Len(args) /\ n \in Nat /\ ~Read(items, F, n + 1, t[n]) /\ n # 0
      BY <1>7
    <3>4. n - 1 \in 0 .. Len(args) /\ ~(n <= n - 1) /\ (n - 1) + 1 = n /\ n \in 1 .. Len(args)
      BY <1>3, <3>3
    <3>5. Read(items, F, n, t[n - 1])
      BY <3>2, <3>4
    <3>6. n \in 1 .. Len(items) /\ n + 1 \in 1 .. Len(items) /\ t[n - 1] \in States
      BY <1>3, <1>6, <3>3, <3>4
    <3>7. t[n] = Take(t[n - 1], items[n + 1])
      BY <1>3, <1>6, <3>4
    <3>8. Read(items, F, n + 1, t[n])
      BY <1>3, <1>4, <3>5, <3>6, <3>7, ReadMore
    <3> QED
      BY <3>3, <3>8
  <2> QED
    BY <2>1
<1>9. PICK s \in States : s = t[Len(args)] /\ Read(items, F, Len(items), s)
  <2>1. Len(args) \in 0 .. Len(args) /\ Len(args) + 1 = Len(items)
    BY <1>3
  <2> QED
    BY <1>6, <1>8, <2>1
<1>10. Call(m, args) = CASE s.ends = "error" -> Error
                         [] s.ends = "crash" -> Crashed
                         [] s.ends = "" ->
                              IF Len(s.array \o s.current) = 1 THEN One((s.array \o s.current)[1])
                              ELSE Many(s.array \o s.current)
  BY <1>5, <1>9 DEF Call, Begun
<1>11. LengthsFollow(items, Call(m, args)) <=>
         \/ Call(m, args) = Crashed /\ Empty(items)
         \/ Call(m, args) = Error /\ Twice(items)
         \/ /\ ~Twice(items)
            /\ Call(m, args) = IF Len(F[Len(items)]) = 1 THEN One(F[Len(items)][1])
                               ELSE Many(F[Len(items)])
  BY <1>4 DEF LengthsFollow, Empty, Twice, Chunks
<1>12. CASE s.ends = "crash" /\ Empty(items)
  <2>1. Call(m, args) = Crashed
    BY <1>10, <1>12
  <2> QED
    BY <1>1, <1>11, <1>12, <2>1
<1>13. CASE s.ends = "error" /\ Twice(items)
  <2>1. Call(m, args) = Error
    BY <1>10, <1>13
  <2> QED
    BY <1>1, <1>11, <1>13, <2>1
<1>14. ASSUME s.ends = "", NEW p, Reading(items, F, Len(items), p, s)
       PROVE  LengthsFollow(items, Call(m, args))
  <2>0. p \in 1 .. Len(items)
    BY <1>14, Zenon DEF Reading
  <2>1. Len(items) \in 1 .. Len(items) /\ DOMAIN items = 1 .. Len(items)
    BY <1>3
  <2>2. /\ s.array \o s.current = F[Len(items)]
        /\ \A o \in 1 .. Len(items) : IsMusic(items[o]) => \A q, r \in LengthsOf(items, o) : q = r
    BY <1>3, <1>4, <1>14, <2>0, <2>1, ReadSoFar DEF Known
  <2>3. ~Twice(items)
    BY <2>1, <2>2 DEF Twice
  <2>4. Call(m, args) = IF Len(F[Len(items)]) = 1 THEN One(F[Len(items)][1]) ELSE Many(F[Len(items)])
    BY <1>10, <1>14, <2>2
  <2> QED
    BY <1>11, <2>3, <2>4
<1> QED
  BY <1>1, <1>9, <1>12, <1>13, <1>14 DEF Read

---------------------------------------------------------------------------
(* Operands, and what a Value makes of a result.                           *)

LEMMA StoredIs ==
  ASSUME NEW r \in Fraction \cup {Crashed, Error}
  PROVE  Stored(r) \in Lowest \cup {Crashed, Error}
BY SimplifiedIsLowest, Kinds DEF Stored

LEMMA OperandIs ==
  ASSUME NEW t, Readable(t)
  PROVE  Operand(t) \in Lowest /\ Operand(t) \in Proper
<1>1. FromText(t) \in Proper
  BY LiteralIsNumber
<1>2. IsNumber(FromText(t)) /\ Simplify(FromText(t)) \in Lowest
  BY <1>1, SimplifiedIsLowest, Kinds, FractionIs
<1> QED
  BY <1>2, LowestIs DEF Operand, Stored

LEMMA FromLiteralIs ==
  ASSUME NEW l \in Literals
  PROVE  FromLiteral(l) \in AnyMusic
<1>1. l.letter \in Letters \cup {"p"} /\ l.raised \in Int /\ l.octave \in Int \cup {Unset}
  <2>1. Literals \subseteq Literal
    BY MusicAssumption, Zenon
  <2>2. l \in [letter : Letters \cup {"p"}, raised : Int, octave : 0 .. 127 \cup {Unset}]
    BY <2>1, Zenon DEF Literal
  <2> QED
    BY <2>2
<1>2. \A x \in Letters : Note_Index[x] \in Int
  BY DEF Note_Index, Letters
<1>3. Pause \in Notes
  BY NoteIs DEF Pause
<1>4. ASSUME l.letter # "p"
      PROVE  Note(Note_Index[l.letter] + l.raised, l.octave, Unset) \in Notes
  <2>1. PICK base, octave : base = Note_Index[l.letter] + l.raised /\ octave = l.octave
    OBVIOUS
  <2>2. base \in Int \cup {Unset} /\ octave \in Int \cup {Unset} /\ Unset \in Lowest \cup {Unset}
    BY <1>1, <1>2, <1>4, <2>1
  <2> QED
    BY <2>1, <2>2, NoteIs
<1>5. ASSUME NEW n \in Notes
      PROVE  One(<<n>>) \in AnyMusic
  <2>1. <<n>> \in Chord
    BY DEF Chord
  <2> QED
    BY <2>1, MusicIs
<1> QED
  BY <1>3, <1>4, <1>5 DEF FromLiteral

LEMMA ApplyIs ==
  ASSUME NEW op \in Operations, NEW x \in Proper, NEW y \in Proper
  PROVE  Apply(op, x, y) \in Fraction \cup {Crashed, Error}
<1>1. x \in Fraction /\ y \in Fraction /\ \A z \in Proper : z \in Fraction
  BY FractionIs
<1>2. {Plus(x, y), Minus(x, y), Times(x, y), Over(x, y)} \subseteq Fraction \cup {Crashed, Error}
  BY <1>1, SumIsNumber, ProductIsExact, QuotientIsExact
<1>3. {Modulo(x, y), Pow(x, y)} \subseteq Fraction \cup {Crashed, Error}
  BY <1>1, ModuloIsNumber, RaisedIsNumber
<1>4. {Floor(x), Ceil(x), Round(x)} \subseteq Fraction \cup {Crashed, Error}
  BY <1>1, Rounded
<1> QED
  BY <1>2, <1>3, <1>4 DEF Apply, Operations

LEMMA TypeIs == TypeOK <=> value \in Values
BY DEF TypeOK, Values

LEMMA StepIs ==
  ASSUME value \in Values, MusicNext
  PROVE  value' \in Values
<1>0. /\ IsNumber(value) => value \in Proper
      /\ IsMusic(value) => value \in AnyMusic
  BY Kinds, LowestIs, FractionIs DEF Values
<1>1. ASSUME NEW r \in Results, Becomes(r)
      PROVE  value' \in Values
  <2>1. IsMusic(r) => r \in AnyMusic
    BY Kinds DEF Results
  <2>2. ~IsMusic(r) => Stored(r) \in Values
    BY Kinds, StoredIs DEF Results, Values
  <2> QED
    BY <1>1, <2>1, <2>2 DEF Becomes, Values
<1> HIDE DEF Values
<1>2. \A r \in AnyMusic \cup {Crashed, Error} : r \in Results
  BY DEF Results
<1>3. \A t \in Amounts : Operand(t) \in Proper /\ Operand(t) \in Fraction /\ Operand(t) \in Lowest
  BY OperandIs, MusicAssumption, FractionIs
<1>4. ASSUME IsNumber(value), Next
      PROVE  value' \in Values
  <2>1. PICK op \in Operations, t \in Texts : value' = Stored(Apply(op, value, Operand(t)))
    BY <1>4 DEF Next, Compute
  <2>2. Operand(t) \in Proper /\ value \in Proper
    BY <1>0, <1>4, OperandIs, NumbersAssumption
  <2>3. PICK v : v = value
    OBVIOUS
  <2>4. Apply(op, v, Operand(t)) \in Fraction \cup {Crashed, Error}
    BY <2>2, <2>3, ApplyIs
  <2> QED
    BY <2>1, <2>3, <2>4, StoredIs DEF Values
<1>5. ASSUME IsNumber(value), NumberWithMusic
      PROVE  value' \in Values
  <2>0. PICK v \in Proper : v = value
    BY <1>0, <1>5
  <2>1. PICK l \in Literals : LET m == FromLiteral(l)
                              IN  \/ \E op \in {"up", "down"} : Becomes(Move(op, m, v))
                                  \/ Becomes(Repeat(m, v))
    BY <1>5, <2>0 DEF NumberWithMusic
  <2>2. PICK m \in AnyMusic : m = FromLiteral(l)
    BY FromLiteralIs
  <2>3. v \in Fraction
    BY FractionIs
  <2>4. \A op \in {"up", "down"} : Move(op, m, v) \in Results
    BY <1>2, <2>3, MoveIs
  <2>5. Repeat(m, v) \in Results
    BY <1>2, RepeatIs
  <2> QED
    BY <1>1, <2>1, <2>2, <2>4, <2>5
<1>6. ASSUME NEW m \in AnyMusic, m = value, WithNumber
      PROVE  value' \in Values
  <2>1. PICK t \in Amounts : LET n == Operand(t)
                             IN  \/ \E op \in {"up", "down"} : Becomes(Move(op, m, n))
                                 \/ Becomes(Repeat(m, n))
                                 \/ Becomes(Set_Len(m, n))
                                 \/ Becomes(Set_Oct(m, n))
    BY <1>6 DEF WithNumber
  <2>2. PICK n \in Proper : n = Operand(t) /\ n \in Fraction /\ n \in Lowest
    BY <1>3
  <2>3. \A op \in {"up", "down"} : Move(op, m, n) \in Results
    BY <1>2, <2>2, MoveIs
  <2>4. Repeat(m, n) \in Results /\ Set_Len(m, n) \in Results /\ Set_Oct(m, n) \in Results
    BY <1>2, <2>2, RepeatIs, SetLenIs, SetOctIs
  <2> QED
    BY <1>1, <2>1, <2>2, <2>3, <2>4
<1>7. ASSUME NEW m \in AnyMusic, m = value, WithMusic
      PROVE  value' \in Values
  <2>1. PICK l \in Literals : \/ Becomes(Join(m, FromLiteral(l)))
                              \/ Becomes(Make_Chord(m.chords \o FromLiteral(l).chords))
    BY <1>7 DEF WithMusic
  <2>2. PICK k \in AnyMusic : k = FromLiteral(l)
    BY FromLiteralIs
  <2>3. m.chords \o k.chords \in Seq(Chord)
    <3>1. m.chords \in Seq(Chord) /\ k.chords \in Seq(Chord)
      BY MusicIs
    <3> QED
      BY <3>1
  <2>4. Join(m, k) \in Results /\ Make_Chord(m.chords \o k.chords) \in Results
    BY <1>2, <2>3, JoinIs, MakeChordIs
  <2> QED
    BY <1>1, <2>1, <2>2, <2>4
<1>8. ASSUME NEW m \in AnyMusic, m = value, CallChord
      PROVE  value' \in Values
  <2>1. ~m.array
    BY <1>8 DEF CallChord
  <2>2. PICK args \in Calls : Becomes(Call(m, args))
    BY <1>8 DEF CallChord
  <2>3. Call(m, args) \in Results
    BY <1>2, <2>1, CallIs
  <2> QED
    BY <1>1, <2>2, <2>3
<1>9. ASSUME NEW m \in AnyMusic, m = value, TakeDuration
      PROVE  value' \in Values
  <2>1. Becomes(Duration(m))
    BY <1>9 DEF TakeDuration
  <2>2. Duration(m) \in Results
    BY DurationIs, FractionIs DEF Results
  <2> QED
    BY <1>1, <2>1, <2>2
<1>10. CASE IsNumber(value) /\ (Next \/ (Small(value) /\ NumberWithMusic))
  BY <1>4, <1>5, <1>10
<1>11. CASE IsMusic(value) /\ (WithNumber \/ WithMusic \/ CallChord \/ TakeDuration)
  <2>1. PICK m \in AnyMusic : m = value
    BY <1>0, <1>11
  <2> QED
    BY <1>6, <1>7, <1>8, <1>9, <1>11, <2>1
<1> QED
  BY <1>10, <1>11 DEF MusicNext

(* Whatever is computed, a variable holds a number in lowest terms with a    *)
(* positive denominator, the end of the program or an error, or music: one   *)
(* chord or an array of them, of notes.                                    *)
THEOREM TypeCorrect == MusicSpec => []TypeOK
<1>1. MusicInit => value \in Values
  <2>1. \A t \in Texts : Operand(t) \in Lowest
    BY OperandIs, NumbersAssumption
  <2>2. \A l \in Literals : FromLiteral(l) \in AnyMusic
    BY FromLiteralIs
  <2> QED
    BY <2>1, <2>2 DEF MusicInit, Init, Values
<1>2. value \in Values /\ [MusicNext]_vars => (value \in Values)'
  <2>1. value \in Values /\ UNCHANGED vars => (value \in Values)'
    BY DEF vars, Values
  <2>2. value \in Values /\ MusicNext => (value \in Values)'
    <3>1. Values' = Values
      BY DEF Values
    <3> QED
      BY <3>1, StepIs
  <2> QED
    BY <2>1, <2>2
<1> QED
  BY <1>1, <1>2, TypeIs, PTL DEF MusicSpec

(* operator<=>, which multiplies by denominators, orders the numbers that a   *)
(* program can compare by what they are worth.                             *)
THEOREM ComparesWorth == MusicSpec => []OrderIsExact
<1>1. TypeOK => OrderIsExact
  <2> SUFFICES ASSUME TypeOK, IsNumber(value), NEW t \in Texts
               PROVE  LET y == FromText(t)
                          d == value.den * y.den
                      IN  /\ Less(value, y) <=> (value.num * y.den - y.num * value.den) * Sign(d) < 0
                          /\ Equal(value, y) <=> Same(value, y.num, y.den)
    BY DEF OrderIsExact
  <2>1. PICK x \in Proper : x = value
    BY Kinds, LowestIs, FractionIs, TypeIs DEF Values
  <2>2. PICK y \in Proper : y = FromText(t)
    BY LiteralIsNumber, NumbersAssumption
  <2> QED
    BY <2>1, <2>2, ComparisonIsExact
<1> QED
  BY <1>1, TypeCorrect, PTL

(* Sums and differences, whose common denominator fits an int, products and   *)
(* quotients of numbers out of any computation are exact, and a quotient is *)
(* refused just when it is by 0.                                           *)
THEOREM Computes == MusicSpec => []ArithmeticIsExact
<1>1. TypeOK => ArithmeticIsExact
  <2> SUFFICES ASSUME TypeOK, IsNumber(value), NEW t \in Texts
               PROVE  LET x == value
                          y == Operand(t)
                          d == x.den * y.den
                      IN  /\ Fits(x, y) => /\ Same(Plus(x, y), x.num * y.den + y.num * x.den, d)
                                           /\ Same(Minus(x, y), x.num * y.den - y.num * x.den, d)
                          /\ Same(Times(x, y), x.num * y.num, d)
                          /\ IF y.num = 0 THEN Over(x, y) = Error
                             ELSE Same(Over(x, y), x.num * y.den, x.den * y.num)
    BY DEF ArithmeticIsExact
  <2>1. PICK x \in Proper : x = value
    BY Kinds, LowestIs, FractionIs, TypeIs DEF Values
  <2>2. PICK y \in Proper : y = Operand(t)
    BY OperandIs, NumbersAssumption
  <2>3. x \in Fraction /\ y \in Fraction
    BY FractionIs
  <2> QED
    BY <2>1, <2>2, <2>3, SumIsExact, ProductIsExact, QuotientIsExact
<1> QED
  BY <1>1, TypeCorrect, PTL

(* floor, ceil and round give the integers below, above and nearest to a      *)
(* number of either sign, with a half going up.                            *)
THEOREM RoundsRight == MusicSpec => []RoundingIsRight
<1>1. TypeOK => RoundingIsRight
  <2> SUFFICES ASSUME TypeOK, IsNumber(value)
               PROVE  RoundingIsRight
    BY DEF RoundingIsRight
  <2>1. PICK x \in Proper : x = value
    BY Kinds, LowestIs, FractionIs, TypeIs DEF Values
  <2>2. Sign(x.den) = 1 /\ Abs(x.den) = x.den /\ Sign(x.den) * x.num = x.num
    BY FractionIs DEF Sign, Abs, Positive
  <2> QED
    BY <2>1, <2>2, Rounded DEF RoundingIsRight
<1> QED
  BY <1>1, TypeCorrect, PTL

(* The remainder of a / b by a positive integer n is a solution r of          *)
(* b * r = a modulo n, with the sign of a, and it is refused just when b has *)
(* no inverse: the loop of modular_inverse finds the greatest common divisor *)
(* and the inverse.                                                        *)
THEOREM RemaindersSolve == MusicSpec => []ModuloSolves
<1>1. TypeOK => ModuloSolves
  <2> SUFFICES ASSUME TypeOK, IsNumber(value), NEW t \in Texts,
                      Operand(t).den = 1, Operand(t).num > 0
               PROVE  LET x == Simplify(value)
                          n == Operand(t).num
                          r == Modulo(value, Operand(t))
                      IN  IF GCD(x.den, n) = 1
                          THEN /\ r.den = 1 /\ Abs(r.num) < n
                               /\ (x.den * r.num - x.num) % n = 0
                               /\ r.num * x.num >= 0
                          ELSE r = Error
    BY DEF ModuloSolves
  <2>1. PICK x \in Proper : x = value
    BY Kinds, LowestIs, FractionIs, TypeIs DEF Values
  <2>2. PICK y \in Proper : y = Operand(t)
    BY OperandIs, NumbersAssumption
  <2>3. x \in Fraction /\ y \in Fraction
    BY FractionIs
  <2> QED
    BY <2>1, <2>2, <2>3, ModuloIs
<1> QED
  BY <1>1, TypeCorrect, PTL

---------------------------------------------------------------------------
(* Moves.                                                                  *)

(* The octave that a base b is above or below its own.                      *)
LEMMA CarryIs ==
  ASSUME NEW b \in Int, b >= 0 \/ b % 12 = 0
  PROVE  Quot(b, 12) \in Int /\ b = 12 * Quot(b, 12) + (b % 12)
<1>1. 12 \in Positive /\ 12 \in NotZero /\ Abs(12) = 12
  BY DEF Positive, NotZero, Abs
<1>2. PICK q, r : q = Quot(b, 12) /\ r = Rem(b, 12)
  OBVIOUS
<1>3. /\ q \in Int /\ r \in Int /\ b = 12 * q + r /\ Abs(r) < 12
      /\ b >= 0 => r >= 0
  BY <1>1, <1>2, QuotRem
<1>4. CASE b >= 0
  <2>1. 0 <= r /\ r < 12
    BY <1>3, <1>4 DEF Abs
  <2>2. b % 12 = r
    BY <1>1, <1>3, <2>1, DivisionIs
  <2> QED
    BY <1>2, <1>3, <2>2
<1>5. CASE b % 12 = 0
  <2>1. b \div 12 \in Int /\ b = 12 * (b \div 12)
    BY <1>1, <1>5, Division
  <2>2. q = b \div 12
    BY <1>1, <1>2, <2>1, ExactQuot
  <2> QED
    BY <1>2, <1>5, <2>1, <2>2
<1> QED
  BY <1>4, <1>5

LEMMA TransposedRight ==
  ASSUME NEW n \in Notes, NEW k \in Int
  PROVE  MovedRight(n, Transposed(n, k), k)
<1>1. CASE n.base = Unset
  BY <1>1 DEF Transposed, MovedRight
<1>2. CASE n.base # Unset /\ n.octave = Unset
  BY <1>2 DEF Transposed, Simplify_Note, MovedRight, Notes
<1>3. CASE n.base # Unset /\ n.octave # Unset
  <2>1. PICK s, b, o : s = n.base /\ b = n.base + k /\ o = n.octave
    OBVIOUS
  <2>2. s \in Int /\ o \in Int /\ b \in Int /\ b # Unset /\ o # Unset /\ b = s + k
        /\ s = n.base /\ Unset \notin {n.base, n.octave}
    <3>1. n.base \in Int /\ n.octave \in Int
      BY <1>3 DEF Notes
    <3> QED
      BY <2>1, <3>1, MusicAssumption
  <2>3. PICK new : new = Transposed(n, k)
    OBVIOUS
  <2>4. /\ new.base = b % 12 /\ new.octave = Clamp(o + Quot(b, 12), -1, 9)
        /\ new.length = n.length
    <3> DEFINE m == [n EXCEPT !.base = @ + k]
    <3>1. m.base = b /\ m.octave = o /\ m.length = n.length /\ m \in Notes
      BY <2>1, <2>2 DEF Notes
    <3>2. new = Simplify_Note(m)
      BY <1>3, <2>3 DEF Transposed
    <3> HIDE DEF m
    <3>3. Simplify_Note(m) = [m EXCEPT !.base = @ % 12, !.octave = Clamp(@ + Quot(m.base, 12), -1, 9)]
      BY <2>2, <3>1 DEF Simplify_Note
    <3> QED
      BY <3>1, <3>2, <3>3 DEF Notes
  <2>5. PICK q, r : q = b \div 12 /\ r = b % 12
    OBVIOUS
  <2>6. q \in Int /\ r \in 0 .. 11 /\ b = 12 * q + r
    <3>1. 12 \in Positive
      BY DEF Positive
    <3>2. q \in Int /\ r \in Nat /\ r < 12 /\ b = 12 * q + r
      BY <2>2, <2>5, <3>1, Division
    <3> QED
      BY <3>2
  <2>7. (new.base - n.base - k) % 12 = 0
    <3>1. r - s - k = 12 * (0 - q) /\ 0 - q \in Int /\ 12 \in Positive
      <4>1. r \in Int /\ q \in Int /\ s \in Int /\ 12 * q + r = s + k
        BY <2>2, <2>6
      <4>2. r - s - k = 12 * (0 - q)
        BY <4>1
      <4> QED
        BY <4>1, <4>2 DEF Positive
    <3>2. (12 * (0 - q)) % 12 = 0
      BY <3>1, MultipleHasNoRest
    <3> QED
      BY <2>1, <2>4, <2>5, <3>1, <3>2
  <2>8. \/ (b < 0 /\ b % 12 # 0)
        \/ Chromatic(n) + k \notin -12 .. 9 * 12 + 11
        \/ Chromatic(new) = Chromatic(n) + k
    <3>1. SUFFICES ASSUME b >= 0 \/ b % 12 = 0, Chromatic(n) + k \in -12 .. 119
                   PROVE  Chromatic(new) = Chromatic(n) + k
      BY <2>2
    <3>2. PICK c : c = Quot(b, 12)
      OBVIOUS
    <3>3. c \in Int /\ b = 12 * c + r
      BY <2>2, <2>5, <3>1, <3>2, CarryIs
    <3>4. Chromatic(n) + k = 12 * (o + c) + r
      <4>1. Chromatic(n) = 12 * o + s
        BY <2>1 DEF Chromatic
      <4> QED
        BY <2>2, <2>6, <3>3, <4>1
    <3>5. o + c \in -1 .. 9
      BY <2>2, <2>6, <3>1, <3>3, <3>4
    <3>6. Clamp(o + c, -1, 9) = o + c
      BY <2>2, <3>3, <3>5 DEF Clamp
    <3>7. Chromatic(new) = 12 * (o + c) + r
      BY <2>4, <2>5, <3>2, <3>6 DEF Chromatic
    <3> QED
      BY <3>4, <3>7
  <2> QED
    BY <1>3, <2>2, <2>3, <2>4, <2>5, <2>6, <2>7, <2>8 DEF MovedRight
<1> QED
  BY <1>1, <1>2, <1>3

LEMMA MovesRight ==
  ASSUME NEW m \in AnyMusic, NEW by \in Fraction
  PROVE  MovesBy(m, by)
<1> SUFFICES ASSUME NEW op \in {"up", "down"}, ~(HasBase(m) /\ by.den # 1),
                    NEW i \in DOMAIN m.chords, NEW j \in DOMAIN m.chords[i]
             PROVE  MovedRight(m.chords[i][j], Move(op, m, by).chords[i][j],
                               IF op = "up" THEN by.num ELSE -by.num)
  BY DEF MovesBy, Move
<1>1. PICK k : k = IF op = "up" THEN by.num ELSE -by.num
  OBVIOUS
<1>2. k \in Int
  BY <1>1, FractionIs
<1>3. m.chords[i][j] \in Notes
  BY MusicIs DEF Chord
<1>4. Move(op, m, by) = EachNote(m, LAMBDA n : Transposed(n, k))
  BY <1>1 DEF Move, EachNote
<1>5. Move(op, m, by).chords[i][j] = Transposed(m.chords[i][j], k)
  BY <1>4 DEF EachNote, AnyMusic
<1> QED
  BY <1>1, <1>2, <1>3, <1>5, TransposedRight

(* Music that is moved by semitones gets the right names of notes, and the    *)
(* right octaves unless it goes below the c of an octave or beyond octaves. *)
THEOREM MovesSemitones == MusicSpec => []MovesBySemitones
<1>1. TypeOK => MovesBySemitones
  <2>1. ASSUME TypeOK, IsMusic(value), NEW t \in Amounts
        PROVE  MovesBy(value, Operand(t))
    <3>1. PICK m \in AnyMusic : m = value
      BY <2>1, Kinds, LowestIs, FractionIs, TypeIs DEF Values
    <3>2. PICK y \in Fraction : y = Operand(t)
      BY OperandIs, MusicAssumption, FractionIs
    <3> QED
      BY <3>1, <3>2, MovesRight
  <2>2. ASSUME TypeOK, IsNumber(value), NEW l \in Literals
        PROVE  MovesBy(FromLiteral(l), value)
    <3>1. PICK x \in Fraction : x = value
      BY <2>2, Kinds, LowestIs, FractionIs, TypeIs DEF Values
    <3>2. PICK m \in AnyMusic : m = FromLiteral(l)
      BY FromLiteralIs
    <3> QED
      BY <3>1, <3>2, MovesRight
  <2> QED
    BY <2>1, <2>2 DEF MovesBySemitones
<1> QED
  BY <1>1, TypeCorrect, PTL

---------------------------------------------------------------------------
(* Calls and lengths.                                                      *)

(* Every chord of a call, in order, comes once, or as often as there are      *)
(* lengths behind it, each with its length; two lengths behind one chord    *)
(* are an error, an empty collection of lengths may end the program.       *)
THEOREM LengthsGoToChords == MusicSpec => []LengthsFollowTheirChord
<1>1. TypeOK => LengthsFollowTheirChord
  <2>1. ASSUME TypeOK, IsMusic(value), ~value.array, NEW args \in Calls
        PROVE  LengthsFollow(<<value>> \o args, Call(value, args))
    <3>1. PICK m \in AnyMusic : m = value
      BY <2>1, Kinds, LowestIs, FractionIs, TypeIs DEF Values
    <3> QED
      BY <2>1, <3>1, ArgumentsAre, CallFollows
  <2> QED
    BY <2>1 DEF LengthsFollowTheirChord
<1> QED
  BY <1>1, TypeCorrect, PTL
---------------------------------------------------------------------------
(* Folds, and common multiples.                                            *)

(* What holds of the first of some numbers, and of each behind one of which it holds. *)
LEMMA Climb ==
  ASSUME NEW n \in Nat, NEW P, 0 \in P, \A k \in 1 .. n : k - 1 \in P => k \in P
  PROVE  0 .. n \subseteq P
<1> DEFINE Q == {k \in 0 .. n : k \notin P}
<1>1. ASSUME Q # {}
      PROVE  FALSE
  <2>1. Q \in SUBSET Nat
    OBVIOUS
  <2>2. PICK k \in Q : \A i \in Q : k <= i
    <3> HIDE DEF Q
    <3> QED
      BY <1>1, <2>1, Smallest
  <2>3. k \in 1 .. n /\ k \in Nat
    OBVIOUS
  <2>4. k - 1 \in 0 .. n /\ ~(k <= k - 1)
    BY <2>3
  <2> QED
    BY <2>2, <2>3, <2>4
<1> QED
  BY <1>1

(* A fold, element by element.                                             *)
Stages(t, seq, V, base, step) ==
  /\ t \in [0 .. Len(seq) -> V] /\ t[0] = base
  /\ \A n \in 1 .. Len(seq) : t[n] = step[seq[n]][t[n - 1]]

Unfolds(g, seq, T, V, base, step) ==
  /\ seq \in Seq(T) /\ base \in V /\ step \in [T -> [V -> V]]
  /\ g[{}] = base
  /\ \A s \in SUBSET DOMAIN seq : s # {} /\ seq[Max(s)] \in T /\ g[s \ {Max(s)}] \in V
                                    => g[s] = step[seq[Max(s)]][g[s \ {Max(s)}]]

LEMMA Staged ==
  ASSUME NEW T, NEW seq, NEW V, NEW base, NEW step, NEW g, Unfolds(g, seq, T, V, base, step)
  PROVE  \E t : Stages(t, seq, V, base, step) /\ t[Len(seq)] = g[DOMAIN seq]
<1>1. DOMAIN seq = 1 .. Len(seq) /\ Len(seq) \in Nat /\ seq \in Seq(T)
  BY DEF Unfolds
<1>0. base \in V /\ step \in [T -> [V -> V]]
  BY DEF Unfolds
<1> DEFINE t == [n \in 0 .. Len(seq) |-> g[1 .. n]]
<1>2. t[0] = base /\ t[Len(seq)] = g[DOMAIN seq]
  BY <1>1 DEF Unfolds
<1>3. ASSUME NEW n \in 1 .. Len(seq), t[n - 1] \in V
      PROVE  t[n] = step[seq[n]][t[n - 1]] /\ t[n] \in V
  <2>1. n \in Nat /\ (1 .. n) \in SUBSET DOMAIN seq /\ n \in 1 .. n /\ n - 1 \in 0 .. Len(seq)
    BY <1>1
  <2>2. PICK max : max = Max(1 .. n)
    OBVIOUS
  <2>3. max \in 1 .. n /\ \A k \in 1 .. n : k <= max
    <3>1. (1 .. n) \in SUBSET (1 .. n) /\ 1 .. n # {}
      BY <2>1
    <3> QED
      BY <2>1, <2>2, <3>1, LastPlace
  <2>4. max = n
    BY <2>1, <2>3
  <2>5. (1 .. n) \ {n} = 1 .. n - 1
    BY <2>1
  <2>6. seq[n] \in T /\ t[n - 1] = g[1 .. n - 1] /\ t[n] = g[1 .. n]
    BY <1>1, <2>1
  <2>7. g[1 .. n] = step[seq[n]][g[1 .. n - 1]]
    <3> HIDE DEF t
    <3> QED
      BY <1>3, <2>1, <2>2, <2>4, <2>5, <2>6 DEF Unfolds
  <2> QED
    BY <1>0, <1>3, <2>6, <2>7
<1> DEFINE P == {n \in 0 .. Len(seq) : t[n] \in V}
<1>4. \A n \in 0 .. Len(seq) : t[n] \in V
  <2> HIDE DEF t
  <2>1. 0 \in P
    BY <1>0, <1>1, <1>2
  <2>2. \A k \in 1 .. Len(seq) : k - 1 \in P => k \in P
    BY <1>3
  <2>3. 0 .. Len(seq) \subseteq P
    <3> HIDE DEF P
    <3> QED
      BY <1>1, <2>1, <2>2, Climb
  <2> QED
    BY <2>3
<1>5. t \in [0 .. Len(seq) -> V]
  BY <1>4
<1>6. \A n \in 1 .. Len(seq) : n - 1 \in 0 .. Len(seq)
  BY <1>1
<1>7. \A n \in 1 .. Len(seq) : t[n] = step[seq[n]][t[n - 1]]
  <2> HIDE DEF t
  <2> QED
    BY <1>3, <1>4, <1>6
<1>8. Stages(t, seq, V, base, step)
  <2> HIDE DEF t
  <2> QED
    BY <1>2, <1>5, <1>7 DEF Stages
<1> QED
  BY <1>2, <1>8

---------------------------------------------------------------------------
(* The least common multiple divides what both divide.                     *)
LEMMA LCMDivides ==
  ASSUME NEW a \in Positive, NEW b \in Positive, NEW d \in Positive, Divides(a, d), Divides(b, d)
  PROVE  Divides(LCM(a, b), d)
<1> DEFINE Multiples == {n \in Positive : Divides(a, n) /\ Divides(b, n)}
<1>0. /\ a \in Int /\ b \in Int /\ d \in Int /\ a \in NotZero /\ b \in NotZero
      /\ \A n \in Positive : n \in Int /\ n \in NotZero /\ n > 0
  BY DEF Positive, NotZero
<1>1. PICK m \in Multiples : \A n \in Multiples : m <= n
  <2>1. Multiples \in SUBSET Nat /\ d \in Multiples
    BY DEF Positive
  <2> HIDE DEF Multiples
  <2> QED
    BY <2>1, Smallest
<1>2. m \in Positive /\ Divides(a, m) /\ Divides(b, m)
  OBVIOUS
\* What is left of a multiple is one, and less.
<1>3. ASSUME NEW n \in Multiples
      PROVE  Divides(m, n)
  <2>1. n \in Int /\ m \in Int
    BY <1>0
  <2>2. PICK q, r : q = n \div m /\ r = n % m
    OBVIOUS
  <2>3. q \in Int /\ r \in Nat /\ r < m /\ n = m * q + r
    BY <1>2, <2>1, <2>2, Division
  <2>4. ASSUME NEW x \in Positive, Divides(x, n), Divides(x, m)
        PROVE  Divides(x, r)
    <3>1. PICK i \in Int : n = x * i
      BY <2>1, <2>4, DividesIs
    <3>2. PICK j \in Int : m = x * j
      BY <2>1, <2>4, DividesIs
    <3>3. x \in Int /\ j * q \in Int
      BY <1>0, <2>3
    <3>4. m * q = x * (j * q)
      BY <2>3, <3>2, <3>3
    <3>5. r = x * i - x * (j * q)
      BY <2>1, <2>3, <3>1, <3>4
    <3>6. x * i - x * (j * q) = x * (i - j * q) /\ i - j * q \in Int
      BY <3>3
    <3>7. \E k \in Int : r = x * k
      BY <3>5, <3>6
    <3> QED
      BY <2>3, <3>7, DividesIs
  <2>5. r = 0
    <3>1. ASSUME r # 0
          PROVE  r \in Multiples
      BY <1>2, <2>3, <2>4, <3>1 DEF Positive
    <3> HIDE DEF Multiples
    <3> QED
      BY <1>1, <2>1, <2>3, <3>1
  <2>6. n = m * q
    BY <2>1, <2>3, <2>5
  <2> QED
    BY <1>2, <2>1, <2>3, <2>6, DividesIs
<1>4. PICK g, k, l : g = GCD(a, b) /\ g \in Positive /\ k \in Int /\ l \in NotZero
                     /\ a = g * k /\ b = g * l
                     /\ \A e \in Positive : Divides(e, a) /\ Divides(e, b) => e <= g
  <2>1. PICK k \in Int, l \in NotZero : a = GCD(a, b) * k /\ b = GCD(a, b) * l
    BY <1>0, Reduced
  <2> QED
    BY <1>0, <2>1, GCDIs
<1>5. LCM(a, b) \in Multiples
  <2>1. PICK u : u = LCM(a, b)
    OBVIOUS
  <2>2. u \in Positive /\ (\E i \in Int : u = a * i) /\ (\E j \in Int : u = b * j)
    BY <1>0, <2>1, LCMIs
  <2>3. Divides(a, u) /\ Divides(b, u)
    BY <1>0, <2>2, DividesIs
  <2> QED
    BY <2>1, <2>2, <2>3
<1>6. LCM(a, b) * g = a * b
  <2>1. Abs(a) = a /\ Abs(b) = b
    BY <1>0 DEF Abs
  <2>2. LCM(a, b) = a * (b \div g)
    BY <1>0, <1>4, <2>1 DEF LCM, NotZero
  <2>3. b \div g = l
    <3>1. l \in Int /\ 0 < g /\ b = g * l + 0
      BY <1>0, <1>4 DEF NotZero, Positive
    <3> QED
      BY <1>0, <1>4, <3>1, DivisionIs
  <2>4. a * l * g = a * (g * l)
    BY <1>0, <1>4 DEF NotZero
  <2> QED
    BY <1>4, <2>2, <2>3, <2>4
\* a * b is e times the least multiple, and e divides both.
<1>7. PICK e \in Positive : a * b = m * e
  <2>1. a * b \in Positive
    BY <1>0 DEF Positive
  <2>2. Divides(a, a * b) /\ Divides(b, a * b)
    <3>1. a * b \in Int /\ a * b = b * a
      BY <1>0
    <3> QED
      BY <1>0, <3>1, DividesIs
  <2>3. Divides(m, a * b)
    <3> HIDE DEF Multiples
    <3>1. a * b \in Multiples
      BY <2>1, <2>2 DEF Multiples
    <3> QED
      BY <1>3, <3>1
  <2>4. PICK e \in Int : a * b = m * e
    BY <1>0, <1>2, <2>1, <2>3, DividesIs
  <2>5. e > 0
    <3>1. PICK ab : ab = a * b
      OBVIOUS
    <3>2. ab \in Positive /\ ab = m * e
      BY <2>1, <2>4, <3>1
    <3>3. e <= 0 => m * e <= 0
      BY <1>0, <1>2
    <3> QED
      BY <1>0, <3>2, <3>3
  <2> QED
    BY <2>4, <2>5 DEF Positive
<1>8. Divides(e, a) /\ Divides(e, b)
  <2>0. e \in Int /\ m \in Int
    BY <1>0, <1>2
  <2>1. PICK s \in Int : m = a * s
    BY <1>0, <1>2, DividesIs
  <2>2. PICK t \in Int : m = b * t
    BY <1>0, <1>2, DividesIs
  <2>3. (e * s) * a = b * a
    <3>1. (e * s) * a = (a * s) * e /\ b * a = a * b
      BY <1>0, <2>0
    <3> QED
      BY <1>7, <2>1, <3>1
  <2>4. (e * t) * b = a * b
    <3>1. (e * t) * b = (b * t) * e
      BY <1>0, <2>0
    <3> QED
      BY <1>7, <2>2, <3>1
  <2>5. e * s \in Int /\ e * t \in Int
    BY <2>0
  <2>6. b = e * s /\ a = e * t
    BY <1>0, <2>3, <2>4, <2>5, Cancel
  <2> QED
    BY <1>0, <2>6, DividesIs
<1>9. LCM(a, b) = m
  <2> HIDE DEF Multiples
  <2>1. PICK u : u = LCM(a, b)
    OBVIOUS
  <2>2. u \in Int /\ m \in Int /\ g \in Int /\ e \in Int /\ m > 0 /\ g > 0
    BY <1>0, <1>2, <1>4, <1>5, <2>1 DEF Multiples
  <2>3. m <= u /\ e <= g
    BY <1>1, <1>4, <1>5, <1>8, <2>1
  <2>4. u * g = m * e
    BY <1>6, <1>7, <2>1
  <2>5. m * e <= m * g
    BY <2>2, <2>3
  <2>6. m < u => m * g < u * g
    BY <2>2
  <2>7. m * e \in Int /\ m * g \in Int /\ u * g \in Int
    BY <2>2
  <2> QED
    BY <2>1, <2>2, <2>3, <2>4, <2>5, <2>6, <2>7
<1> QED
  BY <1>3, <1>9

---------------------------------------------------------------------------
(* Fractions that are whole numbers of d-ths.                              *)

(* Fractions that are some d-ths, and how many they are.                    *)
Parts(d) == {x \in Proper : Divides(x.den, d)}
Worth(x, d) == x.num * (d \div x.den)

LEMMA WorthIs ==
  ASSUME NEW d \in Positive, NEW x \in Parts(d)
  PROVE  /\ x \in Proper /\ Worth(x, d) \in Int
         /\ \E k \in Positive : d = x.den * k /\ Worth(x, d) = x.num * k
<1>1. x \in Proper /\ x.num \in Int /\ x.den \in Positive /\ d \in Int /\ Divides(x.den, d)
  BY FractionIs DEF Parts, Positive
<1>2. PICK a, b : a = x.num /\ b = x.den
  OBVIOUS
<1>3. PICK k \in Int : d = b * k
  BY <1>1, <1>2, DividesIs
<1>4. k > 0
  <2>1. k <= 0 => b * k <= 0
    BY <1>1, <1>2 DEF Positive
  <2> QED
    BY <1>3, <2>1 DEF Positive
<1>5. d \div b = k
  <2>1. b \in Positive /\ d \in Int /\ 0 < b
    BY <1>1, <1>2 DEF Positive
  <2>2. d = b * k + 0
    BY <1>3, <2>1
  <2> QED
    BY <2>1, <2>2, DivisionIs
<1> QED
  BY <1>1, <1>2, <1>3, <1>4, <1>5 DEF Worth, Positive

\* Nothing, and a number in proportion to x.
LEMMA NothingIs ==
  ASSUME NEW d \in Positive
  PROVE  Number(0, 1) \in Parts(d) /\ Worth(Number(0, 1), d) = 0
<1>1. Number(0, 1) \in Proper /\ Number(0, 1).num = 0 /\ Number(0, 1).den = 1
  BY DEF Number, Proper, Positive
<1>2. Number(0, 1) \in Parts(d)
  BY <1>1, OneDivides DEF Parts, Positive
<1>3. PICK z : z = Number(0, 1)
  OBVIOUS
<1>4. \E k \in Positive : Worth(z, d) = z.num * k
  BY <1>2, <1>3, WorthIs
<1> QED
  BY <1>1, <1>2, <1>3, <1>4 DEF Positive

\* Comparison is that of what fractions are worth.
LEMMA ComparesParts ==
  ASSUME NEW d \in Positive, NEW x \in Parts(d), NEW y \in Parts(d)
  PROVE  /\ Less(x, y) <=> Worth(x, d) < Worth(y, d)
         /\ Equal(x, y) <=> Worth(x, d) = Worth(y, d)
<1>0. PICK a, b, m, n, u, v : /\ a = x.num /\ b = x.den /\ m = y.num /\ n = y.den
                              /\ u = Worth(x, d) /\ v = Worth(y, d)
  OBVIOUS
<1>1. x \in Proper /\ y \in Proper
  BY WorthIs
<1>2. a \in Int /\ b \in Int /\ b > 0 /\ m \in Int /\ n \in Int /\ n > 0
  BY <1>0, <1>1, FractionIs DEF Positive
<1>3. PICK k \in Positive : d = b * k /\ u = a * k
  BY <1>0, WorthIs
<1>4. PICK l \in Positive : d = n * l /\ v = m * l
  BY <1>0, WorthIs
<1>5. k \in Int /\ k > 0 /\ l \in Int /\ l > 0
  BY DEF Positive
\* a / b is (a * k) / d, m / n is (m * l) / d
<1>6. PICK p, q : p = a * n /\ q = b * m
  OBVIOUS
<1>7. p \in Int /\ q \in Int /\ u \in Int /\ v \in Int
  BY <1>2, <1>3, <1>4, <1>5, <1>6
<1>8. p * k = u * n /\ q * k = v * n
  <2>1. (a * n) * k = (a * k) * n
    BY <1>2, <1>5
  <2>2. (b * m) * k = m * (b * k)
    BY <1>2, <1>5
  <2>3. m * (n * l) = (m * l) * n
    BY <1>2, <1>5
  <2> QED
    BY <1>3, <1>4, <1>6, <2>1, <2>2, <2>3
<1>9. (p < q <=> p * k < q * k) /\ (p = q <=> p * k = q * k)
  BY <1>5, <1>7
<1>10. (u < v <=> u * n < v * n) /\ (u = v <=> u * n = v * n)
  BY <1>2, <1>7
<1>11. (Less(x, y) <=> p - q < 0) /\ (Equal(x, y) <=> p - q = 0)
  BY <1>0, <1>6 DEF Less, Equal
<1> QED
  BY <1>0, <1>7, <1>8, <1>9, <1>10, <1>11

\* What is divided when a fraction is simplified.
LEMMA SimplifiedBy ==
  ASSUME NEW n \in Int, NEW d \in Positive
  PROVE  \E g \in Positive : LET s == Simplify(Number(n, d))
                             IN  s \in Proper /\ n = s.num * g /\ d = s.den * g
<1>0. d \in NotZero /\ d \in Int /\ d > 0
  BY DEF Positive, NotZero
<1>1. PICK k \in Int, l \in NotZero :
           /\ n = GCD(n, d) * k /\ d = GCD(n, d) * l
           /\ Quot(n, GCD(n, d)) = k /\ Quot(d, GCD(n, d)) = l
  BY <1>0, Reduced
<1> DEFINE g == GCD(n, d)
<1>2. g \in Positive /\ g \in Int /\ g > 0
  BY <1>0, GCDIs DEF Positive
<1>3. Simplify(Number(n, d)) = Number(Sign(d) * k, Sign(d) * l)
  BY <1>1, <1>2, NumberIs DEF Simplify, Positive
<1>4. n = g * k /\ d = g * l
  BY <1>1
<1> HIDE DEF g
<1>5. Sign(d) = 1 /\ l \in Int /\ k \in Int
  BY <1>0 DEF Sign, NotZero
<1>6. Simplify(Number(n, d)) = Number(k, l)
  BY <1>3, <1>5
<1>7. l > 0
  <2>1. l <= 0 => g * l <= 0
    BY <1>2, <1>5
  <2> QED
    BY <1>0, <1>4, <2>1
<1>8. n = k * g /\ d = l * g
  BY <1>2, <1>4, <1>5
<1>9. Number(k, l) \in Proper /\ Number(k, l).num = k /\ Number(k, l).den = l
  BY <1>5, <1>7, NumberIs, ProperIs DEF Positive
<1> QED
  BY <1>2, <1>6, <1>8, <1>9

\* n / c of which e make d-ths.
LEMMA SimplifiedParts ==
  ASSUME NEW d \in Positive, NEW n \in Int, NEW c \in Positive, NEW e \in Int, d = c * e
  PROVE  Simplify(Number(n, c)) \in Parts(d) /\ Worth(Simplify(Number(n, c)), d) = n * e
<1>1. PICK s : s = Simplify(Number(n, c))
  OBVIOUS
<1>2. PICK g \in Positive : s \in Proper /\ n = s.num * g /\ c = s.den * g
  BY <1>1, SimplifiedBy
<1>3. PICK a, b : a = s.num /\ b = s.den
  OBVIOUS
<1>4. a \in Int /\ b \in Int /\ b > 0 /\ b \in Positive /\ g \in Int /\ d \in Int /\ n = a * g /\ c = b * g
  BY <1>2, <1>3, FractionIs DEF Positive
<1>5. d = b * (g * e) /\ g * e \in Int
  <2>1. (b * g) * e = b * (g * e)
    BY <1>4
  <2> QED
    BY <1>4, <2>1
<1>6. Divides(b, d)
  BY <1>4, <1>5, DividesIs
<1>7. s \in Parts(d)
  BY <1>2, <1>3, <1>6 DEF Parts
<1>8. d \div b = g * e
  <2>1. d = b * (g * e) + 0
    BY <1>4, <1>5
  <2> QED
    BY <1>4, <1>5, <2>1, DivisionIs
<1>9. Worth(s, d) = a * (g * e)
  BY <1>3, <1>8 DEF Worth
<1>10. a * (g * e) = (a * g) * e
  BY <1>4
<1> QED
  BY <1>1, <1>4, <1>7, <1>9, <1>10

\* As long as d fits an int, no sum of d-ths overflows.
LEMMA AddsParts ==
  ASSUME NEW d \in Positive, d < IntRange \div 2, NEW x \in Parts(d), NEW y \in Parts(d)
  PROVE  /\ Plus(x, y) \in Parts(d) /\ Worth(Plus(x, y), d) = Worth(x, d) + Worth(y, d)
         /\ Minus(x, y) \in Parts(d) /\ Worth(Minus(x, y), d) = Worth(x, d) - Worth(y, d)
<1>0. PICK a, b, m, n, c : a = x.num /\ b = x.den /\ m = y.num /\ n = y.den /\ c = LCM(b, n)
  OBVIOUS
<1>1. x \in Proper /\ y \in Proper
  BY WorthIs
<1>2. /\ a \in Int /\ b \in Positive /\ b \in NotZero /\ b \in Int
      /\ m \in Int /\ n \in Positive /\ n \in NotZero /\ n \in Int
      /\ d \in Int /\ d > 0 /\ d \in NotZero
  BY <1>0, <1>1, FractionIs DEF Positive, NotZero
<1>3. c \in Positive /\ c \in Int /\ c > 0
  BY <1>0, <1>2, LCMIs DEF Positive
<1>4. Divides(c, d)
  BY <1>0, <1>2, LCMDivides DEF Parts
<1>5. c <= d
  <2>1. Abs(d) = d
    BY <1>2 DEF Abs
  <2> QED
    BY <1>2, <1>3, <1>4, <2>1, DivisorIsLess
<1>6. Common(x, y) = c
  <2>1. IntRange \div 2 \in Int
    BY NumbersAssumption, Division DEF Positive
  <2>2. c \in Nat /\ c < IntRange \div 2
    BY <1>2, <1>3, <1>5, <2>1
  <2>3. ToInt(c) = c
    BY <2>2, IntIs
  <2> QED
    BY <1>0, <2>3 DEF Common
<1>7. PICK e \in Int : d = c * e
  BY <1>2, <1>3, <1>4, DividesIs
<1>8. PICK k \in Int : c = b * k
  BY <1>0, <1>2, LCMIs
<1>9. PICK l \in Int : c = n * l
  BY <1>0, <1>2, LCMIs
<1>10. Quot(c, b) = k /\ Quot(c, n) = l
  BY <1>2, <1>8, <1>9, ExactQuot
<1>11. Plus(x, y) = Simplify(Number(a * k + m * l, c)) /\ Minus(x, y) = Simplify(Number(a * k - m * l, c))
  BY <1>0, <1>6, <1>10 DEF Plus, Minus
<1>12. Worth(x, d) = (a * k) * e
  <2>1. PICK i \in Positive : d = b * i /\ Worth(x, d) = a * i
    BY <1>0, WorthIs
  <2>2. i \in Int /\ i * b = (k * e) * b /\ k * e \in Int
    <3>1. i \in Int
      BY DEF Positive
    <3>2. (b * k) * e = (k * e) * b /\ b * i = i * b
      BY <1>2, <3>1
    <3> QED
      BY <1>7, <1>8, <2>1, <3>1, <3>2
  <2>3. i = k * e
    BY <1>2, <2>2, Cancel
  <2>4. a * (k * e) = (a * k) * e
    BY <1>2
  <2> QED
    BY <2>1, <2>3, <2>4
<1>13. Worth(y, d) = (m * l) * e
  <2>1. PICK i \in Positive : d = n * i /\ Worth(y, d) = m * i
    BY <1>0, WorthIs
  <2>2. i \in Int /\ i * n = (l * e) * n /\ l * e \in Int
    <3>1. i \in Int
      BY DEF Positive
    <3>2. (n * l) * e = (l * e) * n /\ n * i = i * n
      BY <1>2, <3>1
    <3> QED
      BY <1>7, <1>9, <2>1, <3>1, <3>2
  <2>3. i = l * e
    BY <1>2, <2>2, Cancel
  <2>4. m * (l * e) = (m * l) * e
    BY <1>2
  <2> QED
    BY <2>1, <2>3, <2>4
<1>14. PICK p, q : p = a * k /\ q = m * l
  OBVIOUS
<1>15. p \in Int /\ q \in Int /\ p + q \in Int /\ p - q \in Int
  BY <1>2, <1>14
<1>16. (p + q) * e = p * e + q * e /\ (p - q) * e = p * e - q * e
  BY <1>15
<1>17. /\ Simplify(Number(p + q, c)) \in Parts(d) /\ Worth(Simplify(Number(p + q, c)), d) = (p + q) * e
       /\ Simplify(Number(p - q, c)) \in Parts(d) /\ Worth(Simplify(Number(p - q, c)), d) = (p - q) * e
  <2>1. ASSUME NEW i \in Int
        PROVE  Simplify(Number(i, c)) \in Parts(d) /\ Worth(Simplify(Number(i, c)), d) = i * e
    BY <1>3, <1>7, SimplifiedParts
  <2> QED
    BY <1>15, <2>1
<1> QED
  BY <1>11, <1>12, <1>13, <1>14, <1>16, <1>17

---------------------------------------------------------------------------
(* An order in which lengths ascend.                                       *)

\* An order of n numbers in which they ascend.
Sorts(order, w, n) ==
  /\ order \in [1 .. n -> 1 .. n] /\ \A v \in 1 .. n : \E i \in 1 .. n : order[i] = v
  /\ \A i, j \in 1 .. n : i < j => w[order[i]] <= w[order[j]]

\* There is one: the last number is put behind those that are not greater.
LEMMA Sortable ==
  ASSUME NEW n \in Nat, NEW w \in [1 .. n -> Int]
  PROVE  \E order : Sorts(order, w, n)
<1> DEFINE P == {k \in 0 .. n : \E order : Sorts(order, w, k)}
<1>1. 0 \in P
  <2>1. Sorts([i \in 1 .. 0 |-> i], w, 0)
    BY DEF Sorts
  <2> QED
    BY <2>1
<1>2. ASSUME NEW k \in 1 .. n, k - 1 \in P
      PROVE  k \in P
  <2>0. k \in Nat /\ k \in 0 .. n /\ k - 1 \in Nat
    OBVIOUS
  <2>1. PICK p : Sorts(p, w, k - 1)
    BY <1>2
  <2>2. /\ p \in [1 .. k - 1 -> 1 .. k - 1] /\ \A v \in 1 .. k - 1 : \E i \in 1 .. k - 1 : p[i] = v
        /\ \A i, j \in 1 .. k - 1 : i < j => w[p[i]] <= w[p[j]]
    BY <2>1 DEF Sorts
  <2>9. w[k] \in Int /\ \A i \in 1 .. k - 1 : p[i] \in 1 .. k /\ w[p[i]] \in Int
    <3>1. \A i \in 1 .. k - 1 : p[i] \in 1 .. k - 1
      BY <2>2
    <3>2. \A v \in 1 .. k - 1 : v \in 1 .. k /\ v \in 1 .. n
      BY <2>0
    <3>3. \A v \in 1 .. n : w[v] \in Int
      OBVIOUS
    <3> QED
      BY <3>1, <3>2, <3>3
  <2> DEFINE S == {i \in 1 .. k - 1 : w[p[i]] <= w[k]}
  <2>3. PICK q \in 0 .. k - 1 : /\ \A i \in 1 .. k - 1 : i <= q => w[p[i]] <= w[k]
                                /\ \A i \in 1 .. k - 1 : i > q => w[p[i]] > w[k]
    <3>1. CASE S = {}
      <4>1. \A i \in 1 .. k - 1 : ~(i <= 0) /\ w[p[i]] > w[k]
        BY <2>9, <3>1
      <4>2. 0 \in 0 .. k - 1
        BY <2>0
      <4>3. /\ \A i \in 1 .. k - 1 : i <= 0 => w[p[i]] <= w[k]
            /\ \A i \in 1 .. k - 1 : i > 0 => w[p[i]] > w[k]
        BY <4>1
      <4> QED
        BY <4>2, <4>3, Zenon
    <3>2. CASE S # {}
      <4>1. PICK q : q = Max(S)
        OBVIOUS
      <4>2. q \in S /\ \A i \in S : i <= q
        <5> S \in SUBSET (1 .. k - 1)
          OBVIOUS
        <5> HIDE DEF S
        <5> QED
          BY <2>0, <3>2, <4>1, LastPlace
      <4>3. q \in 1 .. k - 1 /\ w[p[q]] <= w[k]
        BY <4>2
      <4>4. ASSUME NEW i \in 1 .. k - 1, i <= q
            PROVE  w[p[i]] <= w[k]
        <5>1. CASE i = q
          BY <4>3, <5>1
        <5>2. CASE i # q
          <6>1. i < q
            BY <2>0, <4>3, <4>4, <5>2
          <6>2. w[p[i]] <= w[p[q]] /\ w[p[q]] \in Int /\ w[p[i]] \in Int
            BY <2>2, <2>9, <4>3, <6>1
          <6> QED
            BY <2>9, <4>3, <6>2
        <5> QED
          BY <5>1, <5>2
      <4>5. ASSUME NEW i \in 1 .. k - 1, i > q
            PROVE  w[p[i]] > w[k]
        <5>1. i \notin S
          BY <4>2, <4>3, <4>5
        <5> QED
          BY <2>9, <5>1
      <4>6. q \in 0 .. k - 1
        BY <2>0, <4>3
      <4> QED
        BY <4>4, <4>5, <4>6, Zenon
    <3> QED
      BY <3>1, <3>2
  <2> HIDE DEF S
  <2> DEFINE r == [i \in 1 .. k |-> IF i <= q THEN p[i] ELSE IF i = q + 1 THEN k ELSE p[i - 1]]
  <2>4. \A i \in 1 .. k : /\ i <= q => i \in 1 .. k - 1 /\ r[i] = p[i]
                          /\ i = q + 1 => r[i] = k
                          /\ i > q + 1 => i - 1 \in 1 .. k - 1 /\ i - 1 > q /\ r[i] = p[i - 1]
    BY <2>0
  <2>5. r \in [1 .. k -> 1 .. k]
    <3>1. \A i \in 1 .. k : i <= q \/ i = q + 1 \/ i > q + 1
      BY <2>0
    <3>2. ASSUME NEW i \in 1 .. k
          PROVE  r[i] \in 1 .. k
      <4> HIDE DEF r
      <4>1. CASE i <= q
        BY <2>4, <2>9, <4>1
      <4>2. CASE i = q + 1
        BY <2>0, <2>4, <4>2
      <4>3. CASE i > q + 1
        BY <2>4, <2>9, <4>3
      <4> QED
        BY <3>1, <4>1, <4>2, <4>3
    <3> QED
      BY <3>2
  <2>6. ASSUME NEW v \in 1 .. k
        PROVE  \E i \in 1 .. k : r[i] = v
    <3>1. CASE v = k
      <4>1. q + 1 \in 1 .. k
        BY <2>0
      <4> HIDE DEF r
      <4> QED
        BY <2>4, <3>1, <4>1
    <3>2. CASE v # k
      <4>1. v \in 1 .. k - 1
        BY <2>0, <3>2
      <4>2. PICK i \in 1 .. k - 1 : p[i] = v
        BY <2>2, <4>1
      <4>3. i <= q => i \in 1 .. k
        BY <2>0
      <4>4. i > q => i + 1 \in 1 .. k /\ i + 1 > q + 1 /\ (i + 1) - 1 = i
        BY <2>0
      <4>5. i <= q \/ i > q
        BY <2>0
      <4> HIDE DEF r
      <4>6. i > q => r[i + 1] = v
        BY <2>4, <4>2, <4>4
      <4>7. i <= q => r[i] = v
        BY <2>4, <4>2, <4>3
      <4> QED
        BY <4>3, <4>4, <4>5, <4>6, <4>7
    <3> QED
      BY <3>1, <3>2
  <2>7. ASSUME NEW i \in 1 .. k, NEW j \in 1 .. k, i < j
        PROVE  w[r[i]] <= w[r[j]]
    <3> HIDE DEF r
    <3>1. \A h \in 1 .. k : h <= q \/ h = q + 1 \/ h > q + 1
      BY <2>0
    <3>3. CASE j <= q
      <4>1. i <= q /\ i \in 1 .. k - 1 /\ j \in 1 .. k - 1
        BY <2>0, <2>7, <3>3
      <4> QED
        BY <2>2, <2>4, <2>7, <3>3, <4>1
    <3>4. CASE j = q + 1
      <4>1. i <= q
        BY <2>0, <2>7, <3>4
      <4> QED
        BY <2>3, <2>4, <3>4, <4>1
    <3>5. CASE j > q + 1
      <4>1. j - 1 \in 1 .. k - 1 /\ j - 1 > q /\ r[j] = p[j - 1]
        BY <2>4, <3>5
      <4>2. w[r[j]] > w[k] /\ w[p[j - 1]] \in Int
        BY <2>3, <2>9, <4>1
      <4>3. CASE i <= q
        <5>1. i \in 1 .. k - 1 /\ r[i] = p[i] /\ i < j - 1
          BY <2>0, <2>4, <4>1, <4>3
        <5> QED
          BY <2>2, <4>1, <5>1
      <4>4. CASE i = q + 1
        BY <2>4, <2>9, <4>1, <4>2, <4>4
      <4>5. CASE i > q + 1
        <5>1. i - 1 \in 1 .. k - 1 /\ r[i] = p[i - 1] /\ i - 1 < j - 1
          BY <2>0, <2>4, <2>7, <4>5
        <5> QED
          BY <2>2, <4>1, <5>1
      <4> QED
        BY <3>1, <4>3, <4>4, <4>5
    <3> QED
      BY <3>1, <3>3, <3>4, <3>5
  <2>8. Sorts(r, w, k)
    <3> HIDE DEF r
    <3> QED
      BY <2>5, <2>6, <2>7 DEF Sorts
  <2> HIDE DEF r
  <2> QED
    BY <2>0, <2>8
<1>3. 0 .. n \subseteq P
  <2> HIDE DEF P
  <2> QED
    BY <1>1, <1>2, Climb
<1> QED
  BY <1>3

(* What Ascending chooses.                                                 *)
Sorted(s, lengths, d) ==
  /\ s \in [DOMAIN lengths -> Parts(d)]
  /\ \A i \in DOMAIN lengths : \E j \in DOMAIN lengths : s[i] = lengths[j]
  /\ \A j \in DOMAIN lengths : \E i \in DOMAIN lengths : s[i] = lengths[j]
  /\ \A i, j \in DOMAIN lengths : i < j => Worth(s[i], d) <= Worth(s[j], d)

LEMMA AscendingIs ==
  ASSUME NEW d \in Positive, NEW lengths \in Seq(Parts(d))
  PROVE  Sorted(Ascending(lengths), lengths, d)
<1> DEFINE D == DOMAIN lengths
           All == {[i \in D |-> lengths[order[i]]] : order \in Surjection(D, D)}
           Right(s) == \A i, j \in D : i < j => ~Less(s[j], s[i])
<1>1. PICK n \in Nat : D = 1 .. n /\ \A i \in D : lengths[i] \in Parts(d)
  OBVIOUS
<1> DEFINE w == [i \in 1 .. n |-> Worth(lengths[i], d)]
<1>2. w \in [1 .. n -> Int]
  BY <1>1, WorthIs
<1>3. PICK order : Sorts(order, w, n)
  <2> HIDE DEF w
  <2> QED
    BY <1>2, Sortable
<1>4. order \in Surjection(D, D)
  BY <1>1, <1>3 DEF Sorts, Surjection
<1>5. ASSUME NEW s \in All, NEW i \in D
      PROVE  s[i] \in Parts(d)
  <2>1. PICK o \in Surjection(D, D) : s = [j \in D |-> lengths[o[j]]]
    OBVIOUS
  <2>2. o[i] \in D
    BY DEF Surjection
  <2> HIDE DEF D
  <2> QED
    BY <1>1, <2>1, <2>2
<1>6. \A s \in All : Right(s) <=> \A i, j \in D : i < j => Worth(s[i], d) <= Worth(s[j], d)
  <2>1. \A x, y \in Parts(d) : ~Less(y, x) <=> Worth(x, d) <= Worth(y, d)
    BY ComparesParts, WorthIs
  <2> HIDE DEF All, D
  <2> QED
    BY <1>5, <2>1
<1> DEFINE sorted == [i \in D |-> lengths[order[i]]]
<1>7. sorted \in All
  BY <1>4
<1>8. Right(sorted)
  <2>1. \A i \in D : order[i] \in 1 .. n /\ Worth(sorted[i], d) = w[order[i]]
    BY <1>1, <1>3 DEF Sorts
  <2>2. \A i, j \in D : i < j => Worth(sorted[i], d) <= Worth(sorted[j], d)
    <3>1. \A i, j \in 1 .. n : i < j => w[order[i]] <= w[order[j]]
      BY <1>3 DEF Sorts
    <3> HIDE DEF w, sorted
    <3>2. \A i \in 1 .. n : w[order[i]] = Worth(sorted[i], d)
      BY <1>1, <2>1
    <3> QED
      BY <1>1, <3>1, <3>2
  <2> HIDE DEF sorted, Right, All
  <2> QED
    BY <1>6, <1>7, <2>2
<1>9. Ascending(lengths) = CHOOSE s \in All : Right(s)
  BY DEF Ascending
<1>10. PICK s : s = Ascending(lengths)
  OBVIOUS
<1>11. s \in All /\ Right(s)
  <2> HIDE DEF All, Right, sorted
  <2> QED
    BY <1>7, <1>8, <1>9, <1>10
<1>12. PICK o \in Surjection(D, D) : s = [i \in D |-> lengths[o[i]]]
  BY <1>11
<1>13. s \in [D -> Parts(d)]
  BY <1>1, <1>12 DEF Surjection
<1>14. \A i \in D : o[i] \in D /\ s[i] = lengths[o[i]]
  BY <1>12 DEF Surjection
<1>15. \A j \in D : \E i \in D : s[i] = lengths[j]
  BY <1>12, <1>14 DEF Surjection
<1>16. \A i, j \in D : i < j => Worth(s[i], d) <= Worth(s[j], d)
  <2> HIDE DEF All, Right, D
  <2> QED
    BY <1>6, <1>11
<1> QED
  BY <1>10, <1>13, <1>14, <1>15, <1>16 DEF Sorted

---------------------------------------------------------------------------
(* What one chord lasts for duration, and its longest length.              *)

(* Notes that last some d-ths.                                             *)
Tuned(d) == {n \in Notes : Fill(n).length \in Parts(d)}
Longer(length, n) == IF Less(length, Fill(n).length) THEN Fill(n).length ELSE length

\* How long the notes of a chord last, in d-ths.
Lasts(c, d, j) == Worth(Fill(c[j]).length, d)

\* The longest length of a chord is one of its lengths, or nothing.
LEMMA LongestWorth ==
  ASSUME NEW d \in Positive, NEW chord \in Seq(Tuned(d))
  PROVE  /\ Longest(chord) \in Parts(d)
         /\ Worth(Longest(chord), d) >= 0
         /\ \A j \in DOMAIN chord : Lasts(chord, d, j) <= Worth(Longest(chord), d)
         /\ \/ Worth(Longest(chord), d) = 0
            \/ \E j \in DOMAIN chord : Worth(Longest(chord), d) = Lasts(chord, d, j)
<1> DEFINE zero == Number(0, 1)
           T == Tuned(d)
           V == Parts(d)
           step == [n \in T |-> [v \in V |-> Longer(v, n)]]
           iter[s \in SUBSET DOMAIN chord] ==
             IF s = {} THEN zero ELSE Longer(iter[s \ {Max(s)}], chord[Max(s)])
<1>1. zero \in V /\ Worth(zero, d) = 0 /\ chord \in Seq(T)
  BY NothingIs
<1>2. \A n \in T, v \in V : Longer(v, n) \in V
  BY DEF Tuned, Longer
<1>3. step \in [T -> [V -> V]]
  BY <1>2
<1>4. PICK h : Folds(h, chord, V, zero, step)
  <2> HIDE DEF zero, step, T, V
  <2> QED
    BY <1>1, <1>3, Folded, Zenon
<1>5. \A s \in SUBSET DOMAIN chord :
        s # {} => chord[Max(s)] \in T /\ s \ {Max(s)} \in SUBSET DOMAIN chord
  BY <1>1, PlacesFall
<1>6. ASSUME NEW s \in SUBSET DOMAIN chord
      PROVE  h[s] = IF s = {} THEN zero ELSE Longer(h[s \ {Max(s)}], chord[Max(s)])
  <2> HIDE DEF zero, T, V
  <2>1. CASE s = {}
    BY <1>4, <2>1 DEF Folds
  <2>2. CASE s # {}
    <3>1. h[s] = step[chord[Max(s)]][h[s \ {Max(s)}]]
      <4> HIDE DEF step
      <4> QED
        BY <1>4, <2>2 DEF Folds
    <3>2. chord[Max(s)] \in T /\ h[s \ {Max(s)}] \in V
      BY <1>4, <1>5, <2>2 DEF Folds
    <3> QED
      BY <2>2, <3>1, <3>2
  <2> QED
    BY <2>1, <2>2
<1>7. h = [s \in SUBSET DOMAIN chord |->
             IF s = {} THEN zero ELSE Longer(h[s \ {Max(s)}], chord[Max(s)])]
  <2> HIDE DEF zero, step, T, V
  <2> QED
    BY <1>4, <1>6 DEF Folds
<1>8. iter = [s \in SUBSET DOMAIN chord |->
                IF s = {} THEN zero ELSE Longer(iter[s \ {Max(s)}], chord[Max(s)])]
  <2> HIDE DEF zero
  <2> QED
    BY <1>7, Zenon
<1>9. Longest(chord) = iter[DOMAIN chord]
  BY Zenon DEF Longest, FoldLeft, MapThenFoldSet, Longer
<1> HIDE DEF iter
<1>10. PICK t : Stages(t, chord, V, zero, step) /\ t[Len(chord)] = Longest(chord)
  <2>1. iter[{}] = zero
    BY <1>8
  <2>2. \A s \in SUBSET DOMAIN chord : s # {} /\ chord[Max(s)] \in T /\ iter[s \ {Max(s)}] \in V
                                         => iter[s] = step[chord[Max(s)]][iter[s \ {Max(s)}]]
    <3> HIDE DEF T, V, zero
    <3> QED
      BY <1>8
  <2> HIDE DEF zero, step, T, V
  <2>3. PICK g : g = iter
    OBVIOUS
  <2>5. zero \in V /\ chord \in Seq(T) /\ g[DOMAIN chord] = Longest(chord)
    BY <1>1, <1>9, <2>3, Zenon
  <2>4. Unfolds(g, chord, T, V, zero, step)
    BY <1>3, <2>1, <2>2, <2>3, <2>5, Zenon DEF Unfolds
  <2>6. \E t : Stages(t, chord, V, zero, step) /\ t[Len(chord)] = g[DOMAIN chord]
    BY <2>4, Staged
  <2> QED
    BY <2>5, <2>6, Zenon
<1>11. Len(chord) \in Nat /\ DOMAIN chord = 1 .. Len(chord) /\ \A j \in 1 .. Len(chord) : chord[j] \in T
  BY <1>1
<1>12. /\ \A k \in 0 .. Len(chord) : t[k] \in V
       /\ t[0] = zero
       /\ \A k \in 1 .. Len(chord) : t[k] = Longer(t[k - 1], chord[k])
  <2>1. /\ \A k \in 0 .. Len(chord) : t[k] \in V
        /\ t[0] = zero
        /\ \A k \in 1 .. Len(chord) : t[k] = step[chord[k]][t[k - 1]]
    <3> HIDE DEF zero, step, T, V
    <3> QED
      BY <1>10 DEF Stages
  <2>2. \A k \in 1 .. Len(chord) : k - 1 \in 0 .. Len(chord)
    BY <1>11
  <2> HIDE DEF T, V, zero
  <2> QED
    BY <1>11, <2>1, <2>2
<1> HIDE DEF zero, T, V, step
<1> DEFINE So(k) ==
             /\ Worth(t[k], d) >= 0
             /\ \A j \in 1 .. k : Lasts(chord, d, j) <= Worth(t[k], d)
             /\ Worth(t[k], d) = 0 \/ \E j \in 1 .. k : Worth(t[k], d) = Lasts(chord, d, j)
           P == {k \in 0 .. Len(chord) : So(k)}
<1>13. 0 \in P
  BY <1>1, <1>11, <1>12
<1>14. ASSUME NEW k \in 1 .. Len(chord), k - 1 \in P
       PROVE  k \in P
  <2>1. k \in Nat /\ k - 1 \in 0 .. Len(chord) /\ k \in 0 .. Len(chord) /\ k \in 1 .. k
        /\ (\A j \in 1 .. k : j \in 1 .. k - 1 \/ j = k) /\ \A j \in 1 .. k - 1 : j \in 1 .. k
    BY <1>11
  <2>2. PICK u, v, l : u = t[k - 1] /\ v = t[k] /\ l = Fill(chord[k]).length
    OBVIOUS
  <2>3. u \in Parts(d) /\ l \in Parts(d) /\ v = IF Less(u, l) THEN l ELSE u
    BY <1>11, <1>12, <2>1, <2>2 DEF Longer, Tuned, T, V
  <2>4. PICK wu, wv, wl : wu = Worth(u, d) /\ wv = Worth(v, d) /\ wl = Worth(l, d)
    OBVIOUS
  <2>5. wu \in Int /\ wl \in Int /\ wv = IF wu < wl THEN wl ELSE wu
    BY <2>3, <2>4, ComparesParts, WorthIs
  <2>6. Lasts(chord, d, k) = wl /\ \A j \in 1 .. k - 1 : Lasts(chord, d, j) \in Int
    <3>1. \A j \in 1 .. k - 1 : chord[j] \in T
      BY <1>11, <2>1
    <3> QED
      BY <2>2, <2>4, <3>1, WorthIs DEF Lasts, Tuned, T
  <2>7. /\ wu >= 0
        /\ \A j \in 1 .. k - 1 : Lasts(chord, d, j) <= wu
        /\ wu = 0 \/ \E j \in 1 .. k - 1 : wu = Lasts(chord, d, j)
    BY <1>14, <2>2, <2>4
  <2>8. wv >= 0 /\ wu <= wv /\ wl <= wv /\ (wv = wl \/ wv = wu)
    BY <2>5, <2>7
  <2>9. \A j \in 1 .. k : Lasts(chord, d, j) <= wv
    <3>1. \A j \in 1 .. k - 1 : Lasts(chord, d, j) <= wv
      BY <2>5, <2>6, <2>7, <2>8
    <3> QED
      BY <2>1, <2>6, <2>8, <3>1
  <2>10. wv = 0 \/ \E j \in 1 .. k : wv = Lasts(chord, d, j)
    BY <2>1, <2>6, <2>7, <2>8
  <2>11. So(k)
    BY <2>2, <2>4, <2>8, <2>9, <2>10
  <2> HIDE DEF So
  <2> QED
    BY <2>1, <2>11
<1>15. So(Len(chord))
  <2>1. 0 .. Len(chord) \subseteq P
    <3> HIDE DEF P
    <3> QED
      BY <1>11, <1>13, <1>14, Climb
  <2>2. Len(chord) \in P
    <3> HIDE DEF P
    <3> QED
      BY <1>11, <2>1
  <2> HIDE DEF So
  <2> QED
    BY <2>2
<1>16. Longest(chord) \in Parts(d)
  BY <1>10, <1>11, <1>12 DEF V
<1> QED
  BY <1>10, <1>11, <1>15, <1>16

---------------------------------------------------------------------------
(* What play() waits for one chord.                                        *)

(* What play() has waited, and what is left of the longest length.          *)
Waits(d) == [max : Parts(d), time : Parts(d)]

LEMMA WaitIs ==
  ASSUME NEW d \in Positive, d < IntRange \div 2, NEW s \in Waits(d), NEW length \in Parts(d)
  PROVE  LET r == Wait(s, length)
             max == Worth(s.max, d)
             time == Worth(s.time, d)
             l == Worth(length, d)
         IN  /\ r \in Waits(d)
             /\ Worth(r.max, d) = IF max = 0 THEN 0 ELSE max - l
             /\ Worth(r.time, d) = IF max = 0 THEN time ELSE IF l < 0 THEN time ELSE time + l
<1>1. s.max \in Parts(d) /\ s.time \in Parts(d)
  BY DEF Waits
<1>2. Number(0, 1) \in Parts(d) /\ Worth(Number(0, 1), d) = 0
  BY NothingIs
<1>3. \A x \in Parts(d) : Worth(x, d) \in Int
  BY WorthIs
<1>4. PICK zero : zero = Number(0, 1)
  OBVIOUS
<1>5. Equal(s.max, zero) <=> Worth(s.max, d) = 0
  BY <1>1, <1>2, <1>4, ComparesParts
<1>6. CASE Worth(s.max, d) = 0
  <2>1. Wait(s, length) = s
    BY <1>4, <1>5, <1>6 DEF Wait
  <2> QED
    BY <1>6, <2>1
<1>7. CASE Worth(s.max, d) # 0
  <2>1. Wait(s, length) = [max |-> Minus(s.max, length), time |-> Plus(s.time, NotNegative(length))]
    BY <1>4, <1>5, <1>7 DEF Wait
  <2>2. PICK u : u = NotNegative(length)
    OBVIOUS
  <2>3. u \in Parts(d) /\ Worth(u, d) = IF Worth(length, d) < 0 THEN 0 ELSE Worth(length, d)
    <3>1. Less(length, zero) <=> Worth(length, d) < 0
      BY <1>2, <1>4, ComparesParts
    <3> QED
      BY <1>2, <1>4, <2>2, <3>1 DEF NotNegative
  <2>4. PICK p, q : p = Minus(s.max, length) /\ q = Plus(s.time, u)
    OBVIOUS
  <2>5. /\ p \in Parts(d) /\ Worth(p, d) = Worth(s.max, d) - Worth(length, d)
        /\ q \in Parts(d) /\ Worth(q, d) = Worth(s.time, d) + Worth(u, d)
    BY <1>1, <2>3, <2>4, AddsParts
  <2>6. PICK r : r = Wait(s, length)
    OBVIOUS
  <2>7. r = [max |-> p, time |-> q]
    BY <2>1, <2>2, <2>4, <2>6
  <2>8. r \in Waits(d) /\ r.max = p /\ r.time = q
    BY <2>5, <2>7 DEF Waits
  <2>9. Worth(q, d) = IF Worth(length, d) < 0 THEN Worth(s.time, d) ELSE Worth(s.time, d) + Worth(length, d)
    BY <1>1, <1>3, <2>3, <2>5
  <2> QED
    BY <1>7, <2>5, <2>6, <2>8, <2>9
<1> QED
  BY <1>6, <1>7

\* How play() begins with a chord.
Waiting0(lengths) == [max |-> Last(lengths), time |-> Number(0, 1)]

LEMMA WaitStages ==
  ASSUME NEW d \in Positive, d < IntRange \div 2, NEW lengths \in Seq(Parts(d)), lengths # <<>>
  PROVE  \E t : /\ \A k \in 0 .. Len(lengths) : t[k] \in Waits(d)
                /\ t[0] = Waiting0(lengths)
                /\ \A k \in 1 .. Len(lengths) : t[k] = Wait(t[k - 1], lengths[k])
                /\ t[Len(lengths)] = FoldLeft(Wait, Waiting0(lengths), lengths)
<1> DEFINE start == Waiting0(lengths)
           T == Parts(d)
           V == Waits(d)
           step == [l \in T |-> [v \in V |-> Wait(v, l)]]
           iter[s \in SUBSET DOMAIN lengths] ==
             IF s = {} THEN start ELSE Wait(iter[s \ {Max(s)}], lengths[Max(s)])
<1>1. start \in V
  <2>1. Len(lengths) \in Nat /\ Len(lengths) # 0
    OBVIOUS
  <2>2. Last(lengths) \in Parts(d)
    BY <2>1 DEF Last
  <2> QED
    BY <2>2, NothingIs DEF Waiting0, Waits
<1>2. \A l \in T, v \in V : Wait(v, l) \in V
  BY WaitIs
<1>3. step \in [T -> [V -> V]]
  BY <1>2
<1>4. PICK h : Folds(h, lengths, V, start, step)
  <2> HIDE DEF start, step, V, T
  <2> QED
    BY <1>1, <1>3, Folded, Zenon DEF T
<1>5. \A s \in SUBSET DOMAIN lengths :
        s # {} => lengths[Max(s)] \in T /\ s \ {Max(s)} \in SUBSET DOMAIN lengths
  BY PlacesFall
<1>6. ASSUME NEW s \in SUBSET DOMAIN lengths
      PROVE  h[s] = IF s = {} THEN start ELSE Wait(h[s \ {Max(s)}], lengths[Max(s)])
  <2> HIDE DEF start, T, V
  <2>1. CASE s = {}
    BY <1>4, <2>1 DEF Folds
  <2>2. CASE s # {}
    <3>1. h[s] = step[lengths[Max(s)]][h[s \ {Max(s)}]]
      <4> HIDE DEF step
      <4> QED
        BY <1>4, <2>2 DEF Folds
    <3>2. lengths[Max(s)] \in T /\ h[s \ {Max(s)}] \in V
      BY <1>4, <1>5, <2>2 DEF Folds
    <3> QED
      BY <2>2, <3>1, <3>2
  <2> QED
    BY <2>1, <2>2
<1>7. h = [s \in SUBSET DOMAIN lengths |->
             IF s = {} THEN start ELSE Wait(h[s \ {Max(s)}], lengths[Max(s)])]
  <2> HIDE DEF start, step, T, V
  <2> QED
    BY <1>4, <1>6 DEF Folds
<1>8. iter = [s \in SUBSET DOMAIN lengths |->
                IF s = {} THEN start ELSE Wait(iter[s \ {Max(s)}], lengths[Max(s)])]
  <2> HIDE DEF start
  <2> QED
    BY <1>7, Zenon
<1>9. FoldLeft(Wait, start, lengths) = iter[DOMAIN lengths]
  BY Zenon DEF FoldLeft, MapThenFoldSet
<1> HIDE DEF iter
<1>10. PICK t : Stages(t, lengths, V, start, step) /\ t[Len(lengths)] = FoldLeft(Wait, start, lengths)
  <2>1. iter[{}] = start
    BY <1>8
  <2>2. \A s \in SUBSET DOMAIN lengths : s # {} /\ lengths[Max(s)] \in T /\ iter[s \ {Max(s)}] \in V
                                         => iter[s] = step[lengths[Max(s)]][iter[s \ {Max(s)}]]
    <3> HIDE DEF T, V, start
    <3> QED
      BY <1>8
  <2>3. lengths \in Seq(T)
    OBVIOUS
  <2> HIDE DEF start, step, T, V
  <2>4. PICK g : g = iter
    OBVIOUS
  <2>5. Unfolds(g, lengths, T, V, start, step)
    BY <1>1, <1>3, <2>1, <2>2, <2>3, <2>4, Zenon DEF Unfolds
  <2>6. \E t : Stages(t, lengths, V, start, step) /\ t[Len(lengths)] = g[DOMAIN lengths]
    BY <2>5, Staged
  <2> QED
    BY <1>9, <2>4, <2>6, Zenon
<1>11. Len(lengths) \in Nat /\ \A j \in 1 .. Len(lengths) : lengths[j] \in T
  OBVIOUS
<1>12. /\ \A k \in 0 .. Len(lengths) : t[k] \in V
       /\ t[0] = start
       /\ \A k \in 1 .. Len(lengths) : t[k] = step[lengths[k]][t[k - 1]]
  <2> HIDE DEF start, step, T, V
  <2> QED
    BY <1>10 DEF Stages
<1>13. \A k \in 1 .. Len(lengths) : t[k] = Wait(t[k - 1], lengths[k])
  <2>1. \A k \in 1 .. Len(lengths) : k - 1 \in 0 .. Len(lengths)
    BY <1>11
  <2> HIDE DEF T, V, start
  <2> QED
    BY <1>11, <1>12, <2>1
<1> QED
  BY <1>10, <1>12, <1>13

\* Waiting takes as long as the last length, and just that if all are equal.
LEMMA WaitedIs ==
  ASSUME NEW d \in Positive, d < IntRange \div 2, NEW lengths \in Seq(Parts(d)), lengths # <<>>
  PROVE  LET time == FoldLeft(Wait, Waiting0(lengths), lengths).time
             last == Worth(Last(lengths), d)
         IN  /\ time \in Parts(d) /\ Worth(time, d) >= 0 /\ Worth(time, d) >= last
             /\ (\A i \in DOMAIN lengths : Worth(lengths[i], d) = last)
                  => Worth(time, d) = 0 \/ Worth(time, d) = last
<1>1. PICK t : /\ \A k \in 0 .. Len(lengths) : t[k] \in Waits(d)
               /\ t[0] = Waiting0(lengths)
               /\ \A k \in 1 .. Len(lengths) : t[k] = Wait(t[k - 1], lengths[k])
               /\ t[Len(lengths)] = FoldLeft(Wait, Waiting0(lengths), lengths)
  BY WaitStages
<1>2. PICK n, last : n = Len(lengths) /\ last = Worth(Last(lengths), d)
  OBVIOUS
<1>3. n \in Nat /\ n > 0 /\ DOMAIN lengths = 1 .. n /\ Last(lengths) = lengths[n]
      /\ \A i \in 1 .. n : lengths[i] \in Parts(d)
  BY <1>2 DEF Last
<1>4. last \in Int /\ last = Worth(lengths[n], d) /\ \A x \in Parts(d) : Worth(x, d) \in Int
  BY <1>2, <1>3, WorthIs
<1> DEFINE max(k) == Worth(t[k].max, d)
           time(k) == Worth(t[k].time, d)
           l(k) == Worth(lengths[k], d)
           even == \A i \in 1 .. n : l(i) = last
           So(k) == /\ time(k) >= 0 /\ time(k) + max(k) >= last
                    /\ max(k) = 0 \/ k = 0 \/ time(k) >= l(k)
                    /\ even => \/ max(k) = 0 /\ (time(k) = 0 \/ time(k) = last)
                               \/ k = 0 /\ max(k) = last /\ time(k) = 0
           P == {k \in 0 .. n : So(k)}
<1>5. \A k \in 0 .. n : t[k].max \in Parts(d) /\ t[k].time \in Parts(d) /\ max(k) \in Int /\ time(k) \in Int
  BY <1>1, <1>2, <1>4 DEF Waits
<1>6. \A k \in 1 .. n : l(k) \in Int /\ k - 1 \in 0 .. n /\ k \in 0 .. n
  BY <1>3, <1>4
<1>7. 0 \in P
  <2>1. t[0].max = Last(lengths) /\ t[0].time = Number(0, 1) /\ Worth(Number(0, 1), d) = 0
    BY <1>1, NothingIs DEF Waiting0
  <2>2. max(0) = last /\ time(0) = 0
    BY <1>2, <2>1
  <2> HIDE DEF max, time, l
  <2> QED
    BY <1>3, <1>4, <2>2
<1>8. ASSUME NEW k \in 1 .. n
      PROVE  /\ max(k) = IF max(k - 1) = 0 THEN 0 ELSE max(k - 1) - l(k)
             /\ time(k) = IF max(k - 1) = 0 THEN time(k - 1)
                          ELSE IF l(k) < 0 THEN time(k - 1) ELSE time(k - 1) + l(k)
  <2>1. PICK s, x : s = t[k - 1] /\ x = lengths[k]
    OBVIOUS
  <2>2. s \in Waits(d) /\ x \in Parts(d) /\ t[k] = Wait(s, x)
    BY <1>1, <1>2, <1>3, <1>6, <2>1
  <2> QED
    BY <2>1, <2>2, WaitIs
<1> HIDE DEF max, time, l
<1>9. ASSUME NEW k \in 1 .. n, k - 1 \in P
      PROVE  k \in P
  <2>1. PICK m, m1, u, u1, x : /\ m = max(k - 1) /\ m1 = max(k) /\ u = time(k - 1) /\ u1 = time(k)
                               /\ x = l(k)
    OBVIOUS
  <2>2. m \in Int /\ m1 \in Int /\ u \in Int /\ u1 \in Int /\ x \in Int /\ last \in Int
    BY <1>4, <1>5, <1>6, <2>1
  <2>3. /\ m1 = IF m = 0 THEN 0 ELSE m - x
        /\ u1 = IF m = 0 THEN u ELSE IF x < 0 THEN u ELSE u + x
    BY <1>8, <2>1
  <2>4. So(k - 1)
    BY <1>9
  <2>5. u >= 0 /\ u + m >= last
    BY <2>1, <2>4
  <2>6. u1 >= 0 /\ u1 + m1 >= last /\ (m1 = 0 \/ u1 >= x)
    BY <2>2, <2>3, <2>5
  <2>7. ASSUME even
        PROVE  m1 = 0 /\ (u1 = 0 \/ u1 = last)
    <3>1. x = last
      BY <2>1, <2>7
    <3>2. (m = 0 /\ (u = 0 \/ u = last)) \/ (m = last /\ u = 0)
      BY <2>1, <2>4, <2>7
    <3> QED
      BY <2>2, <2>3, <3>1, <3>2
  <2> HIDE DEF even
  <2>8. So(k)
    BY <2>1, <2>6, <2>7
  <2> HIDE DEF So
  <2> QED
    BY <1>6, <2>8
<1>10. So(n)
  <2>1. 0 .. n \subseteq P
    <3> HIDE DEF P
    <3> QED
      BY <1>3, <1>7, <1>9, Climb
  <2>2. n \in P
    <3> HIDE DEF P
    <3> QED
      BY <1>3, <2>1
  <2> HIDE DEF So
  <2> QED
    BY <2>2
<1>11. time(n) \in Int /\ max(n) \in Int /\ l(n) = last
  <2>1. n \in 0 .. n
    BY <1>3
  <2> QED
    BY <1>4, <1>5, <2>1 DEF l
<1>12. time(n) >= 0 /\ time(n) >= last /\ (even => time(n) = 0 \/ time(n) = last)
  <2> HIDE DEF even
  <2> QED
    BY <1>3, <1>4, <1>10, <1>11
<1>13. FoldLeft(Wait, Waiting0(lengths), lengths).time = t[n].time /\ t[n].time \in Parts(d)
  <2>1. n \in 0 .. n
    BY <1>3
  <2> QED
    BY <1>1, <1>2, <1>5, <2>1
<1> QED
  BY <1>2, <1>3, <1>12, <1>13 DEF time, l

---------------------------------------------------------------------------
(* One chord for both.                                                     *)

Even(c) == c # <<>> /\ \A i \in DOMAIN c : Equal(Fill(c[i]).length, Fill(c[1]).length)

\* A chord is played for its longest length at least, and just that if it is even.
LEMMA PlayTimeIs ==
  ASSUME NEW d \in Positive, d < IntRange \div 2, Divides(Default.length.den, d),
         NEW chord \in Seq(Tuned(d))
  PROVE  /\ PlayTime(chord) \in Parts(d)
         /\ Worth(PlayTime(chord), d) >= Worth(Longest(chord), d)
         /\ Even(chord) => Worth(PlayTime(chord), d) = Worth(Longest(chord), d)
<1>0. \A x \in Parts(d) : Worth(x, d) \in Int
  BY WorthIs
<1>1. CASE chord = <<>>
  <2>1. PlayTime(chord) = Default.length
    BY <1>1 DEF PlayTime
  <2>2. Default.length \in Proper /\ Default.length.num = 1
    BY DEF Default, Number, Proper, Positive
  <2>3. Default.length \in Parts(d)
    BY <2>2 DEF Parts
  <2>4. PICK x : x = Default.length
    OBVIOUS
  <2>5. \E k \in Positive : Worth(x, d) = x.num * k
    BY <2>3, <2>4, WorthIs
  <2>6. Worth(x, d) >= 0
    BY <2>2, <2>4, <2>5 DEF Positive
  <2>7. Worth(Longest(chord), d) = 0
    <3>1. DOMAIN chord = {}
      BY <1>1
    <3> QED
      BY <3>1, LongestWorth, Zenon
  <2> QED
    BY <1>1, <2>1, <2>3, <2>4, <2>6, <2>7 DEF Even
<1>2. CASE chord # <<>>
  <2> DEFINE filled == [i \in DOMAIN chord |-> Fill(chord[i]).length]
  <2>1. PICK n \in Nat : n = Len(chord) /\ n > 0 /\ DOMAIN chord = 1 .. n /\ \A i \in 1 .. n : chord[i] \in Tuned(d)
    BY <1>2
  <2>2. filled \in Seq(Parts(d)) /\ DOMAIN filled = 1 .. n
        /\ \A i \in 1 .. n : Worth(filled[i], d) = Lasts(chord, d, i) /\ Lasts(chord, d, i) \in Int
    <3>1. \A i \in 1 .. n : filled[i] \in Parts(d) /\ filled[i] = Fill(chord[i]).length
      BY <2>1 DEF Tuned
    <3>2. filled \in [1 .. n -> Parts(d)]
      BY <2>1, <3>1
    <3> HIDE DEF filled
    <3> QED
      BY <1>0, <2>1, <3>1, <3>2 DEF Lasts
  <2>3. PICK s : s = Ascending(filled)
    OBVIOUS
  <2>4. /\ s \in [1 .. n -> Parts(d)]
        /\ \A i \in 1 .. n : \E j \in 1 .. n : s[i] = filled[j]
        /\ \A j \in 1 .. n : \E i \in 1 .. n : s[i] = filled[j]
        /\ \A i, j \in 1 .. n : i < j => Worth(s[i], d) <= Worth(s[j], d)
    <3> HIDE DEF filled
    <3>1. Sorted(s, filled, d)
      BY <2>2, <2>3, AscendingIs
    <3> QED
      BY <2>2, <3>1 DEF Sorted
  <2>5. s \in Seq(Parts(d)) /\ Len(s) = n /\ DOMAIN s = 1 .. n /\ s # <<>> /\ Last(s) = s[n]
    <3>1. s \in Seq(Parts(d)) /\ Len(s) = n /\ DOMAIN s = 1 .. n
      <4> HIDE DEF filled
      <4>1. s \in [1 .. n -> Parts(d)] /\ n \in Nat
        BY <2>4
      <4>2. s \in Seq(Parts(d)) /\ DOMAIN s = 1 .. n
        BY <4>1
      <4> QED
        BY <4>1, <4>2
    <3> QED
      BY <2>1, <3>1 DEF Last
  <2>6. PICK time, last, long : /\ time = PlayTime(chord) /\ last = Worth(s[n], d)
                                /\ long = Worth(Longest(chord), d)
    OBVIOUS
  <2>7. time = FoldLeft(Wait, Waiting0(s), s).time
    BY <1>2, <2>3, <2>6 DEF PlayTime, Waiting0
  <2>8. /\ time \in Parts(d) /\ Worth(time, d) >= 0 /\ Worth(time, d) >= last
        /\ (\A i \in 1 .. n : Worth(s[i], d) = last) => Worth(time, d) = 0 \/ Worth(time, d) = last
    BY <2>5, <2>6, <2>7, WaitedIs
  <2>9. last \in Int /\ \A i \in 1 .. n : Worth(s[i], d) <= last /\ Worth(s[i], d) \in Int
    <3>1. \A i \in 1 .. n : Worth(s[i], d) \in Int
      BY <1>0, <2>4
    <3>2. n \in 1 .. n /\ \A i \in 1 .. n : i = n \/ i < n
      BY <2>1
    <3> QED
      BY <2>4, <2>6, <3>1, <3>2
  \* The longest length is the last one, or nothing.
  <2>10. \A j \in 1 .. n : Lasts(chord, d, j) <= last
    <3> HIDE DEF filled
    <3> QED
      BY <2>2, <2>4, <2>9
  <2>11. \E j \in 1 .. n : last = Lasts(chord, d, j)
    <3>1. n \in 1 .. n
      BY <2>1
    <3> HIDE DEF filled
    <3> QED
      BY <2>2, <2>4, <2>6, <3>1
  <2>12. /\ Longest(chord) \in Parts(d) /\ long >= 0 /\ long \in Int
         /\ \A j \in 1 .. n : Lasts(chord, d, j) <= long
         /\ long = 0 \/ \E j \in 1 .. n : long = Lasts(chord, d, j)
    BY <1>0, <2>1, <2>6, LongestWorth
  <2>13. long = IF last < 0 THEN 0 ELSE last
    BY <2>2, <2>9, <2>10, <2>11, <2>12
  <2>14. Worth(time, d) \in Int /\ Worth(time, d) >= long
    BY <1>0, <2>8, <2>9, <2>13
  <2>15. ASSUME Even(chord)
         PROVE  Worth(time, d) = long
    <3>1. PICK first : first = Lasts(chord, d, 1)
      OBVIOUS
    <3>2. \A i \in 1 .. n : Lasts(chord, d, i) = first
      <4>1. ASSUME NEW i \in 1 .. n
            PROVE  Lasts(chord, d, i) = first
        <5>1. Equal(Fill(chord[i]).length, Fill(chord[1]).length)
          BY <2>1, <2>15 DEF Even
        <5>2. Fill(chord[i]).length \in Parts(d) /\ Fill(chord[1]).length \in Parts(d)
          BY <2>1 DEF Tuned
        <5> QED
          BY <3>1, <5>1, <5>2, ComparesParts DEF Lasts
      <4> QED
        BY <4>1
    <3>3. \A i \in 1 .. n : Worth(s[i], d) = first
      <4> HIDE DEF filled
      <4> QED
        BY <2>2, <2>4, <3>2
    <3>4. first = last
      BY <2>11, <3>2
    <3>5. Worth(time, d) = 0 \/ Worth(time, d) = last
      BY <2>8, <3>3, <3>4
    <3> QED
      BY <2>8, <2>9, <2>13, <2>14, <3>5
  <2> QED
    BY <2>6, <2>8, <2>14, <2>15
<1> QED
  BY <1>1, <1>2

---------------------------------------------------------------------------
(* All chords of music.                                                    *)

\* The totals of duration, chord by chord.
LEMMA DurationStages ==
  ASSUME NEW d \in Positive, d < IntRange \div 2, NEW m, m.chords \in Seq(Seq(Tuned(d)))
  PROVE  \E t : /\ \A k \in 0 .. Len(m.chords) : t[k] \in Parts(d)
                /\ t[0] = Number(0, 1)
                /\ \A k \in 1 .. Len(m.chords) : t[k] = Plus(t[k - 1], Longest(m.chords[k]))
                /\ t[Len(m.chords)] = Duration(m)
<1> DEFINE zero == Number(0, 1)
           T == Seq(Tuned(d))
           V == Parts(d)
           Add(total, c) == IF total = Crashed THEN total ELSE Plus(total, Longest(c))
           step == [c \in T |-> [v \in V |-> Add(v, c)]]
           chords == m.chords
           iter[s \in SUBSET DOMAIN chords] ==
             IF s = {} THEN zero ELSE Add(iter[s \ {Max(s)}], chords[Max(s)])
<1>1. zero \in V /\ chords \in Seq(T)
  BY NothingIs
<1>2. \A c \in T, v \in V : Add(v, c) \in V /\ Add(v, c) = Plus(v, Longest(c))
  <2>1. \A v \in V : v # Crashed
    BY DEF Parts, Proper, Positive, Crashed, Number
  <2>2. \A c \in T : Longest(c) \in V
    BY LongestWorth
  <2>3. \A v, w \in V : Plus(v, w) \in V
    BY AddsParts
  <2> HIDE DEF T, V
  <2> QED
    BY <2>1, <2>2, <2>3
<1>3. step \in [T -> [V -> V]]
  BY <1>2
<1>4. PICK h : Folds(h, chords, V, zero, step)
  <2> HIDE DEF zero, step, chords, V, T
  <2> QED
    BY <1>1, <1>3, Folded, Zenon
<1>5. \A s \in SUBSET DOMAIN chords :
        s # {} => chords[Max(s)] \in T /\ s \ {Max(s)} \in SUBSET DOMAIN chords
  <2> HIDE DEF chords, T
  <2> QED
    BY <1>1, PlacesFall
<1>6. ASSUME NEW s \in SUBSET DOMAIN chords
      PROVE  h[s] = IF s = {} THEN zero ELSE Add(h[s \ {Max(s)}], chords[Max(s)])
  <2> HIDE DEF zero, Add, chords, V, T
  <2>1. CASE s = {}
    BY <1>4, <2>1 DEF Folds
  <2>2. CASE s # {}
    <3>1. h[s] = step[chords[Max(s)]][h[s \ {Max(s)}]]
      <4> HIDE DEF step
      <4> QED
        BY <1>4, <2>2 DEF Folds
    <3>2. chords[Max(s)] \in T /\ h[s \ {Max(s)}] \in V
      BY <1>4, <1>5, <2>2 DEF Folds
    <3> QED
      BY <2>2, <3>1, <3>2
  <2> QED
    BY <2>1, <2>2
<1>7. h = [s \in SUBSET DOMAIN chords |->
             IF s = {} THEN zero ELSE Add(h[s \ {Max(s)}], chords[Max(s)])]
  <2> HIDE DEF zero, Add, chords, V, T, step
  <2> QED
    BY <1>4, <1>6 DEF Folds
<1>8. iter = [s \in SUBSET DOMAIN chords |->
                IF s = {} THEN zero ELSE Add(iter[s \ {Max(s)}], chords[Max(s)])]
  <2> HIDE DEF zero, Add, chords, V, T
  <2> QED
    BY <1>7, Zenon
<1>9. Duration(m) = iter[DOMAIN chords]
  BY Zenon DEF Duration, FoldLeft, MapThenFoldSet
<1> HIDE DEF iter
<1>10. PICK t : Stages(t, chords, V, zero, step) /\ t[Len(chords)] = Duration(m)
  <2>1. iter[{}] = zero
    BY <1>8
  <2>2. \A s \in SUBSET DOMAIN chords : s # {} /\ chords[Max(s)] \in T /\ iter[s \ {Max(s)}] \in V
                                          => iter[s] = step[chords[Max(s)]][iter[s \ {Max(s)}]]
    <3> HIDE DEF T, V, zero, chords, Add
    <3> QED
      BY <1>8
  <2> HIDE DEF zero, step, T, V, chords, Add
  <2>4. PICK g : g = iter
    OBVIOUS
  <2>5. Unfolds(g, chords, T, V, zero, step)
    BY <1>1, <1>3, <2>1, <2>2, <2>4, Zenon DEF Unfolds
  <2>6. \E t : Stages(t, chords, V, zero, step) /\ t[Len(chords)] = g[DOMAIN chords]
    BY <2>5, Staged
  <2> QED
    BY <1>9, <2>4, <2>6, Zenon
<1>11. Len(chords) \in Nat /\ \A j \in 1 .. Len(chords) : chords[j] \in T
  BY <1>1
<1>12. /\ \A k \in 0 .. Len(chords) : t[k] \in V
       /\ t[0] = zero
       /\ \A k \in 1 .. Len(chords) : t[k] = step[chords[k]][t[k - 1]]
  <2> HIDE DEF zero, step, T, V, chords
  <2> QED
    BY <1>10 DEF Stages
<1>13. \A k \in 1 .. Len(chords) : t[k] = Plus(t[k - 1], Longest(chords[k]))
  <2>1. \A k \in 1 .. Len(chords) : k - 1 \in 0 .. Len(chords)
    BY <1>11
  <2> HIDE DEF T, V, zero, chords, Add
  <2> QED
    BY <1>2, <1>11, <1>12, <2>1
<1> QED
  BY <1>10, <1>12, <1>13

\* What is played, chord by chord.
LEMMA PlayedStages ==
  ASSUME NEW d \in Positive, d < IntRange \div 2, Divides(Default.length.den, d),
         NEW m, m.chords \in Seq(Seq(Tuned(d)))
  PROVE  \E t : /\ \A k \in 0 .. Len(m.chords) : t[k] \in Parts(d)
                /\ t[0] = Number(0, 1)
                /\ \A k \in 1 .. Len(m.chords) : t[k] = Plus(t[k - 1], PlayTime(m.chords[k]))
                /\ t[Len(m.chords)] = Played(m)
<1> DEFINE zero == Number(0, 1)
           T == Seq(Tuned(d))
           V == Parts(d)
           Add(total, c) == Plus(total, PlayTime(c))
           step == [c \in T |-> [v \in V |-> Add(v, c)]]
           chords == m.chords
           iter[s \in SUBSET DOMAIN chords] ==
             IF s = {} THEN zero ELSE Add(iter[s \ {Max(s)}], chords[Max(s)])
<1>1. zero \in V /\ chords \in Seq(T)
  BY NothingIs
<1>2. \A c \in T, v \in V : Add(v, c) \in V
  <2>2. \A c \in T : PlayTime(c) \in V
    BY PlayTimeIs
  <2>3. \A v, w \in V : Plus(v, w) \in V
    BY AddsParts
  <2> HIDE DEF T, V
  <2> QED
    BY <2>2, <2>3
<1>3. step \in [T -> [V -> V]]
  BY <1>2
<1>4. PICK h : Folds(h, chords, V, zero, step)
  <2> HIDE DEF zero, step, chords, V, T
  <2> QED
    BY <1>1, <1>3, Folded, Zenon
<1>5. \A s \in SUBSET DOMAIN chords :
        s # {} => chords[Max(s)] \in T /\ s \ {Max(s)} \in SUBSET DOMAIN chords
  <2> HIDE DEF chords, T
  <2> QED
    BY <1>1, PlacesFall
<1>6. ASSUME NEW s \in SUBSET DOMAIN chords
      PROVE  h[s] = IF s = {} THEN zero ELSE Add(h[s \ {Max(s)}], chords[Max(s)])
  <2> HIDE DEF zero, Add, chords, V, T
  <2>1. CASE s = {}
    BY <1>4, <2>1 DEF Folds
  <2>2. CASE s # {}
    <3>1. h[s] = step[chords[Max(s)]][h[s \ {Max(s)}]]
      <4> HIDE DEF step
      <4> QED
        BY <1>4, <2>2 DEF Folds
    <3>2. chords[Max(s)] \in T /\ h[s \ {Max(s)}] \in V
      BY <1>4, <1>5, <2>2 DEF Folds
    <3> QED
      BY <2>2, <3>1, <3>2
  <2> QED
    BY <2>1, <2>2
<1>7. h = [s \in SUBSET DOMAIN chords |->
             IF s = {} THEN zero ELSE Add(h[s \ {Max(s)}], chords[Max(s)])]
  <2> HIDE DEF zero, Add, chords, V, T, step
  <2> QED
    BY <1>4, <1>6 DEF Folds
<1>8. iter = [s \in SUBSET DOMAIN chords |->
                IF s = {} THEN zero ELSE Add(iter[s \ {Max(s)}], chords[Max(s)])]
  <2> HIDE DEF zero, Add, chords, V, T
  <2> QED
    BY <1>7, Zenon
<1>9. Played(m) = iter[DOMAIN chords]
  BY Zenon DEF Played, FoldLeft, MapThenFoldSet
<1> HIDE DEF iter
<1>10. PICK t : Stages(t, chords, V, zero, step) /\ t[Len(chords)] = Played(m)
  <2>1. iter[{}] = zero
    BY <1>8
  <2>2. \A s \in SUBSET DOMAIN chords : s # {} /\ chords[Max(s)] \in T /\ iter[s \ {Max(s)}] \in V
                                          => iter[s] = step[chords[Max(s)]][iter[s \ {Max(s)}]]
    <3> HIDE DEF T, V, zero, chords, Add
    <3> QED
      BY <1>8
  <2> HIDE DEF zero, step, T, V, chords, Add
  <2>4. PICK g : g = iter
    OBVIOUS
  <2>5. Unfolds(g, chords, T, V, zero, step)
    BY <1>1, <1>3, <2>1, <2>2, <2>4, Zenon DEF Unfolds
  <2>6. \E t : Stages(t, chords, V, zero, step) /\ t[Len(chords)] = g[DOMAIN chords]
    BY <2>5, Staged
  <2> QED
    BY <1>9, <2>4, <2>6, Zenon
<1>11. Len(chords) \in Nat /\ \A j \in 1 .. Len(chords) : chords[j] \in T
  BY <1>1
<1>12. /\ \A k \in 0 .. Len(chords) : t[k] \in V
       /\ t[0] = zero
       /\ \A k \in 1 .. Len(chords) : t[k] = step[chords[k]][t[k - 1]]
  <2> HIDE DEF zero, step, T, V, chords
  <2> QED
    BY <1>10 DEF Stages
<1>13. \A k \in 1 .. Len(chords) : t[k] = Plus(t[k - 1], PlayTime(chords[k]))
  <2>1. \A k \in 1 .. Len(chords) : k - 1 \in 0 .. Len(chords)
    BY <1>11
  <2> HIDE DEF T, V, zero, chords
  <2> QED
    BY <1>11, <1>12, <2>1
<1> QED
  BY <1>10, <1>12, <1>13

\* Sums of which each part is not less than that of another one.
LEMMA DurationIsLess ==
  ASSUME NEW d \in Positive, d < IntRange \div 2, Divides(Default.length.den, d),
         NEW m, m.chords \in Seq(Seq(Tuned(d)))
  PROVE  /\ ~Less(Played(m), Duration(m))
         /\ (\A i \in DOMAIN m.chords : Even(m.chords[i])) => Equal(Played(m), Duration(m))
<1>1. PICK n \in Nat : n = Len(m.chords) /\ DOMAIN m.chords = 1 .. n
                       /\ \A k \in 1 .. n : m.chords[k] \in Seq(Tuned(d))
  OBVIOUS
<1>2. PICK t : /\ \A k \in 0 .. n : t[k] \in Parts(d)
               /\ t[0] = Number(0, 1)
               /\ \A k \in 1 .. n : t[k] = Plus(t[k - 1], Longest(m.chords[k]))
               /\ t[n] = Duration(m)
  BY <1>1, DurationStages
<1>3. PICK u : /\ \A k \in 0 .. n : u[k] \in Parts(d)
               /\ u[0] = Number(0, 1)
               /\ \A k \in 1 .. n : u[k] = Plus(u[k - 1], PlayTime(m.chords[k]))
               /\ u[n] = Played(m)
  BY <1>1, PlayedStages
<1> DEFINE even == \A i \in 1 .. n : Even(m.chords[i])
           So(k) == Worth(t[k], d) <= Worth(u[k], d) /\ (even => Worth(t[k], d) = Worth(u[k], d))
           P == {k \in 0 .. n : So(k)}
<1>4. \A k \in 0 .. n : Worth(t[k], d) \in Int /\ Worth(u[k], d) \in Int
  BY <1>2, <1>3, WorthIs
<1>5. 0 \in P
  <2>1. t[0] = u[0] /\ 0 \in 0 .. n
    BY <1>1, <1>2, <1>3
  <2> QED
    BY <1>4, <2>1
<1>6. ASSUME NEW k \in 1 .. n, k - 1 \in P
      PROVE  k \in P
  <2>1. k - 1 \in 0 .. n /\ k \in 0 .. n
    BY <1>1
  <2>2. PICK c, l, p : c = m.chords[k] /\ l = Longest(c) /\ p = PlayTime(c)
    OBVIOUS
  <2>3. /\ l \in Parts(d) /\ p \in Parts(d) /\ Worth(p, d) >= Worth(l, d)
        /\ Even(c) => Worth(p, d) = Worth(l, d)
    BY <1>1, <2>2, LongestWorth, PlayTimeIs
  <2>4. Worth(t[k], d) = Worth(t[k - 1], d) + Worth(l, d) /\ Worth(u[k], d) = Worth(u[k - 1], d) + Worth(p, d)
    BY <1>2, <1>3, <2>1, <2>2, <2>3, AddsParts
  <2>5. Worth(l, d) \in Int /\ Worth(p, d) \in Int /\ Worth(t[k - 1], d) \in Int /\ Worth(u[k - 1], d) \in Int
    BY <1>4, <2>1, <2>3, WorthIs
  <2>6. So(k - 1)
    BY <1>6
  <2>7. even => Even(c)
    BY <2>2
  <2> HIDE DEF even
  <2> QED
    BY <2>1, <2>3, <2>4, <2>5, <2>6, <2>7
<1>7. So(n)
  <2>1. 0 .. n \subseteq P
    <3> HIDE DEF P
    <3> QED
      BY <1>1, <1>5, <1>6, Climb
  <2>2. n \in P
    <3> HIDE DEF P
    <3> QED
      BY <1>1, <2>1
  <2> HIDE DEF So
  <2> QED
    BY <2>2
<1>8. PICK p, q : p = Played(m) /\ q = Duration(m)
  OBVIOUS
<1>9. p \in Parts(d) /\ q \in Parts(d) /\ p = u[n] /\ q = t[n]
  BY <1>1, <1>2, <1>3, <1>8
<1>10. Worth(p, d) \in Int /\ Worth(q, d) \in Int /\ Worth(q, d) <= Worth(p, d)
       /\ (even => Worth(q, d) = Worth(p, d))
  BY <1>7, <1>9, WorthIs
<1>11. ~Less(p, q) /\ (even => Equal(p, q))
  <2> HIDE DEF even
  <2> QED
    BY <1>9, <1>10, ComparesParts
<1> QED
  BY <1>1, <1>8, <1>11

(* What duration says of music is never more than play() takes for it, and    *)
(* just that if the notes of each chord are of one length, whatever the     *)
(* lengths are, as long as a common denominator of them fits an int.        *)
THEOREM DurationAgreesWithPlay == MusicSpec => []DurationIsPlayed
<1>1. TypeOK => DurationIsPlayed
  <2>1. ASSUME TypeOK, IsMusic(value), LengthsFit(value)
        PROVE  /\ ~Less(Played(value), Duration(value))
               /\ (\A i \in DOMAIN value.chords : Even(value.chords[i])) => Equal(Played(value), Duration(value))
    <3>1. PICK m \in AnyMusic : m = value
      BY <2>1, Kinds, LowestIs, FractionIs, TypeIs DEF Values
    <3>2. PICK d \in 1 .. IntRange \div 2 - 1 :
                 /\ Divides(Default.length.den, d)
                 /\ \A i \in DOMAIN m.chords : \A j \in DOMAIN m.chords[i] :
                      Divides(Fill(m.chords[i][j]).length.den, d)
      BY <2>1, <3>1 DEF LengthsFit
    <3>3. d \in Positive /\ d < IntRange \div 2
      <4>1. IntRange \div 2 \in Int
        BY NumbersAssumption, Division DEF Positive
      <4> QED
        BY <4>1 DEF Positive
    <3>4. m.chords \in Seq(Chord)
      BY MusicIs
    <3>5. ASSUME NEW i \in DOMAIN m.chords
          PROVE  m.chords[i] \in Seq(Tuned(d))
      <4>1. PICK c \in Chord : c = m.chords[i]
        BY <3>4
      <4>2. Len(c) \in Nat /\ DOMAIN c = 1 .. Len(c) /\ \A j \in 1 .. Len(c) : c[j] \in Notes
        BY DEF Chord
      <4>3. \A j \in 1 .. Len(c) : c[j] \in Tuned(d)
        BY <3>2, <4>1, <4>2, FillIs DEF Tuned, Parts
      <4>4. c \in [1 .. Len(c) -> Tuned(d)]
        BY <4>2, <4>3 DEF Chord
      <4> QED
        BY <4>1, <4>2, <4>4
    <3>6. m.chords \in Seq(Seq(Tuned(d)))
      <4>1. PICK n \in Nat : DOMAIN m.chords = 1 .. n /\ m.chords \in [1 .. n -> Chord]
        BY <3>4
      <4>2. m.chords \in [1 .. n -> Seq(Tuned(d))]
        BY <3>5, <4>1
      <4> QED
        BY <4>2
    <3> QED
      BY <3>1, <3>2, <3>3, <3>6, DurationIsLess
  <2> QED
    BY <2>1 DEF DurationIsPlayed, Even
<1> QED
  BY <1>1, TypeCorrect, PTL

=============================================================================
