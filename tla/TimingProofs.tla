----------------------------- MODULE TimingProofs ------------------------------
(***************************************************************************)
(* When notes sound, for any line, any lengths and any late sleeps: no     *)
(* note ends early, lines end in silence, and notes are on time when sleeps *)
(* are.                                                                    *)
(***************************************************************************)
EXTENDS Timing, FiniteSets, FiniteSetTheorems, WellFoundedInduction, TLAPS

---------------------------------------------------------------------------
(* The least number of a set, by which what holds of all numbers is proved. *)

\* A set of natural numbers that is not empty has a least element.
LEMMA Smallest ==
  ASSUME NEW S \in SUBSET Nat, S # {}
  PROVE  \E m \in S : \A n \in S : m <= n
<1> DEFINE R == OpToRel(<, Nat)
<1>1. IsWellFoundedOn(R, Nat)
  BY NatLessThanWellFounded
<1>2. \A x, y \in Nat : <<y, x>> \in R <=> y < x
  BY DEF OpToRel
<1> HIDE DEF R
<1>3. PICK m \in S : \A n \in S : ~(<<n, m>> \in R)
  BY <1>1, WFMin
<1>4. \A n \in S : m \in Nat /\ n \in Nat /\ ~(n < m)
  BY <1>2, <1>3
<1> QED
  BY <1>4

---------------------------------------------------------------------------
(* Sums, in the order in which CHOOSE takes the elements of a set.         *)

Chosen(s) == CHOOSE x \in s : TRUE

Adds(f, sum, S) ==
  sum = [s \in SUBSET S |-> IF s = {} THEN 0 ELSE f[Chosen(s)] + sum[s \ {Chosen(s)}]]

(* A set that is not empty has an element less than itself. *)
LEMMA Removed ==
  ASSUME NEW S, IsFiniteSet(S), NEW s \in SUBSET S, NEW x \in s
  PROVE  /\ s \ {x} \in SUBSET S
         /\ Cardinality(s) \in Nat /\ Cardinality(s \ {x}) \in Nat
         /\ Cardinality(s \ {x}) = Cardinality(s) - 1
<1>1. IsFiniteSet(s)
  BY FS_Subset
<1>2. IsFiniteSet(s \ {x}) /\ Cardinality(s \ {x}) = Cardinality(s) - 1
  BY <1>1, FS_RemoveElement
<1>3. Cardinality(s) \in Nat /\ Cardinality(s \ {x}) \in Nat
  BY <1>1, <1>2, FS_CardinalityType
<1> QED
  BY <1>2, <1>3

(* The recursion has a solution. *)
LEMMA SumIsDefined ==
  ASSUME NEW f, NEW S, IsFiniteSet(S)
  PROVE  \E sum : Adds(f, sum, S) /\ SumFunctionOnSet(f, S) = sum[S]
<1> DEFINE UpTo(n) == {s \in SUBSET S : Cardinality(s) <= n}
           Solves(sum, n) ==
             sum = [s \in UpTo(n) |-> IF s = {} THEN 0 ELSE f[Chosen(s)] + sum[s \ {Chosen(s)}]]
           Unsolved == {n \in Nat : ~\E sum : Solves(sum, n)}
<1>1. \A s \in SUBSET S : s # {} =>
        /\ Chosen(s) \in s /\ s \ {Chosen(s)} \in SUBSET S
        /\ Cardinality(s) \in Nat /\ Cardinality(s \ {Chosen(s)}) \in Nat
        /\ Cardinality(s \ {Chosen(s)}) = Cardinality(s) - 1
  <2>1. \A s \in SUBSET S : s # {} => Chosen(s) \in s
    BY DEF Chosen
  <2> QED
    BY <2>1, Removed
<1>2. ASSUME Unsolved # {}
      PROVE  FALSE
  <2>0. Unsolved \in SUBSET Nat
    OBVIOUS
  <2>1. PICK n \in Unsolved : \A k \in Unsolved : n <= k
    <3> HIDE DEF Unsolved
    <3> QED
      BY <1>2, <2>0, Smallest
  <2>2. CASE n = 0
    <3> DEFINE g == [s \in UpTo(0) |-> 0]
    <3>1. ASSUME NEW s \in UpTo(0)
          PROVE  s = {}
      <4> SUFFICES ASSUME s # {} PROVE FALSE
        OBVIOUS
      <4>1. Cardinality(s) \in Nat /\ Cardinality(s) - 1 \in Nat /\ Cardinality(s) <= 0
        BY <1>1
      <4> QED
        BY <4>1
    <3>2. g = [s \in UpTo(0) |-> IF s = {} THEN 0 ELSE f[Chosen(s)] + g[s \ {Chosen(s)}]]
      BY <3>1
    <3>3. Solves(g, n)
      BY <2>2, <3>2
    <3> QED
      BY <2>1, <3>3
  <2>3. CASE n # 0
    <3>1. n - 1 \in Nat /\ n - 1 \notin Unsolved
      <4>1. n - 1 \in Nat /\ ~(n <= n - 1)
        BY <2>3
      <4> HIDE DEF Unsolved
      <4> QED
        BY <2>1, <4>1
    <3>2. PICK h : Solves(h, n - 1)
      BY <3>1
    <3> DEFINE Term(s, sum) == IF s = {} THEN 0 ELSE f[Chosen(s)] + sum[s \ {Chosen(s)}]
               g == [s \in UpTo(n) |-> Term(s, h)]
    <3>3. ASSUME NEW s \in UpTo(n)
          PROVE  g[s] = Term(s, g)
      <4>1. CASE s = {}
        BY <4>1
      <4>2. CASE s # {}
        <5> DEFINE r == s \ {Chosen(s)}
        <5>1. r \in SUBSET S /\ Cardinality(r) \in Nat /\ Cardinality(r) = Cardinality(s) - 1
              /\ Cardinality(s) \in Nat /\ Cardinality(s) <= n
          BY <1>1, <4>2
        <5> HIDE DEF r
        <5>2. r \in UpTo(n - 1) /\ r \in UpTo(n)
          BY <3>1, <5>1
        <5>3. h[r] = Term(r, h)
          BY <3>2, <5>2, Zenon
        <5>4. g[r] = h[r]
          BY <5>2, <5>3
        <5>5. Term(s, h) = f[Chosen(s)] + h[r] /\ Term(s, g) = f[Chosen(s)] + g[r]
          BY <4>2 DEF r
        <5>6. g[s] = Term(s, h)
          OBVIOUS
        <5> QED
          BY <5>4, <5>5, <5>6
      <4> QED
        BY <4>1, <4>2
    <3>4. Solves(g, n)
      BY <3>3
    <3> QED
      BY <2>1, <3>4
  <2> QED
    BY <2>2, <2>3
<1>3. UpTo(Cardinality(S)) = SUBSET S /\ Cardinality(S) \in Nat
  BY FS_Subset, FS_CardinalityType
<1>4. PICK h : Solves(h, Cardinality(S))
  BY <1>2, <1>3
<1>5. h = [s \in SUBSET S |-> IF s = {} THEN 0 ELSE f[Chosen(s)] + h[s \ {Chosen(s)}]]
  BY <1>3, <1>4
<1> DEFINE sum[s \in SUBSET S] == IF s = {} THEN 0 ELSE f[Chosen(s)] + sum[s \ {Chosen(s)}]
<1>6. sum = [s \in SUBSET S |-> IF s = {} THEN 0 ELSE f[Chosen(s)] + sum[s \ {Chosen(s)}]]
  BY <1>5, Zenon
<1>7. SumFunctionOnSet(f, S) = sum[S]
  BY Zenon DEF SumFunctionOnSet, FoldFunctionOnSet, MapThenFoldSet, Chosen
<1> QED
  BY <1>6, <1>7, Zenon DEF Adds

(* The order does not matter. *)
LEMMA SumInAnyOrder ==
  ASSUME NEW f, NEW S, IsFiniteSet(S), \A x \in S : f[x] \in Int, NEW sum, Adds(f, sum, S)
  PROVE  \A s \in SUBSET S : sum[s] \in Int /\ \A x \in s : sum[s] = f[x] + sum[s \ {x}]
<1> DEFINE Right(s) == sum[s] \in Int /\ \A x \in s : sum[s] = f[x] + sum[s \ {x}]
           Wrong == {n \in Nat : \E s \in SUBSET S : Cardinality(s) = n /\ ~Right(s)}
<1>0. \A s \in SUBSET S : Cardinality(s) \in Nat
  BY FS_Subset, FS_CardinalityType
<1>1. ASSUME Wrong # {}
      PROVE  FALSE
  <2>0. Wrong \in SUBSET Nat
    OBVIOUS
  <2>1. PICK n \in Wrong : \A k \in Wrong : n <= k
    <3> HIDE DEF Wrong
    <3> QED
      BY <1>1, <2>0, Smallest
  <2>2. PICK s \in SUBSET S : Cardinality(s) = n /\ ~Right(s)
    BY <2>1
  <2>3. \A r \in SUBSET S : Cardinality(r) < Cardinality(s) => Right(r)
    <3> SUFFICES ASSUME NEW r \in SUBSET S, Cardinality(r) < Cardinality(s), ~Right(r)
                 PROVE  FALSE
      OBVIOUS
    <3>1. Cardinality(r) \in Wrong
      BY <1>0
    <3>2. n \in Nat /\ Cardinality(r) \in Nat /\ Cardinality(r) < n
      BY <1>0, <2>2
    <3> HIDE DEF Wrong
    <3> QED
      BY <2>1, <3>1, <3>2
  <2>4. s # {}
    BY <2>2 DEF Adds
  <2> DEFINE c == Chosen(s)
  <2>5. c \in s /\ sum[s] = f[c] + sum[s \ {c}]
    BY <2>4 DEF Adds, Chosen
  <2> HIDE DEF c
  <2>6. ASSUME NEW x \in s
        PROVE  s \ {x} \in SUBSET S /\ Right(s \ {x}) /\ f[x] \in Int
    <3>1. s \ {x} \in SUBSET S /\ Cardinality(s) \in Nat /\ Cardinality(s \ {x}) \in Nat
          /\ Cardinality(s \ {x}) = Cardinality(s) - 1
      BY Removed
    <3>2. Cardinality(s \ {x}) < Cardinality(s)
      BY <3>1
    <3> HIDE DEF Right
    <3> QED
      BY <2>3, <3>1, <3>2
  <2>7. ASSUME NEW x \in s
        PROVE  sum[s] = f[x] + sum[s \ {x}]
    <3>1. CASE x = c
      BY <2>5, <3>1
    <3>2. CASE x # c
      <4>1. x \in s \ {c} /\ c \in s \ {x} /\ (s \ {c}) \ {x} = (s \ {x}) \ {c}
        BY <2>5, <3>2
      <4>2. sum[s \ {c}] = f[x] + sum[(s \ {c}) \ {x}]
        BY <2>5, <2>6, <4>1
      <4>3. sum[s \ {x}] = f[c] + sum[(s \ {c}) \ {x}]
        BY <2>6, <4>1
      <4>4. sum[(s \ {c}) \ {x}] \in Int
        <5> DEFINE r == s \ {c}
        <5>1. r \in SUBSET S /\ x \in r /\ Cardinality(r) \in Nat /\ Cardinality(r) = Cardinality(s) - 1
              /\ Cardinality(s) \in Nat
          BY <2>5, <4>1, Removed
        <5> HIDE DEF r
        <5>2. r \ {x} \in SUBSET S /\ Cardinality(r \ {x}) \in Nat
              /\ Cardinality(r \ {x}) = Cardinality(r) - 1
          BY <5>1, Removed
        <5>3. Cardinality(r \ {x}) < Cardinality(s)
          BY <5>1, <5>2
        <5> QED
          BY <2>3, <5>2, <5>3 DEF r
      <4>5. f[x] \in Int /\ f[c] \in Int
        BY <2>5, <2>6
      <4> QED
        BY <2>5, <4>2, <4>3, <4>4, <4>5
    <3> QED
      BY <3>1, <3>2
  <2>8. sum[s] \in Int
    BY <2>5, <2>6
  <2> QED
    BY <2>2, <2>7, <2>8
<1> SUFFICES ASSUME NEW s \in SUBSET S PROVE Right(s)
  OBVIOUS
<1> QED
  BY <1>0, <1>1

(* Nor do elements of a greater set. *)
LEMMA SumsAgree ==
  ASSUME NEW f, NEW T, IsFiniteSet(T), NEW S \in SUBSET T,
         NEW part, Adds(f, part, S), NEW sum, Adds(f, sum, T)
  PROVE  part[S] = sum[S]
<1> DEFINE Wrong == {n \in Nat : \E s \in SUBSET S : Cardinality(s) = n /\ part[s] # sum[s]}
<1>0. IsFiniteSet(S) /\ \A s \in SUBSET S : Cardinality(s) \in Nat
  BY FS_Subset, FS_CardinalityType
<1>1. ASSUME Wrong # {}
      PROVE  FALSE
  <2>0. Wrong \in SUBSET Nat
    OBVIOUS
  <2>1. PICK n \in Wrong : \A k \in Wrong : n <= k
    <3> HIDE DEF Wrong
    <3> QED
      BY <1>1, <2>0, Smallest
  <2>2. PICK s \in SUBSET S : Cardinality(s) = n /\ part[s] # sum[s]
    BY <2>1
  <2>3. s # {}
    BY <2>2 DEF Adds
  <2> DEFINE r == s \ {Chosen(s)}
  <2>4. part[s] = f[Chosen(s)] + part[r] /\ sum[s] = f[Chosen(s)] + sum[r]
    BY <2>3 DEF Adds
  <2>5. Chosen(s) \in s
    BY <2>3 DEF Chosen
  <2>6. r \in SUBSET S /\ Cardinality(r) \in Nat /\ Cardinality(r) = n - 1 /\ n \in Nat
    BY <1>0, <2>2, <2>5, Removed
  <2> HIDE DEF r
  <2>7. part[r] # sum[r]
    BY <2>2, <2>4
  <2>8. Cardinality(r) \in Wrong
    BY <2>6, <2>7
  <2> HIDE DEF Wrong
  <2> QED
    BY <2>1, <2>6, <2>8
<1>2. S \in SUBSET S /\ Cardinality(S) \in Nat
  BY <1>0
<1> QED
  BY <1>1, <1>2

LEMMA SumOfNothing ==
  ASSUME NEW f
  PROVE  SumFunctionOnSet(f, {}) = 0
<1>1. PICK sum : Adds(f, sum, {}) /\ SumFunctionOnSet(f, {}) = sum[{}]
  BY SumIsDefined, FS_EmptySet
<1> QED
  BY <1>1 DEF Adds

LEMMA SumWithOneMore ==
  ASSUME NEW f, NEW S, IsFiniteSet(S), \A y \in S : f[y] \in Int, NEW x, x \notin S, f[x] \in Int
  PROVE  /\ SumFunctionOnSet(f, S) \in Int
         /\ SumFunctionOnSet(f, S \cup {x}) = SumFunctionOnSet(f, S) + f[x]
<1> DEFINE T == S \cup {x}
<1>1. IsFiniteSet(T) /\ \A y \in T : f[y] \in Int
  BY FS_AddElement
<1>2. T \ {x} = S /\ x \in T /\ S \in SUBSET T /\ T \in SUBSET T
  OBVIOUS
<1> HIDE DEF T
<1>3. PICK sum : Adds(f, sum, T) /\ SumFunctionOnSet(f, T) = sum[T]
  BY <1>1, SumIsDefined
<1>4. PICK part : Adds(f, part, S) /\ SumFunctionOnSet(f, S) = part[S]
  BY SumIsDefined
<1>5. part[S] = sum[S]
  BY <1>1, <1>2, <1>3, <1>4, SumsAgree
<1>6. \A s \in SUBSET T : sum[s] \in Int /\ \A y \in s : sum[s] = f[y] + sum[s \ {y}]
  BY <1>1, <1>3, SumInAnyOrder
<1>7. sum[S] \in Int /\ sum[T] = f[x] + sum[S]
  BY <1>2, <1>6
<1> QED
  BY <1>3, <1>4, <1>5, <1>7 DEF T

---------------------------------------------------------------------------
(* A finite set of numbers has a greatest one.                             *)

LEMMA Greatest ==
  ASSUME NEW S \in SUBSET Int, IsFiniteSet(S), S # {}
  PROVE  Max(S) \in S /\ \A n \in S : n <= Max(S)
<1> DEFINE Bounded(s) == \E m \in s : \A n \in s : n <= m
           Wrong == {k \in Nat : \E s \in SUBSET S : s # {} /\ Cardinality(s) = k /\ ~Bounded(s)}
<1>1. ASSUME Wrong # {}
      PROVE  FALSE
  <2>0. Wrong \in SUBSET Nat
    OBVIOUS
  <2>1. PICK k \in Wrong : \A l \in Wrong : k <= l
    <3> HIDE DEF Wrong
    <3> QED
      BY <1>1, <2>0, Smallest
  <2>2. PICK s \in SUBSET S : s # {} /\ Cardinality(s) = k /\ ~Bounded(s)
    BY <2>1
  <2>3. PICK x \in s : TRUE
    BY <2>2
  <2> DEFINE r == s \ {x}
  <2>4. r \in SUBSET S /\ Cardinality(r) \in Nat /\ Cardinality(r) = k - 1 /\ k \in Nat
    BY <2>2, Removed
  <2>5. x \in Int /\ r \subseteq Int
    OBVIOUS
  <2>6. r # {} /\ ~Bounded(r)
    <3>1. r # {}
      BY <2>2, <2>5
    <3>2. ASSUME NEW m \in r, \A n \in r : n <= m PROVE FALSE
      <4>1. m \in s /\ m \in Int
        BY <2>5
      <4>2. CASE x <= m
        BY <2>2, <3>2, <4>1, <4>2
      <4>3. CASE m <= x
        <5>1. \A n \in s : n <= x
          BY <2>5, <3>2, <4>1, <4>3
        <5> QED
          BY <2>2, <5>1
      <4> QED
        BY <2>5, <4>1, <4>2, <4>3
    <3> QED
      BY <3>1, <3>2
  <2> HIDE DEF r, Bounded
  <2>7. k - 1 \in Wrong
    BY <2>4, <2>6
  <2> HIDE DEF Wrong
  <2> QED
    BY <2>1, <2>4, <2>7
<1>2. S \in SUBSET S /\ Cardinality(S) \in Nat
  BY FS_CardinalityType
<1>3. Bounded(S)
  BY <1>1, <1>2
<1>4. \E m \in S : \A n \in S : m >= n
  BY <1>3
<1> DEFINE max == Max(S)
<1>5. max \in S /\ \A n \in S : max >= n
  BY <1>4, Zenon DEF Max
<1> HIDE DEF max
<1>6. \A n \in S : n <= max
  BY <1>5
<1> QED
  BY <1>5, <1>6 DEF max

---------------------------------------------------------------------------

Instr == [when : Int, action : {"On", "Off"}, voice : Voices]

(* The chord of a voice is over. *)
Earlier(v) == v[1] < track \/ (v[1] = track /\ v[2] < chord)

LineInv ==
  /\ tracks \in PlayLines \cup SimLines
  /\ mode \in {"play", "played", "schedule", "sim", "performed"}
  /\ track \in Nat /\ chord \in Nat
  /\ rest \in Int /\ passed \in Nat /\ start_time \in Nat /\ clock \in Nat
  /\ began \in [Voices -> Times] /\ ended \in [Voices -> Times]

(* What a chord has still to wait reaches the end of each of its notes that  *)
(* are on.  Notes of chords to come are not off.                           *)
PlayInv ==
  mode = "play" =>
    /\ \A v \in todo :
         /\ v \in Voices /\ v[1] = track /\ v[2] = chord
         /\ began[v] \in Int /\ began[v] <= clock
         /\ clock - began[v] + LengthToDuration(rest) >= LengthToDuration(Length(v))
    /\ \A v \in Voices :
         ended[v] # Never => Earlier(v) \/ (todo # {} /\ v[1] = track /\ v[2] = chord)

(* The instructions of a voice are its length apart, what is to be done is    *)
(* not behind what has been slept, and the clock is not behind either.      *)
SimInv ==
  /\ mode = "schedule" =>
       /\ \A v \in Voices : began[v] = Never /\ ended[v] = Never
       /\ \A i \in todo : Earlier(i.voice)
       /\ start_time = 0
  /\ mode \in {"schedule", "sim"} =>
       /\ todo \subseteq Instr
       /\ \A i \in todo :
            /\ i.action = "On" => i.when >= 0
            /\ start_time = 0 \/ start_time <= LengthToDuration(i.when)
       /\ \A i, j \in todo :
            i.action = "On" /\ j.action = "Off" /\ i.voice = j.voice =>
              j.when = i.when + Length(i.voice)
       /\ \A i \in todo :
            i.action = "Off" /\ began[i.voice] # Never =>
              clock - began[i.voice] >= start_time - LengthToDuration(i.when - Length(i.voice))
       /\ \A i \in todo :
            i.action = "On" /\ Length(i.voice) > 0 => ended[i.voice] = Never

IInv == LineInv /\ PlayInv /\ SimInv /\ NoNoteEndsEarly

---------------------------------------------------------------------------
(* Durations and voices.                                                   *)

(* Durations are in proportion to lengths. *)
LEMMA Durations ==
  /\ \A a \in Int : LengthToDuration(a) \in Int
  /\ LengthToDuration(0) = 0
  /\ \A a, b \in Int : /\ LengthToDuration(a + b) = LengthToDuration(a) + LengthToDuration(b)
                       /\ LengthToDuration(a - b) = LengthToDuration(a) - LengthToDuration(b)
                       /\ a <= b => LengthToDuration(a) <= LengthToDuration(b)
<1>1. Unit \in Nat
  BY TimingAssumption
<1>2. \A a \in Int : LengthToDuration(a) \in Int
  BY <1>1 DEF LengthToDuration
<1>3. LengthToDuration(0) = 0
  BY <1>1 DEF LengthToDuration
<1>4. \A a, b \in Int : LengthToDuration(a + b) = LengthToDuration(a) + LengthToDuration(b)
  BY <1>1 DEF LengthToDuration
<1>5. \A a, b \in Int : LengthToDuration(a - b) = LengthToDuration(a) - LengthToDuration(b)
  BY <1>1 DEF LengthToDuration
<1>6. ASSUME NEW a \in Int, NEW b \in Int, a <= b
      PROVE  LengthToDuration(a) <= LengthToDuration(b)
  <2>1. LengthToDuration(b - a) = LengthToDuration(b) - LengthToDuration(a)
    BY <1>5
  <2>2. LengthToDuration(b - a) >= 0
    BY <1>1, <1>6 DEF LengthToDuration
  <2> QED
    BY <1>2, <2>1, <2>2
<1> QED
  BY <1>2, <1>3, <1>4, <1>5, <1>6

(* Every voice has a length, and the voices of a chord are voices. *)
LEMMA VoicesHaveLengths ==
  ASSUME tracks \in PlayLines \cup SimLines
  PROVE  /\ \A v \in Voices : Length(v) \in Int
         /\ HasChord => VoicesOf(track, chord) \subseteq Voices
         /\ \A v \in VoicesOf(track, chord) : v[1] = track /\ v[2] = chord
         /\ \A v \in Voices : v[1] \in Nat /\ v[2] \in Nat
<1> DEFINE N == [pitch : Pitches \cup {Pause}, length : Int \cup {Unset}]
<1>1. tracks \in Seq(Seq(Seq(N)))
  BY TimingAssumption
<1>2. ASSUME NEW t \in DOMAIN tracks, NEW c \in DOMAIN tracks[t], NEW n \in DOMAIN tracks[t][c]
      PROVE  Length(<<t, c, n>>) \in Int
  <2> HIDE DEF N
  <2>a. tracks[t] \in Seq(Seq(N))
    BY <1>1
  <2>b. tracks[t][c] \in Seq(N)
    BY <2>a
  <2>1. tracks[t][c][n] \in N
    BY <2>b
  <2>2. tracks[t][c][n].length \in Int \cup {Unset}
    BY <2>1 DEF N
  <2> QED
    BY <2>2, TimingAssumption DEF Length, Written, Chord
<1>3. \A v \in Voices : Length(v) \in Int
  BY <1>2 DEF Voices, VoicesOf, Chord
<1>4. HasChord => VoicesOf(track, chord) \subseteq Voices
  BY DEF HasChord, Voices
<1>5. \A v \in VoicesOf(track, chord) : v[1] = track /\ v[2] = chord
  BY DEF VoicesOf
<1>6. ASSUME NEW v \in Voices PROVE v[1] \in Nat /\ v[2] \in Nat
  <2>1. PICK t \in DOMAIN tracks : \E c \in DOMAIN tracks[t] : v \in VoicesOf(t, c)
    BY DEF Voices
  <2>2. v[1] = t /\ v[2] \in DOMAIN tracks[t]
    BY <2>1 DEF VoicesOf
  <2> HIDE DEF N
  <2>3. tracks[t] \in Seq(Seq(N))
    BY <1>1
  <2> QED
    BY <1>1, <2>2, <2>3
<1> QED
  BY <1>3, <1>4, <1>5, <1>6

(* The clock does not go backwards, and a sleep is not too short. *)
LEMMA SleepsAreLongEnough ==
  ASSUME NEW time \in Int, clock \in Nat, Sleep(time)
  PROVE  clock' \in Nat /\ clock' >= clock /\ clock' >= clock + time
<1>1. PICK delay \in Delays : clock' = clock + (IF time > 0 THEN time ELSE 0) + delay
  BY DEF Sleep
<1>2. delay \in Nat
  BY TimingAssumption
<1> QED
  BY <1>1, <1>2

---------------------------------------------------------------------------
(* The invariant holds at the beginning.                                   *)

LEMMA InitIInv == Init => IInv
<1> SUFFICES ASSUME Init PROVE IInv
  OBVIOUS
<1>1. LineInv
  BY DEF Init, LineInv, Times
<1>2. PlayInv
  BY DEF Init, PlayInv
<1>3. SimInv
  BY DEF Init, SimInv
<1>4. NoNoteEndsEarly
  BY DEF Init, NoNoteEndsEarly
<1> QED
  BY <1>1, <1>2, <1>3, <1>4 DEF IInv

---------------------------------------------------------------------------
(* Steps of the cursor, which neither sound nor wait.                       *)

(* What the steps of one part leave alone. *)
SameLine == tracks' = tracks
SameTimes == clock' = clock /\ began' = began /\ ended' = ended /\ start_time' = start_time

LEMMA SameVoices ==
  ASSUME SameLine
  PROVE  /\ Voices' = Voices
         /\ \A v : Length(v)' = Length(v) /\ Pitch(v)' = Pitch(v)
         /\ Instr' = Instr
         /\ \A t, c : VoicesOf(t, c)' = VoicesOf(t, c)
BY DEF SameLine, Voices, Length, Pitch, Written, VoicesOf, Chord, Instr

(* Nothing is ended: no note ends early. *)
LEMMA NothingEnds ==
  ASSUME NoNoteEndsEarly, SameLine, ended' = ended,
         \A v \in Voices : ended[v] # Never /\ Length(v) > 0 => began'[v] = began[v]
  PROVE  NoNoteEndsEarly'
BY SameVoices DEF NoNoteEndsEarly, LengthToDuration

LEMMA NextTrackStep == IInv /\ Next_Track => IInv'
<1> SUFFICES ASSUME IInv, Next_Track PROVE IInv'
  OBVIOUS
<1> USE DEF cursor
<1>0. SameLine /\ SameTimes
  BY DEF Next_Track, SameLine, SameTimes
<1>1. LineInv'
  BY <1>0, SameVoices DEF IInv, LineInv, Next_Track, SameTimes, SameLine
<1>2. \A v \in Voices : Earlier(v) => Earlier(v)'
  BY VoicesHaveLengths DEF Earlier, Next_Track, IInv, LineInv
<1>3. PlayInv'
  BY <1>0, <1>2, SameVoices DEF IInv, LineInv, PlayInv, Next_Track, SameTimes, LengthToDuration
<1>4. SimInv'
  <2>1. \A i \in todo : mode = "schedule" => Earlier(i.voice)'
    BY <1>2 DEF IInv, SimInv, Instr
  <2> QED
    BY <1>0, <2>1, SameVoices DEF IInv, LineInv, SimInv, Next_Track, SameTimes, LengthToDuration
<1>5. NoNoteEndsEarly'
  BY <1>0, NothingEnds DEF IInv, SameTimes
<1> QED
  BY <1>1, <1>3, <1>4, <1>5 DEF IInv

LEMMA EndStep == IInv /\ (Played \/ Scheduled \/ Performed) => IInv'
<1> SUFFICES ASSUME IInv, Played \/ Scheduled \/ Performed PROVE IInv'
  OBVIOUS
<1> USE DEF cursor
<1>0. SameLine /\ SameTimes /\ track' = track /\ chord' = chord /\ todo' = todo /\ rest' = rest
      /\ passed' = passed
  BY DEF Played, Scheduled, Performed, SameLine, SameTimes
<1>1. mode' \in {"played", "performed"} \/ (mode = "schedule" /\ mode' = "sim")
  BY DEF Played, Scheduled, Performed
<1>2. LineInv'
  BY <1>0, <1>1, SameVoices DEF IInv, LineInv, SameTimes, SameLine
<1>3. PlayInv'
  BY <1>1 DEF PlayInv
<1>4. SimInv'
  BY <1>0, <1>1, SameVoices DEF IInv, SimInv, SameTimes, LengthToDuration
<1>5. NoNoteEndsEarly'
  BY <1>0, NothingEnds DEF IInv, SameTimes
<1> QED
  BY <1>2, <1>3, <1>4, <1>5 DEF IInv

---------------------------------------------------------------------------
(* play.                                                                   *)

LEMMA PlayNothingStep == IInv /\ Play_Nothing => IInv'
<1> SUFFICES ASSUME IInv, Play_Nothing PROVE IInv'
  OBVIOUS
<1>0. SameLine /\ mode = "play" /\ mode' = mode /\ todo = {} /\ todo' = {}
  BY DEF Play_Nothing, SameLine
<1>1. LengthToDuration(DefaultLength) \in Int
  BY Durations, TimingAssumption
<1>2. clock' \in Nat
  BY <1>1, SleepsAreLongEnough DEF Play_Nothing, IInv, LineInv
<1>3. LineInv'
  BY <1>0, <1>2, SameVoices DEF IInv, LineInv, Play_Nothing, SameLine
<1>4. \A v \in Voices : Earlier(v) => Earlier(v)'
  BY VoicesHaveLengths DEF Earlier, Play_Nothing, IInv, LineInv
<1>5. PlayInv'
  BY <1>0, <1>4, SameVoices DEF IInv, PlayInv, Play_Nothing
<1>6. SimInv'
  BY <1>0 DEF SimInv
<1>7. NoNoteEndsEarly'
  BY <1>0, NothingEnds DEF IInv, Play_Nothing
<1> QED
  BY <1>3, <1>5, <1>6, <1>7 DEF IInv

LEMMA TurnOnStep == IInv /\ Turn_On => IInv'
<1> SUFFICES ASSUME IInv, Turn_On PROVE IInv'
  OBVIOUS
<1> USE DEF cursor
<1> DEFINE new == VoicesOf(track, chord)
<1>0. SameLine /\ mode = "play" /\ mode' = mode /\ todo = {} /\ todo' = new /\ HasChord
      /\ clock' = clock /\ ended' = ended /\ track' = track /\ chord' = chord
  BY DEF Turn_On, SameLine
<1>1. new \subseteq Voices /\ \A v \in new : v[1] = track /\ v[2] = chord
  BY <1>0, VoicesHaveLengths DEF IInv, LineInv
<1>2. rest' \in Int /\ \A v \in new : Length(v) <= rest'
  BY <1>1, VoicesHaveLengths DEF Turn_On, IsLongest, IInv, LineInv
<1>3. \A v \in new : LengthToDuration(Length(v)) <= LengthToDuration(rest')
  BY <1>1, <1>2, Durations, VoicesHaveLengths DEF IInv, LineInv
<1>4. began' = [v \in Voices |-> IF v \in new THEN clock ELSE began[v]]
  BY DEF Turn_On
<1>5. LineInv'
  <2>1. began' \in [Voices -> Times]
    BY <1>4 DEF IInv, LineInv, Times
  <2> QED
    BY <1>0, <1>2, <2>1, SameVoices DEF IInv, LineInv, Turn_On, SameLine
<1>6. \A v \in new : ended[v] = Never
  BY <1>0, <1>1 DEF IInv, PlayInv, Earlier, LineInv
<1>7. PlayInv'
  <2>1. ASSUME NEW v \in new
        PROVE  /\ began'[v] = clock
               /\ clock' - began'[v] + LengthToDuration(rest') >= LengthToDuration(Length(v))
    <3>1. began'[v] = clock
      BY <1>1, <1>4
    <3>2. LengthToDuration(rest') \in Int /\ LengthToDuration(Length(v)) \in Int
      BY <1>1, <1>2, Durations, VoicesHaveLengths DEF IInv, LineInv
    <3> QED
      BY <1>0, <1>3, <3>1, <3>2 DEF IInv, LineInv
  <2>2. \A v : LengthToDuration(Length(v))' = LengthToDuration(Length(v))
    BY <1>0, SameVoices DEF LengthToDuration
  <2>3. LengthToDuration(rest)' = LengthToDuration(rest')
    BY DEF LengthToDuration
  <2>4. \A v \in Voices : ended'[v] # Never => Earlier(v)'
    BY <1>0 DEF IInv, PlayInv, Earlier
  <2> QED
    BY <1>0, <1>1, <2>1, <2>2, <2>3, <2>4, SameVoices DEF PlayInv, IInv, LineInv
<1>8. SimInv'
  BY <1>0 DEF SimInv
<1>9. NoNoteEndsEarly'
  BY <1>0, <1>4, <1>6, NothingEnds DEF IInv
<1> QED
  BY <1>5, <1>7, <1>8, <1>9 DEF IInv

LEMMA TurnOffStep == IInv /\ Turn_Off => IInv'
<1> SUFFICES ASSUME IInv, Turn_Off PROVE IInv'
  OBVIOUS
<1>0. SameLine /\ mode = "play" /\ mode' = mode /\ began' = began /\ track' = track
      /\ passed' = passed /\ start_time' = start_time
  BY DEF Turn_Off, SameLine
<1>1. PICK v \in todo :
        /\ Wait(v)
        /\ ended' = [ended EXCEPT ![v] = clock']
        /\ todo' = todo \ {v}
        /\ chord' = IF todo = {v} THEN chord + 1 ELSE chord
  BY DEF Turn_Off
<1> DEFINE D(l) == LengthToDuration(l)
<1>2. v \in Voices /\ v[1] = track /\ v[2] = chord /\ began[v] \in Int /\ began[v] <= clock
      /\ clock - began[v] + D(rest) >= D(Length(v))
  BY <1>0, <1>1 DEF IInv, PlayInv
<1>3. clock \in Nat /\ rest \in Int /\ \A w \in Voices : Length(w) \in Int /\ D(Length(w)) \in Int
  BY Durations, VoicesHaveLengths DEF IInv, LineInv
<1>4. clock' \in Nat /\ rest' \in Int /\ clock' >= clock
      /\ D(rest') \in Int /\ clock' + D(rest') >= clock + D(rest)
      /\ clock' - began[v] >= D(Length(v))
  <2>1. CASE rest # 0
    <3>1. rest' = rest - Length(v) /\ Sleep(D(Length(v)))
      BY <1>1, <2>1 DEF Wait
    <3>2. clock' \in Nat /\ clock' >= clock /\ clock' >= clock + D(Length(v))
      BY <1>2, <1>3, <3>1, SleepsAreLongEnough
    <3>3. D(rest') = D(rest) - D(Length(v)) /\ D(rest) \in Int /\ D(rest') \in Int
      BY <1>2, <1>3, <3>1, Durations
    <3> QED
      BY <1>2, <1>3, <3>1, <3>2, <3>3
  <2>2. CASE rest = 0
    <3>1. rest' = rest /\ clock' = clock
      BY <1>1, <2>2 DEF Wait
    <3>2. D(rest) = 0 /\ D(rest') = 0
      BY <2>2, <3>1, Durations
    <3> QED
      BY <1>2, <1>3, <3>1, <3>2
  <2> QED
    BY <2>1, <2>2
<1> HIDE DEF D
<1>5. LineInv'
  <2>1. chord' \in Nat
    BY <1>1 DEF IInv, LineInv
  <2>2. ended' \in [Voices -> Times]
    <3>1. ended \in [Voices -> Times] /\ clock' \in Times
      BY <1>4 DEF IInv, LineInv, Times
    <3> QED
      BY <1>1, <3>1
  <2> QED
    BY <1>0, <1>4, <2>1, <2>2, SameVoices DEF IInv, LineInv, SameLine
<1>6. PlayInv'
  <2>1. ASSUME NEW w \in todo'
        PROVE  /\ w \in Voices /\ w[1] = track' /\ w[2] = chord'
               /\ began'[w] \in Int /\ began'[w] <= clock'
               /\ clock' - began'[w] + D(rest') >= D(Length(w))
    <3>1. w \in todo /\ todo # {v} /\ chord' = chord
      BY <1>1
    <3>2. w \in Voices /\ w[1] = track /\ w[2] = chord /\ began[w] \in Int /\ began[w] <= clock
          /\ clock - began[w] + D(rest) >= D(Length(w))
      BY <1>0, <3>1 DEF IInv, PlayInv, D
    <3>3. D(rest) \in Int
      BY <1>3, Durations DEF D
    <3> QED
      BY <1>0, <1>3, <1>4, <3>1, <3>2, <3>3
  <2>2. \A w : D(Length(w))' = D(Length(w))
    BY <1>0, SameVoices DEF D, LengthToDuration
  <2>3. D(rest)' = D(rest')
    BY DEF D, LengthToDuration
  <2>4. ASSUME NEW w \in Voices, ended'[w] # Never
        PROVE  Earlier(w)' \/ (todo' # {} /\ w[1] = track' /\ w[2] = chord')
    <3>1. Earlier(w) \/ (w[1] = track /\ w[2] = chord)
      BY <1>0, <1>1, <1>2, <2>4 DEF IInv, PlayInv, LineInv
    <3>2. w[1] \in Nat /\ w[2] \in Nat /\ chord \in Nat /\ track \in Nat
      BY VoicesHaveLengths DEF IInv, LineInv
    <3>3. todo' # {} \/ chord' = chord + 1
      BY <1>1
    <3>4. chord' = chord \/ chord' = chord + 1
      BY <1>1
    <3> QED
      BY <1>0, <3>1, <3>2, <3>3, <3>4 DEF Earlier
  <2> QED
    BY <1>0, <2>1, <2>2, <2>3, <2>4, SameVoices DEF PlayInv, D
<1>7. SimInv'
  BY <1>0 DEF SimInv
<1>8. NoNoteEndsEarly'
  <2>1. \A w \in Voices : w # v => ended'[w] = ended[w]
    BY <1>1 DEF IInv, LineInv
  <2>2. ended'[v] = clock'
    BY <1>1, <1>2 DEF IInv, LineInv
  <2>3. \A w : D(Length(w))' = D(Length(w)) /\ Length(w)' = Length(w)
    BY <1>0, SameVoices DEF D, LengthToDuration
  <2> QED
    BY <1>0, <1>4, <2>1, <2>2, <2>3, SameVoices DEF NoNoteEndsEarly, IInv, D
<1> QED
  BY <1>5, <1>6, <1>7, <1>8 DEF IInv

---------------------------------------------------------------------------
(* sim.                                                                    *)

LEMMA ScheduleStep == IInv /\ Schedule => IInv'
<1> SUFFICES ASSUME IInv, Schedule PROVE IInv'
  OBVIOUS
<1> DEFINE voices == VoicesOf(track, chord)
           new == UNION {Instructions(v, passed) : v \in voices}
<1>0. SameLine /\ SameTimes /\ mode = "schedule" /\ mode' = mode /\ HasChord
      /\ todo' = todo \cup new /\ chord' = chord + 1 /\ track' = track
  BY DEF Schedule, SameLine, SameTimes
<1>1. voices \subseteq Voices /\ \A v \in voices : v[1] = track /\ v[2] = chord
  BY <1>0, VoicesHaveLengths DEF IInv, LineInv
<1>2. /\ passed \in Nat /\ track \in Nat /\ chord \in Nat
      /\ \A v \in Voices : Length(v) \in Int /\ v[1] \in Nat /\ v[2] \in Nat
  BY VoicesHaveLengths DEF IInv, LineInv
<1>3. ASSUME NEW i \in new
      PROVE  /\ i \in Instr /\ i.voice \in voices
             /\ i.action = "On" => i.when = passed
             /\ i.action = "Off" => i.when = passed + Length(i.voice)
  <2>1. PICK v \in voices : i \in Instructions(v, passed)
    OBVIOUS
  <2>2. i = Instruction(passed, "On", v) \/ i = Instruction(passed + Length(v), "Off", v)
    BY <2>1 DEF Instructions
  <2> QED
    BY <1>1, <1>2, <2>2 DEF Instruction, Instr
<1>4. LineInv'
  <2>1. passed' \in Nat
    BY <1>1, <1>2 DEF Schedule, IsChordLength
  <2> QED
    BY <1>0, <1>2, <2>1, SameVoices DEF IInv, LineInv, Schedule, SameTimes, SameLine
<1>5. PlayInv'
  BY <1>0 DEF PlayInv
<1>6. SimInv'
  <2>1. /\ \A v \in Voices : began[v] = Never /\ ended[v] = Never
        /\ \A i \in todo : Earlier(i.voice) /\ i \in Instr
        /\ start_time = 0
    BY <1>0 DEF IInv, SimInv
  <2>2. \A i \in todo' : i \in Instr /\ i.voice \in Voices
    BY <1>0, <1>3, <2>1 DEF Instr
  <2>3. ASSUME NEW i \in todo'
        PROVE  Earlier(i.voice)'
    <3>1. CASE i \in todo
      BY <1>0, <1>2, <2>1, <2>2, <3>1 DEF Earlier
    <3>2. CASE i \in new
      BY <1>0, <1>1, <1>2, <1>3, <3>2 DEF Earlier
    <3> QED
      BY <1>0, <3>1, <3>2
  <2>4. \A i \in todo' : i.action = "On" => i.when >= 0
    BY <1>0, <1>2, <1>3 DEF IInv, SimInv
  <2>5. ASSUME NEW i \in todo', NEW j \in todo',
               i.action = "On", j.action = "Off", i.voice = j.voice
        PROVE  j.when = i.when + Length(i.voice)
    <3>1. CASE i \in todo /\ j \in todo
      BY <1>0, <2>5, <3>1 DEF IInv, SimInv
    <3>2. CASE i \in new /\ j \in new
      BY <1>3, <2>5, <3>2
    <3>3. ~(i \in todo /\ j \in new) /\ ~(i \in new /\ j \in todo)
      BY <1>1, <1>2, <1>3, <2>1, <2>5 DEF Earlier
    <3> QED
      BY <1>0, <3>1, <3>2, <3>3
  <2> QED
    BY <1>0, <2>1, <2>2, <2>3, <2>4, <2>5, SameVoices DEF SimInv, SameTimes
<1>7. NoNoteEndsEarly'
  BY <1>0, NothingEnds DEF IInv, SameTimes
<1> QED
  BY <1>4, <1>5, <1>6, <1>7 DEF IInv

LEMMA PerformStep == IInv /\ Perform => IInv'
<1> SUFFICES ASSUME IInv, Perform PROVE IInv'
  OBVIOUS
<1> USE DEF cursor
<1> DEFINE D(l) == LengthToDuration(l)
<1>0. SameLine /\ mode = "sim" /\ mode' = mode /\ track' = track /\ chord' = chord
      /\ rest' = rest /\ passed' = passed
  BY DEF Perform, SameLine
<1>1. PICK i \in todo :
        /\ IsNext(i)
        /\ Catch_Up(D(i.when))
        /\ \/ /\ i.action = "On"
              /\ began' = [began EXCEPT ![i.voice] = clock']
              /\ ended' = ended
           \/ /\ i.action = "Off"
              /\ ended' = [ended EXCEPT ![i.voice] = clock']
              /\ began' = began
        /\ todo' = todo \ {i}
  BY DEF Perform
<1> DEFINE v == i.voice
<1>2. /\ \A j \in todo : j.when \in Int /\ j.voice \in Voices /\ j.action \in {"On", "Off"}
      /\ todo \subseteq Instr
  BY <1>0 DEF IInv, SimInv, Instr
<1>3. /\ clock \in Nat /\ start_time \in Nat
      /\ \A l \in Int : D(l) \in Int
      /\ \A w \in Voices : Length(w) \in Int
      /\ began \in [Voices -> Times] /\ ended \in [Voices -> Times]
  BY Durations, VoicesHaveLengths DEF IInv, LineInv
(* Both clocks go on, the real one by at least as much. *)
<1>4. /\ clock' \in Nat /\ start_time' \in Nat
      /\ clock' - clock >= start_time' - start_time
      /\ start_time' >= D(i.when)
      /\ start_time' = start_time \/ start_time' = D(i.when)
  <2>1. CASE start_time < D(i.when)
    <3>1. Sleep(D(i.when) - start_time) /\ start_time' = D(i.when)
      BY <1>1, <2>1 DEF Catch_Up
    <3>2. D(i.when) \in Int
      BY <1>2, <1>3
    <3>3. clock' \in Nat /\ clock' >= clock + (D(i.when) - start_time)
      BY <1>3, <3>1, <3>2, SleepsAreLongEnough
    <3> QED
      BY <1>3, <2>1, <3>1, <3>2, <3>3
  <2>2. CASE ~(start_time < D(i.when))
    <3>1. start_time' = start_time /\ clock' = clock
      BY <1>1, <2>2 DEF Catch_Up
    <3> QED
      BY <1>2, <1>3, <2>2, <3>1
  <2> QED
    BY <2>1, <2>2
<1>5. \A j \in todo : D(i.when) <= D(j.when)
  BY <1>1, <1>2, Durations DEF IsNext
<1>6. \A w : /\ D(Length(w))' = D(Length(w)) /\ Length(w)' = Length(w)
  BY <1>0, SameVoices DEF LengthToDuration
<1>7. \A j \in todo : start_time' = 0 \/ start_time' <= D(j.when)
  BY <1>0, <1>2, <1>3, <1>4, <1>5 DEF IInv, SimInv
<1>8. began' \in [Voices -> Times] /\ ended' \in [Voices -> Times]
  BY <1>1, <1>3, <1>4 DEF Times
<1>9. LineInv'
  BY <1>0, <1>4, <1>8, SameVoices DEF IInv, LineInv, SameLine
<1>10. PlayInv'
  BY <1>0 DEF PlayInv
(* Of a voice that is on, the message that turns it off is as far away as its *)
(* length is not over.                                                     *)
<1>11. ASSUME NEW j \in todo, j.action = "Off", began'[j.voice] # Never
       PROVE  clock' - began'[j.voice] >= start_time' - D(j.when - Length(j.voice))
  <2>0. j.when \in Int /\ j.voice \in Voices /\ Length(j.voice) \in Int
        /\ D(j.when - Length(j.voice)) \in Int
    BY <1>2, <1>3
  <2>1. CASE i.action = "On" /\ j.voice = v
    <3>1. began'[v] = clock' /\ j.when = i.when + Length(v)
      BY <1>0, <1>1, <1>2, <1>3, <1>11, <2>1 DEF IInv, SimInv
    <3>2. j.when - Length(v) = i.when
      BY <1>2, <1>3, <3>1
    <3>3. i.when >= 0
      BY <1>0, <2>1 DEF IInv, SimInv
    <3>4. D(i.when) >= 0 /\ D(i.when) \in Int
      <4>1. i.when \in Int /\ D(i.when) \in Int
        BY <1>1, <1>2, <1>3
      <4>2. \A a, b \in Int : a <= b => D(a) <= D(b)
        BY Durations
      <4>3. D(0) <= D(i.when)
        BY <3>3, <4>1, <4>2
      <4>4. D(0) = 0
        BY Durations
      <4> QED
        BY <4>1, <4>3, <4>4
    <3>5. start_time' <= D(i.when)
      BY <1>4, <1>7, <3>4
    <3> QED
      BY <1>4, <2>1, <3>1, <3>2, <3>4, <3>5
  <2>2. CASE ~(i.action = "On" /\ j.voice = v)
    <3>1. began'[j.voice] = began[j.voice]
      BY <1>1, <1>2, <1>3, <2>2
    <3>2. clock - began[j.voice] >= start_time - D(j.when - Length(j.voice))
      BY <1>0, <1>11, <3>1 DEF IInv, SimInv
    <3>3. began[j.voice] \in Int
      BY <1>3, <1>11, <2>0, <3>1 DEF Times
    <3> DEFINE d == D(j.when - Length(j.voice))
    <3>4. d \in Int
      BY <2>0
    <3> HIDE DEF d
    <3>5. clock - began[j.voice] >= start_time - d
      BY <3>2 DEF d
    <3>6. clock \in Nat /\ start_time \in Nat /\ clock' \in Nat /\ start_time' \in Nat
          /\ clock' - clock >= start_time' - start_time
      BY <1>3, <1>4
    <3>7. clock' - began[j.voice] >= start_time' - d
      BY <3>3, <3>4, <3>5, <3>6
    <3> QED
      BY <3>1, <3>7 DEF d
  <2> QED
    BY <2>1, <2>2
(* A voice that takes time is not turned off before it is turned on.        *)
<1>12. ASSUME NEW j \in todo', j.action = "On", Length(j.voice) > 0
       PROVE  ended'[j.voice] = Never
  <2>1. j \in todo /\ ended[j.voice] = Never /\ j.voice \in Voices
    BY <1>0, <1>1, <1>2, <1>12 DEF IInv, SimInv
  <2>2. ~(i.action = "Off" /\ j.voice = v)
    <3> SUFFICES ASSUME i.action = "Off", j.voice = v PROVE FALSE
      OBVIOUS
    <3>1. i.when = j.when + Length(v)
      BY <1>0, <1>12, <2>1 DEF IInv, SimInv
    <3>2. i.when <= j.when
      BY <1>1, <2>1 DEF IsNext
    <3> QED
      BY <1>2, <1>3, <1>12, <2>1, <3>1, <3>2
  <2> QED
    BY <1>1, <1>3, <2>1, <2>2
<1>13. SimInv'
  <2>1. todo' \subseteq todo
    BY <1>1
  <2>2. \A j \in todo' : j.action = "On" => j.when >= 0
    BY <1>0, <2>1 DEF IInv, SimInv
  <2>3. \A j, k \in todo' :
          j.action = "On" /\ k.action = "Off" /\ j.voice = k.voice => k.when = j.when + Length(j.voice)
    BY <1>0, <2>1 DEF IInv, SimInv
  <2>4. \A a \in Int : D(a)' = D(a)
    BY DEF LengthToDuration
  <2>5. \A j \in todo' : D(j.when)' = D(j.when) /\ D(j.when - Length(j.voice))' = D(j.when - Length(j.voice))
    BY <1>6, <2>1 DEF LengthToDuration
  <2> HIDE DEF D
  <2>6. todo' \subseteq Instr'
    BY <1>0, <1>2, <2>1, SameVoices
  <2>7. /\ \A j \in todo' : start_time' = 0 \/ start_time' <= D(j.when)'
        /\ \A j \in todo' : j.action = "Off" /\ began'[j.voice] # Never =>
              clock' - began'[j.voice] >= start_time' - D(j.when - Length(j.voice))'
    BY <1>7, <1>11, <2>1, <2>5
  <2> QED
    BY <1>0, <1>6, <1>12, <2>2, <2>3, <2>6, <2>7 DEF SimInv, D
<1>14. NoNoteEndsEarly'
  <2>1. ASSUME NEW w \in Voices, began'[w] # Never, ended'[w] # Never, Length(w) > 0
        PROVE  ended'[w] - began'[w] >= D(Length(w))
    <3>1. CASE i.action = "Off" /\ w = v
      <4>1. ended'[w] = clock' /\ clock' - began'[w] >= start_time' - D(i.when - Length(w))
        BY <1>1, <1>3, <1>11, <2>1, <3>1
      <4>2. D(i.when - Length(w)) = D(i.when) - D(Length(w))
        BY <1>2, <1>3, Durations
      <4>3. began'[w] \in Int
        BY <1>8, <2>1 DEF Times
      <4> QED
        BY <1>2, <1>3, <1>4, <4>1, <4>2, <4>3
    <3>2. CASE ~(i.action = "Off" /\ w = v)
      <4>1. ended'[w] = ended[w]
        BY <1>1, <1>2, <1>3, <3>2
      <4>2. ~(i.action = "On" /\ w = v)
        BY <1>0, <2>1, <4>1 DEF IInv, SimInv
      <4>3. began'[w] = began[w]
        BY <1>1, <1>2, <1>3, <4>2
      <4> QED
        BY <2>1, <4>1, <4>3 DEF IInv, NoNoteEndsEarly
    <3> QED
      BY <3>1, <3>2
  <2> QED
    BY <1>0, <1>6, <2>1, SameVoices DEF NoNoteEndsEarly
<1> QED
  BY <1>9, <1>10, <1>13, <1>14 DEF IInv

---------------------------------------------------------------------------

(* The invariant is inductive. *)
THEOREM Inductive == IInv /\ [Next]_vars => IInv'
<1>1. IInv /\ UNCHANGED vars => IInv'
  <2> SUFFICES ASSUME IInv, UNCHANGED vars PROVE IInv'
    OBVIOUS
  <2>1. SameLine /\ SameTimes /\ track' = track /\ chord' = chord /\ todo' = todo /\ rest' = rest
        /\ passed' = passed /\ mode' = mode
    BY DEF vars, cursor, SameLine, SameTimes
  <2>2. LineInv'
    BY <2>1, SameVoices DEF IInv, LineInv, SameTimes, SameLine
  <2>3. PlayInv'
    BY <2>1, SameVoices DEF IInv, PlayInv, SameTimes, LengthToDuration, Earlier
  <2>4. SimInv'
    BY <2>1, SameVoices DEF IInv, SimInv, SameTimes, LengthToDuration, Earlier
  <2>5. NoNoteEndsEarly'
    BY <2>1, NothingEnds DEF IInv, SameTimes
  <2> QED
    BY <2>2, <2>3, <2>4, <2>5 DEF IInv
<1> QED
  BY <1>1, NextTrackStep, EndStep, PlayNothingStep, TurnOnStep, TurnOffStep, ScheduleStep, PerformStep
     DEF Next

(* No note is turned off before its length is over (interpreter.cc:301-310,  *)
(* builtin_functions.cc:513-566): for every chord and every schedule, any    *)
(* lengths of the other notes, and sleeps that are late by any time.        *)
THEOREM NotesLast == Spec => []NoNoteEndsEarly
<1>1. Init => IInv
  BY InitIInv
<1>2. IInv => NoNoteEndsEarly
  BY DEF IInv
<1> QED
  BY <1>1, <1>2, Inductive, PTL DEF Spec

---------------------------------------------------------------------------
(* Silence.  In play, only what is to be turned off sounds.  In sim, a pitch *)
(* that sounds is one that a message to come turns off, and a note that is  *)
(* still to be turned on is turned off later, as notes take time.           *)

Take_Time == \A v \in Voices : Length(v) > 0

Turned_Off(p) == \E j \in todo : j.action = "Off" /\ Pitch(j.voice) = p

Quiet ==
  /\ mode = "play" => sounding \subseteq Sound(todo)
  /\ mode \in {"played", "schedule"} => sounding = {}
  /\ mode = "performed" /\ Take_Time => sounding = {}
  /\ mode \in {"schedule", "sim"} /\ Take_Time =>
       /\ \A i \in todo : i.action = "On" => \E j \in todo : j.action = "Off" /\ j.voice = i.voice
       /\ \A p \in sounding : Turned_Off(p)

LEMMA QuietPlay ==
  ASSUME IInv, Quiet, Play_Nothing \/ Turn_On \/ Turn_Off
  PROVE  Quiet'
<1> USE DEF cursor
<1>0. SameLine /\ mode = "play" /\ mode' = "play" /\ sounding \subseteq Sound(todo)
  BY DEF Play_Nothing, Turn_On, Turn_Off, SameLine, Quiet
<1>1. \A v : Pitch(v)' = Pitch(v)
  BY <1>0, SameVoices
<1>2. sounding' \subseteq Sound(todo')
  <2>1. CASE Play_Nothing
    BY <1>0, <2>1 DEF Play_Nothing, Sound
  <2>2. CASE Turn_On
    <3>1. todo = {} /\ todo' = VoicesOf(track, chord)
          /\ sounding' = sounding \cup Sound(VoicesOf(track, chord))
      BY <2>2 DEF Turn_On
    <3> QED
      BY <1>0, <3>1 DEF Sound
  <2>3. CASE Turn_Off
    <3>1. PICK v \in todo : sounding' = sounding \ {Pitch(v)} /\ todo' = todo \ {v}
      BY <2>3 DEF Turn_Off
    <3> QED
      BY <1>0, <3>1 DEF Sound
  <2> QED
    BY <2>1, <2>2, <2>3
<1>3. (sounding \subseteq Sound(todo))'
  BY <1>1, <1>2 DEF Sound
<1> QED
  BY <1>0, <1>3 DEF Quiet

LEMMA QuietCursor ==
  ASSUME IInv, Quiet, Next_Track \/ Played \/ Scheduled \/ Performed \/ UNCHANGED vars
  PROVE  Quiet'
<1> USE DEF cursor, vars
<1>0. SameLine /\ sounding' = sounding /\ todo' = todo
  BY DEF Next_Track, Played, Scheduled, Performed, SameLine
<1>1. /\ mode' = mode \/ (mode = "play" /\ todo = {} /\ mode' = "played")
         \/ (mode = "schedule" /\ mode' = "sim") \/ (mode = "sim" /\ todo = {} /\ mode' = "performed")
  BY DEF Next_Track, Played, Scheduled, Performed
<1>2. /\ Take_Time' <=> Take_Time
      /\ Sound(todo)' = Sound(todo)
      /\ \A p : Turned_Off(p)' <=> Turned_Off(p)
  BY <1>0, SameVoices DEF Take_Time, Sound, Turned_Off
<1>3. Sound({}) = {} /\ (todo = {} => \A p : ~Turned_Off(p))
  BY DEF Sound, Turned_Off
<1> QED
  BY <1>0, <1>1, <1>2, <1>3 DEF Quiet

LEMMA QuietSchedule ==
  ASSUME IInv, Quiet, Schedule
  PROVE  Quiet'
<1> DEFINE new == UNION {Instructions(v, passed) : v \in VoicesOf(track, chord)}
<1>0. SameLine /\ mode = "schedule" /\ mode' = "schedule" /\ sounding = {} /\ sounding' = {}
      /\ todo' = todo \cup new
  BY DEF Schedule, SameLine, Quiet
<1>1. Take_Time' <=> Take_Time
  BY <1>0, SameVoices DEF Take_Time
<1>2. ASSUME NEW i \in new, i.action = "On"
      PROVE  \E j \in new : j.action = "Off" /\ j.voice = i.voice
  <2>1. PICK v \in VoicesOf(track, chord) : i \in Instructions(v, passed)
    OBVIOUS
  <2>2. Instructions(v, passed) = {Instruction(passed, "On", v), Instruction(passed + Length(v), "Off", v)}
    BY <2>1 DEF Instructions
  <2>3. Instruction(passed + Length(v), "Off", v) \in new
    BY <2>2
  <2>4. i = Instruction(passed, "On", v)
    BY <1>2, <2>1, <2>2 DEF Instruction
  <2> QED
    BY <2>3, <2>4 DEF Instruction
<1> HIDE DEF new
<1> QED
  BY <1>0, <1>1, <1>2 DEF Quiet

LEMMA QuietPerform ==
  ASSUME IInv, Quiet, Perform
  PROVE  Quiet'
<1>0. SameLine /\ mode = "sim" /\ mode' = "sim"
  BY DEF Perform, SameLine
<1>1. (Take_Time' <=> Take_Time) /\ \A v : Pitch(v)' = Pitch(v)
  BY <1>0, SameVoices DEF Take_Time
<1>2. PICK i \in todo :
        /\ IsNext(i) /\ todo' = todo \ {i}
        /\ \/ i.action = "On" /\ sounding' = sounding \cup {Pitch(i.voice)}
           \/ i.action = "Off" /\ sounding' = sounding \ {Pitch(i.voice)}
  BY DEF Perform
<1> SUFFICES ASSUME Take_Time
             PROVE  /\ \A j \in todo' : j.action = "On" =>
                         \E k \in todo' : k.action = "Off" /\ k.voice = j.voice
                    /\ \A p \in sounding' : \E k \in todo' : k.action = "Off" /\ Pitch(k.voice) = p
  BY <1>0, <1>1 DEF Quiet, Turned_Off
<1>3. /\ \A j \in todo : j.action = "On" => \E k \in todo : k.action = "Off" /\ k.voice = j.voice
      /\ \A p \in sounding : \E k \in todo : k.action = "Off" /\ Pitch(k.voice) = p
  BY <1>0 DEF Quiet, Turned_Off
<1>4. ASSUME NEW j \in todo, j.action = "On", i.action = "Off"
      PROVE  j.voice # i.voice
  <2> SUFFICES ASSUME j.voice = i.voice PROVE FALSE
    OBVIOUS
  <2>1. i.when = j.when + Length(j.voice) /\ i \in Instr /\ j \in Instr
    BY <1>0, <1>4 DEF IInv, SimInv
  <2>2. j.when \in Int /\ i.when \in Int /\ j.voice \in Voices
    BY <2>1 DEF Instr
  <2>3. Length(j.voice) \in Int /\ Length(j.voice) > 0
    BY <2>2, VoicesHaveLengths DEF IInv, LineInv, Take_Time
  <2>4. i.when <= j.when
    BY <1>2 DEF IsNext
  <2> QED
    BY <2>1, <2>2, <2>3, <2>4
<1>5. \A j \in todo' : j.action = "On" => \E k \in todo' : k.action = "Off" /\ k.voice = j.voice
  BY <1>2, <1>3, <1>4
<1>6. \A p \in sounding' : \E k \in todo' : k.action = "Off" /\ Pitch(k.voice) = p
  <2>1. CASE i.action = "On"
    BY <1>2, <1>3, <2>1
  <2>2. CASE i.action = "Off"
    BY <1>2, <1>3, <2>2
  <2> QED
    BY <1>2, <2>1, <2>2
<1> QED
  BY <1>5, <1>6

(* Behind a line whose notes take time nothing sounds, whatever the order of  *)
(* messages for one time and however late the sleeps (interpreter.cc:272-313,*)
(* builtin_functions.cc:513-566).                                          *)
THEOREM LinesEndInSilence == Spec => []SilentAtEnd
<1>1. Init => IInv /\ Quiet
  <2>1. Init => Quiet
    BY DEF Init, Quiet
  <2> QED
    BY <2>1, InitIInv
<1>2. IInv /\ Quiet /\ [Next]_vars => IInv' /\ Quiet'
  BY Inductive, QuietPlay, QuietCursor, QuietSchedule, QuietPerform DEF Next
<1>3. IInv /\ Quiet => SilentAtEnd
  BY DEF Quiet, SilentAtEnd, Take_Time
<1> QED
  BY <1>1, <1>2, <1>3, PTL DEF Spec

---------------------------------------------------------------------------
(* Keeping time.  While no sleep was late: in play the clock is where the    *)
(* next chord begins as long as the chords before have even lengths, and    *)
(* within such a chord either nothing was waited for yet, or all there is   *)
(* to wait for.  In sim the clock is what has been slept for, and each      *)
(* message is to be sent when the line says so.                            *)

EvenBefore == \A w \in Before(cursor) : Even(w[1], w[2])

InTime ==
  /\ chord # 0 /\ punctual \in BOOLEAN
  /\ mode = "play" /\ todo # {} => HasChord /\ todo \subseteq VoicesOf(track, chord)
  /\ mode = "play" /\ punctual /\ EvenBefore =>
       /\ todo = {} => clock = LengthToDuration(Start(cursor))
       /\ todo # {} /\ Even(track, chord) =>
            \/ clock = LengthToDuration(Start(cursor)) /\ \A v \in todo : rest = Length(v)
            \/ rest = 0 /\ clock = LengthToDuration(Start(cursor) + Lasts(track, chord))
  /\ mode = "schedule" => passed = Start(cursor)
  /\ mode \in {"schedule", "sim"} =>
       /\ punctual => clock = start_time
       /\ \A i \in todo :
            /\ Start(i.voice) \in Nat
            /\ i.when = Start(i.voice) + (IF i.action = "On" THEN 0 ELSE Length(i.voice))
  /\ OnTime

(* The chord of a voice begins where the chord does. *)
LEMMA StartOfVoice ==
  ASSUME NEW v, NEW w, v[1] = w[1], v[2] = w[2]
  PROVE  Before(v) = Before(w) /\ Start(v) = Start(w)
<1>1. Before(v) = Before(w)
  BY DEF Before
<1> QED
  BY <1>1 DEF Start

(* A line is a sequence of tracks, and these of chords. *)
LEMMA LineIsSequences ==
  ASSUME tracks \in PlayLines \cup SimLines
  PROVE  /\ Len(tracks) \in Nat /\ DOMAIN tracks = 1 .. Len(tracks)
         /\ \A t \in DOMAIN tracks :
              /\ Len(tracks[t]) \in Nat /\ DOMAIN tracks[t] = 1 .. Len(tracks[t])
              /\ \A c \in DOMAIN tracks[t] :
                   Len(tracks[t][c]) \in Nat /\ DOMAIN tracks[t][c] = 1 .. Len(tracks[t][c])
<1> DEFINE N == [pitch : Pitches \cup {Pause}, length : Int \cup {Unset}]
<1>1. tracks \in Seq(Seq(Seq(N)))
  BY TimingAssumption
<1> HIDE DEF N
<1>2. \A t \in DOMAIN tracks : tracks[t] \in Seq(Seq(N))
  BY <1>1
<1>3. \A t \in DOMAIN tracks : \A c \in DOMAIN tracks[t] : tracks[t][c] \in Seq(N)
  BY <1>2
<1> QED
  BY <1>1, <1>2, <1>3

LEMMA VoicesOfChord ==
  ASSUME tracks \in PlayLines \cup SimLines, NEW t \in DOMAIN tracks, NEW c \in DOMAIN tracks[t]
  PROVE  /\ IsFiniteSet({Length(v) : v \in VoicesOf(t, c)})
         /\ {Length(v) : v \in VoicesOf(t, c)} \subseteq Int
         /\ VoicesOf(t, c) = {} => {Length(v) : v \in VoicesOf(t, c)} = {}
<1>4. PICK D : D = DOMAIN tracks[t][c]
  OBVIOUS
<1>5. PICK S : S = {Length(v) : v \in VoicesOf(t, c)}
  OBVIOUS
<1>6. PICK f : f = [n \in D |-> Length(<<t, c, n>>)]
  OBVIOUS
<1>7. IsFiniteSet(D)
  <2>1. D = 1 .. Len(tracks[t][c]) /\ Len(tracks[t][c]) \in Nat
    BY <1>4, LineIsSequences
  <2>2. PICK n : n = Len(tracks[t][c])
    OBVIOUS
  <2> QED
    BY <2>1, <2>2, FS_Interval
<1>8. S = {Length(<<t, c, n>>) : n \in D}
  BY <1>4, <1>5 DEF VoicesOf, Chord
<1>9. f \in Surjection(D, S)
  BY <1>6, <1>8 DEF Surjection
<1>10. IsFiniteSet(S)
  BY <1>7, <1>9, FS_Surjection
<1>11. VoicesOf(t, c) \subseteq Voices
  BY DEF Voices
<1>12. S \subseteq Int
  BY <1>5, <1>11, VoicesHaveLengths
<1> QED
  BY <1>5, <1>10, <1>12

(* A chord lasts as long as its longest note, and not less than nothing. *)
LEMMA LongestLasts ==
  ASSUME tracks \in PlayLines \cup SimLines, NEW t \in DOMAIN tracks, NEW c \in DOMAIN tracks[t]
  PROVE  /\ Lasts(t, c) \in Nat
         /\ ~(VoicesOf(t, c) = {} /\ IsPlayed) =>
              /\ \A v \in VoicesOf(t, c) : Length(v) <= Lasts(t, c)
              /\ Lasts(t, c) = 0 \/ \E v \in VoicesOf(t, c) : Length(v) = Lasts(t, c)
         /\ VoicesOf(t, c) = {} /\ IsPlayed =>
              Lasts(t, c) = IF DefaultLength > 0 THEN DefaultLength ELSE 0
<1>1. PICK S : S = {Length(v) : v \in VoicesOf(t, c)}
  OBVIOUS
<1>2. IsFiniteSet(S) /\ S \subseteq Int /\ (VoicesOf(t, c) = {} => S = {})
  BY <1>1, VoicesOfChord
<1>3. CASE VoicesOf(t, c) = {} /\ IsPlayed
  <2>1. PICK T : T = {0, DefaultLength}
    OBVIOUS
  <2>2. DefaultLength \in Int /\ IsFiniteSet(T)
    <3>1. IsFiniteSet({0}) /\ IsFiniteSet({0} \cup {DefaultLength})
      BY FS_Singleton, FS_AddElement
    <3>2. T = {0} \cup {DefaultLength}
      BY <2>1
    <3> QED
      BY <3>1, <3>2, TimingAssumption
  <2>3. T \in SUBSET Int /\ T # {}
    BY <2>1, <2>2
  <2>4. Max(T) \in T /\ \A n \in T : n <= Max(T)
    BY <2>2, <2>3, Greatest
  <2>5. Lasts(t, c) = Max(T)
    BY <1>3, <2>1, <2>3 DEF Lasts, Longest
  <2>6. Lasts(t, c) \in {0, DefaultLength} /\ 0 <= Lasts(t, c) /\ DefaultLength <= Lasts(t, c)
    BY <2>1, <2>4, <2>5
  <2> QED
    BY <1>3, <2>2, <2>6
<1>4. CASE ~(VoicesOf(t, c) = {} /\ IsPlayed)
  <2>1. PICK T : T = {0} \cup S
    OBVIOUS
  <2>2. IsFiniteSet(T)
    <3>1. IsFiniteSet(S \cup {0}) /\ T = S \cup {0}
      BY <1>2, <2>1, FS_AddElement
    <3> QED
      BY <3>1
  <2>3. T \in SUBSET Int /\ T # {}
    BY <1>2, <2>1
  <2>4. Max(T) \in T /\ \A n \in T : n <= Max(T)
    BY <2>2, <2>3, Greatest
  <2>5. Lasts(t, c) = Max(T)
    BY <1>1, <1>4, <2>1, <2>3 DEF Lasts, Longest
  <2>6. Lasts(t, c) \in {0} \cup S /\ 0 <= Lasts(t, c) /\ \A n \in S : n <= Lasts(t, c)
    BY <2>1, <2>4, <2>5
  <2>7. Lasts(t, c) \in Nat
    <3>1. PICK l : l = Lasts(t, c)
      OBVIOUS
    <3>2. l \in Int /\ 0 <= l
      BY <2>3, <2>4, <2>5, <2>6, <3>1
    <3> QED
      BY <3>1, <3>2
  <2> QED
    BY <1>1, <1>4, <2>6, <2>7
<1> QED
  BY <1>3, <1>4

(* Where the line's chords begin. *)
LEMMA ChordsAreFinite ==
  ASSUME tracks \in PlayLines \cup SimLines
  PROVE  IsFiniteSet(Chords)
<1>2. PICK D : D = DOMAIN tracks
  OBVIOUS
<1>3. PICK S : S = {{<<t, c>> : c \in DOMAIN tracks[t]} : t \in DOMAIN tracks}
  OBVIOUS
<1>4. PICK f : f = [t \in D |-> {<<t, c>> : c \in DOMAIN tracks[t]}]
  OBVIOUS
<1>5. IsFiniteSet(D)
  <2>1. PICK n : n = Len(tracks)
    OBVIOUS
  <2>2. n \in Nat /\ D = 1 .. n
    BY <1>2, <2>1, LineIsSequences
  <2> QED
    BY <2>2, FS_Interval
<1>6. f \in Surjection(D, S)
  BY <1>2, <1>3, <1>4 DEF Surjection
<1>7. IsFiniteSet(S)
  BY <1>5, <1>6, FS_Surjection
<1>8. ASSUME NEW T \in S
      PROVE  IsFiniteSet(T)
  <2>1. PICK t \in D : T = {<<t, c>> : c \in DOMAIN tracks[t]}
    BY <1>2, <1>3
  <2>2. PICK E : E = DOMAIN tracks[t]
    OBVIOUS
  <2>4. PICK n : n = Len(tracks[t])
    OBVIOUS
  <2>5. n \in Nat /\ E = 1 .. n
    BY <1>2, <2>2, <2>4, LineIsSequences
  <2>6. IsFiniteSet(E)
    BY <2>5, FS_Interval
  <2>7. PICK g : g = [c \in E |-> <<t, c>>]
    OBVIOUS
  <2>8. g \in Surjection(E, T)
    BY <2>1, <2>2, <2>7 DEF Surjection
  <2> QED
    BY <2>6, <2>8, FS_Surjection
<1>9. PICK C : C = Chords
  OBVIOUS
<1>10. C = UNION S
  BY <1>3, <1>9 DEF Chords
<1>11. IsFiniteSet(C)
  BY <1>7, <1>8, <1>10, FS_UNION
<1> QED
  BY <1>9, <1>11

(* The next chord begins when the one before is over. *)
LEMMA NextChord ==
  ASSUME tracks \in PlayLines \cup SimLines, NEW t \in DOMAIN tracks, NEW c \in DOMAIN tracks[t]
  PROVE  /\ Start(<<t, c>>) \in Int
         /\ Start(<<t, c + 1>>) = Start(<<t, c>>) + Lasts(t, c)
         /\ Before(<<t, c + 1>>) = Before(<<t, c>>) \cup {<<t, c>>}
<1>0. t \in Nat /\ \A d \in DOMAIN tracks[t] : d \in Nat
  BY LineIsSequences
<1>1. <<t, c>> \in Chords /\ <<t, c>> \notin Before(<<t, c>>)
  BY <1>0 DEF Chords, Before
<1>2. \A w \in Chords : w = <<w[1], w[2]>> /\ w[1] \in DOMAIN tracks /\ w[2] \in DOMAIN tracks[w[1]]
  BY DEF Chords
<1>3. Before(<<t, c + 1>>) = Before(<<t, c>>) \cup {<<t, c>>}
  <2>1. \A w \in Chords : w[1] = t => w[2] \in Nat
    BY <1>0, <1>2
  <2>2. \A w \in Chords : w[1] = t => (w[2] < c + 1 <=> w[2] < c \/ w[2] = c)
    BY <1>0, <2>1
  <2>3. \A w \in Chords : w = <<t, c>> <=> w[1] = t /\ w[2] = c
    BY <1>2
  <2> QED
    BY <1>1, <2>2, <2>3 DEF Before
<1>4. PICK x : x = <<t, c>>
  OBVIOUS
<1>5. PICK S : S = Before(<<t, c>>)
  OBVIOUS
<1>6. PICK f : f = [w \in Chords |-> Lasts(w[1], w[2])]
  OBVIOUS
<1>7. PICK C : C = Chords
  OBVIOUS
<1>8. S \in SUBSET C /\ IsFiniteSet(C)
  BY <1>5, <1>7, ChordsAreFinite DEF Before
<1>9. IsFiniteSet(S)
  BY <1>8, FS_Subset
<1>10. \A w \in C : f[w] \in Int
  <2>1. \A w \in C : Lasts(w[1], w[2]) \in Nat
    BY <1>2, <1>7, LongestLasts
  <2> QED
    BY <1>6, <1>7, <2>1
<1>11. x \in C /\ x \notin S /\ f[x] = Lasts(t, c)
  BY <1>1, <1>4, <1>5, <1>6, <1>7
<1>12. \A y \in S : f[y] \in Int
  BY <1>8, <1>10
<1>13. f[x] \in Int
  BY <1>10, <1>11
<1>14. /\ SumFunctionOnSet(f, S) \in Int
       /\ SumFunctionOnSet(f, S \cup {x}) = SumFunctionOnSet(f, S) + f[x]
  BY <1>9, <1>11, <1>12, <1>13, SumWithOneMore
<1>15. Start(<<t, c>>) = SumFunctionOnSet(f, S)
  BY <1>5, <1>6 DEF Start
<1>16. Start(<<t, c + 1>>) = SumFunctionOnSet(f, S \cup {x})
  BY <1>3, <1>4, <1>5, <1>6 DEF Start
<1> QED
  BY <1>3, <1>11, <1>14, <1>15, <1>16

(* A track begins when the one before is over, or at once. *)
LEMMA NextTrack ==
  ASSUME tracks \in PlayLines \cup SimLines, track \in DOMAIN tracks,
         chord \in Nat, chord # 0, chord \notin DOMAIN tracks[track]
  PROVE  /\ IsPlayed => /\ Before(<<track + 1, 1>>) = Before(cursor)
                        /\ Start(<<track + 1, 1>>) = Start(cursor)
         /\ ~IsPlayed => Start(<<track + 1, 1>>) = 0
<1>1. \A w \in Chords : /\ w[1] \in Nat /\ w[2] \in Nat /\ 0 < w[2]
                        /\ w[1] = track => w[2] < chord
  BY LineIsSequences DEF Chords
<1>2. track \in Nat
  BY LineIsSequences
<1>3. ASSUME IsPlayed
      PROVE  Before(<<track + 1, 1>>) = Before(cursor)
  <2>1. \A w \in Chords : ~(w[2] < 1) /\ (w[1] < track + 1 <=> w[1] < track \/ w[1] = track)
    BY <1>1, <1>2
  <2> QED
    BY <1>1, <1>3, <2>1 DEF Before, cursor
<1>4. IsPlayed => Start(<<track + 1, 1>>) = Start(cursor)
  BY <1>3 DEF Start
<1>5. ASSUME ~IsPlayed
      PROVE  Start(<<track + 1, 1>>) = 0
  <2>1. \A w \in Chords : ~(w[2] < 1)
    BY <1>1
  <2>2. Before(<<track + 1, 1>>) = {}
    BY <1>5, <2>1 DEF Before
  <2>3. PICK f : f = [w \in Chords |-> Lasts(w[1], w[2])]
    OBVIOUS
  <2> QED
    BY <2>2, <2>3, SumOfNothing DEF Start
<1> QED
  BY <1>3, <1>4, <1>5

(* Where chords begin does not change. *)
LEMMA SameStart ==
  ASSUME SameLine, IsPlayed' <=> IsPlayed
  PROVE  /\ \A v : Start(v)' = Start(v)
         /\ \A v : Before(v)' = Before(v)
         /\ \A t, c : Lasts(t, c)' = Lasts(t, c)
         /\ \A t, c : Even(t, c)' <=> Even(t, c)
<1>1. /\ \A v : Length(v)' = Length(v)
      /\ \A t, c : VoicesOf(t, c)' = VoicesOf(t, c)
  BY SameVoices
<1>2. \A t, c : Lasts(t, c)' = Lasts(t, c)
  BY <1>1 DEF Lasts
<1>3. \A t, c : Even(t, c)' <=> Even(t, c)
  BY <1>1 DEF Even
<1>4. Chords' = Chords
  BY DEF Chords, SameLine
<1>5. \A v : Before(v)' = Before(v)
  BY <1>4 DEF Before
<1>6. \A v : Start(v)' = Start(v)
  BY <1>2, <1>4, <1>5 DEF Start
<1> QED
  BY <1>2, <1>3, <1>5, <1>6

(* What the cursor will be at. *)
LEMMA NextCursor ==
  ASSUME SameLine, IsPlayed' <=> IsPlayed
  PROVE  /\ Start(cursor)' = Start(<<track', chord'>>)
         /\ EvenBefore' <=> \A w \in Before(<<track', chord'>>) : Even(w[1], w[2])
         /\ Lasts(track, chord)' = Lasts(track', chord')
         /\ Even(track, chord)' <=> Even(track', chord')
         /\ VoicesOf(track, chord)' = VoicesOf(track', chord')
<1>1. PICK k : k = <<track', chord'>>
  OBVIOUS
<1>2. /\ Start(k)' = Start(k)
      /\ Before(k)' = Before(k)
      /\ Lasts(k[1], k[2])' = Lasts(k[1], k[2])
      /\ Even(k[1], k[2])' <=> Even(k[1], k[2])
      /\ VoicesOf(k[1], k[2])' = VoicesOf(k[1], k[2])
  BY SameStart, SameVoices
<1>3. k[1] = track' /\ k[2] = chord'
  BY <1>1
<1>4. Before(cursor)' = Before(k)'
  BY <1>1 DEF Before, cursor
<1>5. Start(cursor)' = Start(k)'
  BY <1>4 DEF Start
<1>6. /\ Lasts(track, chord)' = Lasts(k[1], k[2])'
      /\ Even(track, chord)' <=> Even(k[1], k[2])'
      /\ VoicesOf(track, chord)' = VoicesOf(k[1], k[2])'
  BY <1>3 DEF Lasts, Even, VoicesOf, Chord
<1>7. /\ Lasts(k[1], k[2]) = Lasts(track', chord')
      /\ Even(k[1], k[2]) <=> Even(track', chord')
      /\ VoicesOf(k[1], k[2]) = VoicesOf(track', chord')
  BY <1>3
<1>8. Before(k) = Before(<<track', chord'>>) /\ Start(k) = Start(<<track', chord'>>)
  BY <1>1
<1>9. EvenBefore' <=> \A w \in Before(k) : Even(w[1], w[2])
  BY <1>2, <1>4, SameStart DEF EvenBefore
<1> QED
  BY <1>2, <1>5, <1>6, <1>7, <1>8, <1>9

(* What was on time remains so. *)
LEMMA OnTimeRemains ==
  ASSUME SameLine, IsPlayed' <=> IsPlayed, OnTime, punctual' => punctual,
         began' = began, ended' = ended
  PROVE  OnTime'
<1>1. /\ \A v : Length(v)' = Length(v)
      /\ Voices' = Voices
  BY SameVoices
<1>2. \A v : LengthToDuration(Start(v))' = LengthToDuration(Start(v))
  BY SameStart DEF LengthToDuration
<1>3. \A v : LengthToDuration(Start(v) + Length(v))' = LengthToDuration(Start(v) + Length(v))
  BY <1>1, SameStart DEF LengthToDuration
<1>4. \A v : EvenUpTo(v)' <=> EvenUpTo(v)
  BY SameStart DEF EvenUpTo
<1> QED
  BY <1>1, <1>2, <1>3, <1>4 DEF OnTime

(* A sleep takes the time of its length, or none. *)
LEMMA TakesTime ==
  ASSUME NEW a \in Int, NEW l, l = IF a > 0 THEN a ELSE 0
  PROVE  /\ l \in Int
         /\ LengthToDuration(l) = IF LengthToDuration(a) > 0 THEN LengthToDuration(a) ELSE 0
<1>1. \A x, y \in Int : x <= y => LengthToDuration(x) <= LengthToDuration(y)
  BY Durations
<1>2. LengthToDuration(0) = 0 /\ LengthToDuration(a) \in Int
  BY Durations
<1>3. CASE a > 0
  <2>1. 0 <= LengthToDuration(a) /\ l = a
    BY <1>1, <1>2, <1>3
  <2> QED
    BY <1>2, <2>1
<1>4. CASE ~(a > 0)
  <2>1. LengthToDuration(a) <= 0 /\ l = 0
    BY <1>1, <1>2, <1>4
  <2> QED
    BY <1>2, <2>1
<1> QED
  BY <1>3, <1>4

(* Sleeping in time. *)
LEMMA SleepsInTime ==
  ASSUME NEW time \in Int, clock \in Nat, punctual \in BOOLEAN, Sleep(time)
  PROVE  /\ punctual' \in BOOLEAN /\ (punctual' => punctual)
         /\ punctual' => clock' = clock + (IF time > 0 THEN time ELSE 0)
<1>1. PICK delay \in Delays :
        /\ clock' = clock + (IF time > 0 THEN time ELSE 0) + delay
        /\ punctual' = (punctual /\ delay = 0)
  BY DEF Sleep
<1>2. punctual' \in BOOLEAN /\ (punctual' => punctual /\ delay = 0)
  BY <1>1
<1>3. delay \in Nat
  BY TimingAssumption
<1> DEFINE t == IF time > 0 THEN time ELSE 0
<1>4. t \in Nat
  OBVIOUS
<1> HIDE DEF t
<1>5. clock' = clock + t + delay
  BY <1>1 DEF t
<1>6. delay = 0 => clock' = clock + t
  BY <1>3, <1>4, <1>5
<1> QED
  BY <1>2, <1>6 DEF t

LEMMA InTimeCursor ==
  ASSUME IInv, InTime, Next_Track \/ Played \/ Scheduled \/ Performed \/ UNCHANGED vars
  PROVE  InTime'
<1> USE DEF vars
<1>0. SameLine /\ SameTimes /\ todo' = todo /\ rest' = rest /\ punctual' = punctual
  BY DEF Next_Track, Played, Scheduled, Performed, SameLine, SameTimes
<1>1. /\ mode' = mode \/ (mode = "play" /\ mode' = "played")
         \/ (mode = "schedule" /\ mode' = "sim") \/ (mode = "sim" /\ mode' = "performed")
      /\ IsPlayed' <=> IsPlayed
  BY DEF Next_Track, Played, Scheduled, Performed, IsPlayed
<1>2. OnTime'
  BY <1>0, <1>1, OnTimeRemains DEF InTime, SameTimes
<1>3. \A i \in todo : Start(i.voice)' = Start(i.voice) /\ Length(i.voice)' = Length(i.voice)
  BY <1>0, <1>1, SameStart, SameVoices
<1>4. ASSUME mode' = "play"
      PROVE  /\ mode = "play"
             /\ LengthToDuration(Start(cursor))' = LengthToDuration(Start(cursor))
             /\ EvenBefore' <=> EvenBefore
             /\ todo # {} =>
                  /\ track' = track /\ chord' = chord
                  /\ HasChord' <=> HasChord
                  /\ VoicesOf(track, chord)' = VoicesOf(track, chord)
                  /\ Even(track, chord)' <=> Even(track, chord)
                  /\ LengthToDuration(Start(cursor) + Lasts(track, chord))'
                       = LengthToDuration(Start(cursor) + Lasts(track, chord))
  <2>1. mode = "play" /\ IsPlayed
    BY <1>1, <1>4 DEF IsPlayed
  <2>2. /\ Before(<<track', chord'>>) = Before(cursor)
        /\ Start(<<track', chord'>>) = Start(cursor)
        /\ todo # {} => track' = track /\ chord' = chord
    <3>1. CASE Next_Track
      <4>1. track \in DOMAIN tracks /\ chord \in Nat /\ chord # 0 /\ chord \notin DOMAIN tracks[track]
            /\ track' = track + 1 /\ chord' = 1 /\ tracks \in PlayLines \cup SimLines
            /\ todo = {}
        BY <2>1, <3>1 DEF Next_Track, IInv, LineInv, InTime
      <4> QED
        BY <2>1, <4>1, NextTrack
    <3>2. CASE cursor' = cursor
      BY <3>2 DEF cursor
    <3> QED
      BY <3>1, <3>2 DEF Played, Scheduled, Performed
  <2>3. /\ Start(cursor)' = Start(cursor)
        /\ EvenBefore' <=> EvenBefore
        /\ Lasts(track, chord)' = Lasts(track', chord')
        /\ Even(track, chord)' <=> Even(track', chord')
        /\ VoicesOf(track, chord)' = VoicesOf(track', chord')
    BY <1>0, <1>1, <2>2, NextCursor DEF EvenBefore
  <2> QED
    BY <1>0, <2>1, <2>2, <2>3 DEF LengthToDuration, HasChord, SameLine
<1>5. ASSUME mode' = "schedule"
      PROVE  mode = "schedule" /\ passed' = Start(cursor)'
  <2>1. mode = "schedule" /\ ~IsPlayed
    BY <1>1, <1>5 DEF IsPlayed
  <2>2. passed' = Start(<<track', chord'>>)
    <3>1. CASE Next_Track
      <4>1. track \in DOMAIN tracks /\ chord \in Nat /\ chord # 0 /\ chord \notin DOMAIN tracks[track]
            /\ track' = track + 1 /\ chord' = 1 /\ tracks \in PlayLines \cup SimLines
            /\ passed' = 0
        BY <3>1 DEF Next_Track, IInv, LineInv, InTime
      <4> QED
        BY <2>1, <4>1, NextTrack
    <3>2. CASE cursor' = cursor /\ passed' = passed
      BY <2>1, <3>2 DEF cursor, InTime
    <3> QED
      BY <3>1, <3>2 DEF Played, Scheduled, Performed
  <2> QED
    BY <1>0, <1>1, <2>1, <2>2, NextCursor
<1>6. chord' # 0
  BY DEF Next_Track, Played, Scheduled, Performed, cursor, InTime
<1>7. mode' \in {"schedule", "sim"} => mode \in {"schedule", "sim"}
  BY <1>1
<1>8. ASSUME mode' = "play"
      PROVE  /\ todo' # {} => HasChord' /\ todo' \subseteq VoicesOf(track, chord)'
             /\ punctual' /\ EvenBefore' =>
                  /\ todo' = {} => clock' = LengthToDuration(Start(cursor))'
                  /\ todo' # {} /\ Even(track, chord)' =>
                       \/ /\ clock' = LengthToDuration(Start(cursor))'
                          /\ \A v \in todo' : rest' = Length(v)'
                       \/ /\ rest' = 0
                          /\ clock' = LengthToDuration(Start(cursor) + Lasts(track, chord))'
  BY <1>0, <1>4, <1>8, SameVoices DEF InTime, SameTimes
<1> QED
  BY <1>0, <1>2, <1>3, <1>5, <1>6, <1>7, <1>8 DEF InTime, SameTimes

LEMMA InTimePlayNothing ==
  ASSUME IInv, InTime, Play_Nothing
  PROVE  InTime'
<1>0. /\ SameLine /\ mode = "play" /\ mode' = "play" /\ todo = {} /\ todo' = {} /\ HasChord
      /\ VoicesOf(track, chord) = {} /\ Sleep(LengthToDuration(DefaultLength))
      /\ track' = track /\ chord' = chord + 1 /\ began' = began /\ ended' = ended
  BY DEF Play_Nothing, SameLine
<1>1. IsPlayed /\ IsPlayed'
  BY <1>0 DEF IsPlayed
<1>2. /\ clock \in Nat /\ chord \in Nat /\ punctual \in BOOLEAN
      /\ DefaultLength \in Int /\ LengthToDuration(DefaultLength) \in Int
      /\ tracks \in PlayLines \cup SimLines
  BY Durations, TimingAssumption DEF IInv, LineInv, InTime
<1>3. /\ punctual' \in BOOLEAN /\ (punctual' => punctual)
      /\ punctual' => clock' = clock + (IF LengthToDuration(DefaultLength) > 0
                                        THEN LengthToDuration(DefaultLength) ELSE 0)
  BY <1>0, <1>2, SleepsInTime
<1>4. OnTime'
  BY <1>0, <1>1, <1>3, OnTimeRemains DEF InTime
<1>5. /\ Lasts(track, chord) = IF DefaultLength > 0 THEN DefaultLength ELSE 0
      /\ Start(cursor) \in Int
      /\ Start(<<track, chord + 1>>) = Start(cursor) + Lasts(track, chord)
      /\ Before(<<track, chord + 1>>) = Before(cursor) \cup {cursor}
  BY <1>0, <1>1, <1>2, LongestLasts, NextChord DEF HasChord, cursor
<1>6. ASSUME punctual', EvenBefore'
      PROVE  clock' = LengthToDuration(Start(cursor))'
  <2>1. EvenBefore
    BY <1>0, <1>1, <1>5, <1>6, NextCursor DEF EvenBefore
  <2>2. clock = LengthToDuration(Start(cursor))
    BY <1>0, <1>3, <1>6, <2>1 DEF InTime
  <2>3. PICK l : l = Lasts(track, chord)
    OBVIOUS
  <2>4. PICK s : s = Start(cursor)
    OBVIOUS
  <2>5. /\ l \in Int /\ s \in Int /\ clock' = LengthToDuration(s) + LengthToDuration(l)
        /\ Start(<<track, chord + 1>>) = s + l
    BY <1>2, <1>3, <1>5, <1>6, <2>2, <2>3, <2>4, TakesTime
  <2>6. clock' = LengthToDuration(s + l)
    BY <2>5, Durations
  <2>7. LengthToDuration(Start(cursor))' = LengthToDuration(Start(<<track, chord + 1>>))
    BY <1>0, <1>1, NextCursor DEF LengthToDuration
  <2> QED
    BY <2>5, <2>6, <2>7
<1> QED
  BY <1>0, <1>2, <1>3, <1>4, <1>6 DEF InTime

LEMMA InTimeTurnOn ==
  ASSUME IInv, InTime, Turn_On
  PROVE  InTime'
<1> DEFINE new == VoicesOf(track, chord)
<1>0. /\ SameLine /\ mode = "play" /\ mode' = "play" /\ todo = {} /\ HasChord
      /\ todo' = new /\ track' = track /\ chord' = chord
      /\ clock' = clock /\ ended' = ended /\ punctual' = punctual
      /\ began' = [v \in Voices |-> IF v \in new THEN clock ELSE began[v]]
  BY DEF Turn_On, SameLine, cursor
<1>1. PICK longest \in new : rest' = Length(longest)
  BY DEF Turn_On
<1>2. IsPlayed /\ IsPlayed'
  BY <1>0 DEF IsPlayed
<1>3. /\ Start(cursor)' = Start(cursor)
      /\ EvenBefore' <=> EvenBefore
      /\ Even(track, chord)' <=> Even(track, chord)
      /\ VoicesOf(track, chord)' = new
      /\ HasChord'
  BY <1>0, <1>2, NextCursor DEF EvenBefore, HasChord, SameLine, cursor
<1>4. \A v : Length(v)' = Length(v) /\ LengthToDuration(Start(v))' = LengthToDuration(Start(v))
             /\ LengthToDuration(Start(v) + Length(v))' = LengthToDuration(Start(v) + Length(v))
  BY <1>0, <1>2, SameVoices, SameStart DEF LengthToDuration
<1>5. punctual /\ EvenBefore => clock = LengthToDuration(Start(cursor))
  BY <1>0 DEF InTime
<1>6. LengthToDuration(Start(cursor))' = LengthToDuration(Start(cursor))
  BY <1>3 DEF LengthToDuration
<1>7. ASSUME punctual', EvenBefore', Even(track, chord)'
      PROVE  clock' = LengthToDuration(Start(cursor))' /\ \A v \in todo' : rest' = Length(v)'
  BY <1>0, <1>1, <1>3, <1>4, <1>5, <1>6, <1>7 DEF Even
<1>8. OnTime'
  <2> SUFFICES ASSUME NEW v \in Voices, punctual, Length(v) >= 0, EvenUpTo(v), began'[v] # Never,
                      v \in new
               PROVE  began'[v] = LengthToDuration(Start(v))
    <3>1. Voices' = Voices /\ \A v : EvenUpTo(v)' <=> EvenUpTo(v)
      BY <1>0, <1>2, SameVoices, SameStart DEF EvenUpTo
    <3>2. OnTime
      BY DEF InTime
    <3> QED
      BY <1>0, <1>2, <1>4, <3>1, <3>2 DEF OnTime
  <2>1. v[1] = track /\ v[2] = chord
    BY <1>0, VoicesHaveLengths DEF IInv, LineInv
  <2>2. Before(v) = Before(cursor) /\ Start(v) = Start(cursor)
    BY <2>1 DEF Start, Before, cursor
  <2>3. EvenBefore
    BY <2>2 DEF EvenUpTo, EvenBefore
  <2> QED
    BY <1>0, <1>5, <2>2, <2>3
<1> QED
  BY <1>0, <1>3, <1>7, <1>8 DEF InTime

LEMMA InTimeTurnOff ==
  ASSUME IInv, InTime, Turn_Off
  PROVE  InTime'
<1>0. SameLine /\ mode = "play" /\ mode' = "play" /\ began' = began /\ track' = track
  BY DEF Turn_Off, SameLine
<1>1. PICK v \in todo :
        /\ Wait(v)
        /\ ended' = [ended EXCEPT ![v] = clock']
        /\ todo' = todo \ {v}
        /\ chord' = IF todo = {v} THEN chord + 1 ELSE chord
  BY DEF Turn_Off
<1>2. /\ IsPlayed /\ IsPlayed'
      /\ HasChord /\ v \in VoicesOf(track, chord) /\ todo \subseteq VoicesOf(track, chord)
      /\ clock \in Nat /\ rest \in Int /\ chord \in Nat /\ punctual \in BOOLEAN
      /\ tracks \in PlayLines \cup SimLines
      /\ ended \in [Voices -> Times]
  BY <1>0, <1>1 DEF IInv, LineInv, InTime, IsPlayed
<1>3. PICK l : l = Lasts(track, chord)
  OBVIOUS
<1>4. PICK s : s = Start(cursor)
  OBVIOUS
<1>5. PICK len : len = Length(v)
  OBVIOUS
<1>6. /\ l \in Int /\ s \in Int /\ len \in Int
      /\ v \in Voices /\ v[1] = track /\ v[2] = chord
      /\ Start(<<track, chord + 1>>) = s + l
      /\ Before(<<track, chord + 1>>) = Before(cursor) \cup {cursor}
  BY <1>2, <1>3, <1>4, <1>5, VoicesHaveLengths, LongestLasts, NextChord DEF HasChord, cursor
<1>7. LengthToDuration(len) \in Int /\ LengthToDuration(s) \in Int
      /\ LengthToDuration(s + l) = LengthToDuration(s) + LengthToDuration(l)
  BY <1>6, Durations
<1>8. punctual' \in BOOLEAN /\ (punctual' => punctual)
  BY <1>1, <1>2, <1>5, <1>7, SleepsInTime DEF Wait
<1>9. Even(track, chord) => l = IF len > 0 THEN len ELSE 0
  BY <1>2, <1>3, <1>5, <1>6, LongestLasts DEF HasChord, Even
(* In a chord of one length the first wait is the only one. *)
<1>10. ASSUME punctual', EvenBefore, Even(track, chord)
       PROVE  rest' = 0 /\ clock' = LengthToDuration(s + l)
  <2>1. \/ clock = LengthToDuration(s) /\ rest = len
        \/ rest = 0 /\ clock = LengthToDuration(s + l)
    BY <1>0, <1>1, <1>3, <1>4, <1>5, <1>8, <1>10 DEF InTime
  <2>2. CASE rest = 0
    <3>1. rest' = 0 /\ clock' = clock
      BY <1>1, <2>2 DEF Wait
    <3>2. clock = LengthToDuration(s) /\ rest = len => s + l = s
      BY <1>6, <1>9, <1>10, <2>2
    <3> QED
      BY <2>1, <3>1, <3>2
  <2>3. CASE rest # 0
    <3>1. rest' = rest - len /\ Sleep(LengthToDuration(len)) /\ clock = LengthToDuration(s) /\ rest = len
      BY <1>1, <1>5, <2>1, <2>3 DEF Wait
    <3>2. clock' = clock + (IF LengthToDuration(len) > 0 THEN LengthToDuration(len) ELSE 0)
      BY <1>2, <1>7, <1>10, <3>1, SleepsInTime
    <3>3. LengthToDuration(l) = IF LengthToDuration(len) > 0 THEN LengthToDuration(len) ELSE 0
      BY <1>6, <1>9, <1>10, TakesTime
    <3> QED
      BY <1>6, <1>7, <3>1, <3>2, <3>3
  <2> QED
    BY <2>2, <2>3
<1>11. OnTime'
  <2>1. /\ Voices' = Voices /\ \A w : EvenUpTo(w)' <=> EvenUpTo(w)
        /\ \A w : Length(w)' = Length(w) /\ LengthToDuration(Start(w))' = LengthToDuration(Start(w))
                  /\ LengthToDuration(Start(w) + Length(w))' = LengthToDuration(Start(w) + Length(w))
    BY <1>0, <1>2, SameVoices, SameStart DEF EvenUpTo, LengthToDuration
  <2>2. ASSUME punctual', Length(v) >= 0, EvenUpTo(v)
        PROVE  ended'[v] = LengthToDuration(Start(v) + Length(v))
    <3>1. Before(v) = Before(cursor) /\ Start(v) = s
      BY <1>4, <1>6 DEF Start, Before, cursor
    <3>2. EvenBefore /\ Even(track, chord)
      BY <1>6, <2>2, <3>1 DEF EvenUpTo, EvenBefore
    <3>3. l = len
      BY <1>5, <1>6, <1>9, <2>2, <3>2
    <3> QED
      BY <1>1, <1>2, <1>5, <1>6, <1>10, <2>2, <3>1, <3>2, <3>3
  <2>3. \A w \in Voices : w # v => ended'[w] = ended[w]
    BY <1>1, <1>2
  <2>4. OnTime
    BY DEF InTime
  <2> QED
    BY <1>0, <1>2, <1>8, <2>1, <2>2, <2>3, <2>4 DEF OnTime
<1>12. /\ EvenBefore' <=> \A w \in Before(<<track', chord'>>) : Even(w[1], w[2])
       /\ Start(cursor)' = Start(<<track', chord'>>)
       /\ Lasts(track, chord)' = Lasts(track', chord')
       /\ Even(track, chord)' <=> Even(track', chord')
       /\ VoicesOf(track, chord)' = VoicesOf(track', chord')
  BY <1>0, <1>2, NextCursor
<1>13. CASE todo = {v}
  <2>1. chord' = chord + 1 /\ todo' = {}
    BY <1>1, <1>13
  <2>2. ASSUME punctual', EvenBefore'
        PROVE  clock' = LengthToDuration(Start(cursor))'
    <3>1. EvenBefore /\ Even(track, chord)
      BY <1>0, <1>6, <1>12, <2>1, <2>2 DEF EvenBefore, cursor
    <3>2. LengthToDuration(Start(cursor))' = LengthToDuration(s + l)
      BY <1>0, <1>6, <1>12, <2>1 DEF LengthToDuration
    <3> QED
      BY <1>10, <2>2, <3>1, <3>2
  <2> QED
    BY <1>0, <1>2, <1>8, <1>11, <2>1, <2>2 DEF InTime
<1>14. CASE todo # {v}
  <2>1. chord' = chord /\ todo' # {} /\ todo' \subseteq todo
    BY <1>1, <1>14
  <2>2. ASSUME punctual', EvenBefore', Even(track, chord)'
        PROVE  rest' = 0 /\ clock' = LengthToDuration(Start(cursor) + Lasts(track, chord))'
    <3>1. EvenBefore /\ Even(track, chord)
      BY <1>0, <1>12, <2>1, <2>2 DEF EvenBefore, cursor
    <3>2. LengthToDuration(Start(cursor) + Lasts(track, chord))' = LengthToDuration(s + l)
      BY <1>0, <1>3, <1>4, <1>12, <2>1 DEF LengthToDuration, cursor
    <3> QED
      BY <1>10, <2>2, <3>1, <3>2
  <2>3. HasChord' /\ todo' \subseteq VoicesOf(track, chord)' /\ chord' # 0
    BY <1>0, <1>2, <1>12, <2>1 DEF HasChord, SameLine, InTime
  <2> QED
    BY <1>0, <1>8, <1>11, <2>1, <2>2, <2>3 DEF InTime
<1> QED
  BY <1>13, <1>14

LEMMA InTimeSchedule ==
  ASSUME IInv, InTime, Schedule
  PROVE  InTime'
<1> DEFINE new == UNION {Instructions(v, passed) : v \in VoicesOf(track, chord)}
<1>0. /\ SameLine /\ mode = "schedule" /\ mode' = "schedule" /\ HasChord
      /\ todo' = todo \cup new /\ track' = track /\ chord' = chord + 1
      /\ start_time' = start_time /\ clock' = clock /\ began' = began /\ ended' = ended
      /\ punctual' = punctual
  BY DEF Schedule, SameLine
<1>1. PICK length \in {0} \cup {Length(v) : v \in VoicesOf(track, chord)} :
        IsChordLength(length, VoicesOf(track, chord)) /\ passed' = passed + length
  BY DEF Schedule
<1>2. /\ ~IsPlayed /\ ~IsPlayed'
      /\ tracks \in PlayLines \cup SimLines
      /\ passed \in Nat /\ passed = Start(cursor) /\ chord \in Nat
      /\ \A v \in Voices : Length(v) \in Int
      /\ VoicesOf(track, chord) \subseteq Voices
      /\ \A v \in VoicesOf(track, chord) : v[1] = track /\ v[2] = chord
  BY <1>0, VoicesHaveLengths DEF IInv, LineInv, InTime, IsPlayed
<1>3. PICK l : l = Lasts(track, chord)
  OBVIOUS
<1>4. /\ l \in Nat
      /\ \A v \in VoicesOf(track, chord) : Length(v) <= l
      /\ l = 0 \/ \E v \in VoicesOf(track, chord) : Length(v) = l
  BY <1>0, <1>2, <1>3, LongestLasts DEF HasChord
<1>5. length = l
  <2>1. length \in Int
    BY <1>1, <1>2
  <2>2. length <= l
    BY <1>1, <1>4 DEF IsChordLength
  <2>3. l <= length
    BY <1>1, <1>4 DEF IsChordLength
  <2> QED
    BY <1>4, <2>1, <2>2, <2>3
<1>6. passed' = Start(cursor)'
  <2>1. Start(<<track, chord + 1>>) = Start(cursor) + l
    BY <1>0, <1>2, <1>3, NextChord DEF HasChord, cursor
  <2> QED
    BY <1>0, <1>1, <1>2, <1>5, <2>1, NextCursor
<1>7. OnTime'
  BY <1>0, <1>2, OnTimeRemains DEF InTime
<1>8. \A i \in todo : /\ Start(i.voice) \in Nat
                      /\ i.when = Start(i.voice) + (IF i.action = "On" THEN 0 ELSE Length(i.voice))
  BY <1>0 DEF InTime
<1>9. ASSUME NEW i \in new
      PROVE  /\ Start(i.voice) \in Nat
             /\ i.when = Start(i.voice) + (IF i.action = "On" THEN 0 ELSE Length(i.voice))
  <2>1. PICK v \in VoicesOf(track, chord) : i \in Instructions(v, passed)
    OBVIOUS
  <2>2. Start(v) = passed
    BY <1>2, <2>1 DEF Start, Before, cursor
  <2>3. i.voice = v /\ \/ i.action = "On" /\ i.when = passed
                       \/ i.action = "Off" /\ i.when = passed + Length(v)
    BY <2>1 DEF Instructions, Instruction
  <2> QED
    BY <1>2, <2>2, <2>3
<1> HIDE DEF new
<1>10. \A i \in todo' : /\ Start(i.voice)' \in Nat
                        /\ i.when = Start(i.voice)' + (IF i.action = "On" THEN 0 ELSE Length(i.voice)')
  BY <1>0, <1>2, <1>8, <1>9, SameStart, SameVoices
<1>11. chord' # 0
  BY <1>0, <1>2
<1> QED
  BY <1>0, <1>6, <1>7, <1>10, <1>11 DEF InTime

LEMMA InTimePerform ==
  ASSUME IInv, InTime, Perform
  PROVE  InTime'
<1>0. SameLine /\ mode = "sim" /\ mode' = "sim" /\ track' = track /\ chord' = chord
  BY DEF Perform, SameLine, cursor
<1>1. PICK i \in todo :
        /\ Catch_Up(LengthToDuration(i.when))
        /\ \/ /\ i.action = "On"
              /\ began' = [began EXCEPT ![i.voice] = clock']
              /\ ended' = ended
           \/ /\ i.action = "Off"
              /\ ended' = [ended EXCEPT ![i.voice] = clock']
              /\ began' = began
        /\ todo' = todo \ {i}
  BY DEF Perform
<1>2. PICK d : d = LengthToDuration(i.when)
  OBVIOUS
<1>3. PICK v : v = i.voice
  OBVIOUS
<1>4. /\ ~IsPlayed /\ ~IsPlayed'
      /\ v \in Voices /\ i.when \in Int /\ i.action \in {"On", "Off"}
      /\ clock \in Nat /\ start_time \in Nat /\ punctual \in BOOLEAN
      /\ began \in [Voices -> Times] /\ ended \in [Voices -> Times]
      /\ start_time = 0 \/ start_time <= d
      /\ punctual => clock = start_time
      /\ Start(v) \in Nat
      /\ i.when = Start(v) + (IF i.action = "On" THEN 0 ELSE Length(v))
  BY <1>0, <1>2, <1>3 DEF IInv, LineInv, SimInv, InTime, Instr, IsPlayed
<1>5. d \in Int /\ Length(v) \in Int /\ (i.when >= 0 => d >= 0)
  <2>1. Length(v) \in Int
    BY <1>4, VoicesHaveLengths DEF IInv, LineInv
  <2>2. \A x, y \in Int : x <= y => LengthToDuration(x) <= LengthToDuration(y)
    BY Durations
  <2>3. LengthToDuration(0) = 0 /\ d \in Int
    BY <1>2, <1>4, Durations
  <2>4. 0 <= i.when => LengthToDuration(0) <= d
    BY <1>2, <1>4, <2>2
  <2> QED
    BY <1>4, <2>1, <2>3, <2>4
<1>6. /\ punctual' \in BOOLEAN /\ (punctual' => punctual)
      /\ punctual' => clock' = start_time' /\ (i.when >= 0 => clock' = d)
  <2>1. CASE start_time < d
    <3>1. PICK time : time = d - start_time
      OBVIOUS
    <3>2. Sleep(time) /\ start_time' = d /\ time \in Int /\ time > 0
      BY <1>1, <1>2, <1>4, <1>5, <2>1, <3>1 DEF Catch_Up
    <3>3. /\ punctual' \in BOOLEAN /\ (punctual' => punctual)
          /\ punctual' => clock' = clock + time
      BY <1>4, <3>2, SleepsInTime
    <3> QED
      BY <1>4, <1>5, <3>1, <3>2, <3>3
  <2>2. CASE ~(start_time < d)
    <3>1. start_time' = start_time /\ clock' = clock /\ punctual' = punctual
      BY <1>1, <1>2, <2>2 DEF Catch_Up
    <3>2. i.when >= 0 => start_time = d
      BY <1>4, <1>5, <2>2
    <3> QED
      BY <1>4, <3>1, <3>2
  <2> QED
    BY <2>1, <2>2
<1>7. OnTime'
  <2>1. /\ Voices' = Voices
        /\ \A w : Length(w)' = Length(w) /\ LengthToDuration(Start(w))' = LengthToDuration(Start(w))
                  /\ LengthToDuration(Start(w) + Length(w))' = LengthToDuration(Start(w) + Length(w))
    BY <1>0, <1>4, SameVoices, SameStart DEF LengthToDuration
  <2>2. ASSUME punctual', Length(v) >= 0
        PROVE  /\ i.action = "On" => began'[v] = LengthToDuration(Start(v))
               /\ i.action = "Off" => ended'[v] = LengthToDuration(Start(v) + Length(v))
    <3>1. i.when >= 0 /\ clock' = d
      BY <1>4, <1>5, <1>6, <2>2
    <3>2. CASE i.action = "On"
      <4>1. i.when = Start(v) /\ began'[v] = clock'
        BY <1>1, <1>3, <1>4, <3>2
      <4> QED
        BY <1>2, <3>1, <3>2, <4>1
    <3>3. CASE i.action = "Off"
      <4>1. i.when = Start(v) + Length(v) /\ ended'[v] = clock'
        BY <1>1, <1>3, <1>4, <3>3
      <4> QED
        BY <1>2, <3>1, <3>3, <4>1
    <3> QED
      BY <1>4, <3>2, <3>3
  <2>3. /\ \A w \in Voices : w # v \/ i.action = "Off" => began'[w] = began[w]
        /\ \A w \in Voices : w # v \/ i.action = "On" => ended'[w] = ended[w]
    BY <1>1, <1>3, <1>4
  <2>4. OnTime
    BY DEF InTime
  <2> QED
    BY <1>4, <1>6, <2>1, <2>2, <2>3, <2>4 DEF OnTime
<1>8. \A j \in todo' : /\ Start(j.voice)' \in Nat
                       /\ j.when = Start(j.voice)' + (IF j.action = "On" THEN 0 ELSE Length(j.voice)')
  BY <1>0, <1>1, <1>4, SameStart, SameVoices DEF InTime
<1>9. chord' # 0
  BY <1>0 DEF InTime
<1> QED
  BY <1>0, <1>6, <1>7, <1>8, <1>9 DEF InTime

LEMMA InTimeFirst == Init => InTime
<1> SUFFICES ASSUME Init PROVE InTime
  OBVIOUS
<1>1. tracks \in PlayLines \cup SimLines /\ track = 1 /\ chord = 1 /\ mode \in {"play", "schedule"}
      /\ punctual = TRUE /\ todo = {} /\ clock = 0 /\ passed = 0 /\ start_time = 0
  BY DEF Init
<1>2. \A w \in Chords : w[1] \in Nat /\ w[2] \in Nat /\ 0 < w[1] /\ 0 < w[2]
  BY <1>1, LineIsSequences DEF Chords
<1>3. \A w \in Chords : ~(w[1] < 1) /\ ~(w[2] < 1)
  BY <1>2
<1>4. Before(cursor) = {}
  BY <1>1, <1>3 DEF Before, cursor
<1>5. Start(cursor) = 0
  <2>1. PICK f : f = [w \in Chords |-> Lasts(w[1], w[2])]
    OBVIOUS
  <2> QED
    BY <1>4, <2>1, SumOfNothing DEF Start
<1>6. LengthToDuration(0) = 0
  BY Durations
<1>7. OnTime
  BY DEF Init, OnTime
<1> QED
  BY <1>1, <1>5, <1>6, <1>7 DEF InTime

(* When no sleep is late every note begins and ends when the line says so:    *)
(* with sim, whatever the lengths in its chords and the other tracks, and   *)
(* with play up to the first chord whose notes differ in length             *)
(* (interpreter.cc:272-313, builtin_functions.cc:478-569).                 *)
THEOREM NotesAreOnTime == Spec => []OnTime
<1>1. Init => IInv /\ InTime
  BY InitIInv, InTimeFirst
<1>2. IInv /\ InTime /\ [Next]_vars => IInv' /\ InTime'
  BY Inductive, InTimeCursor, InTimePlayNothing, InTimeTurnOn, InTimeTurnOff, InTimeSchedule,
     InTimePerform DEF Next
<1>3. InTime => OnTime
  BY DEF InTime
<1> QED
  BY <1>1, <1>2, <1>3, PTL DEF Spec
=============================================================================
