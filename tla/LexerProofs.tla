------------------------------ MODULE LexerProofs ------------------------------
(***************************************************************************)
(* The lexer, for any sources of any length: nothing of a text is lost or  *)
(* read twice, every token has the place where it begins, and tokens are   *)
(* what their types say.                                                   *)
(*                                                                         *)
(* The invariant says that the cursor knows its place (Placed), that tokens *)
(* follow each other and are whole (TokensAreGood), that what lies between *)
(* the last token and the cursor is blank (Skipped, Commenting), and that a *)
(* text that is read is blank behind its last token.  The lemmas come in   *)
(* the order of the code: places, consuming and rewinding, loops that      *)
(* consume, blanks, one lemma for each way of making a token, and what is  *)
(* skipped.  Whether a text is blank, and how far a loop consumes, are     *)
(* recursive functions: they are shown to have a solution first.           *)
(***************************************************************************)
EXTENDS Lexer, FiniteSetTheorems, WellFoundedInduction, TLAPS

---------------------------------------------------------------------------
(* The least and the greatest number of a set.                             *)

\* A set of natural numbers that is not empty has a least element.
LEMMA Smallest ==
  ASSUME NEW S \in SUBSET Nat, S # {}
  PROVE  \E m \in S : \A n \in S : m <= n
<1> DEFINE R == OpToRel(<, Nat)
<1>1. IsWellFoundedOn(R, Nat)
  BY NatLessThanWellFounded
<1>2. \A x, y \in Nat : <<y, x>> \in R <=> y < x
  BY DEF OpToRel
<1> HIDE DEF R
<1>3. PICK m \in S : \A n \in S : ~(<<n, m>> \in R)
  BY <1>1, WFMin
<1>4. \A n \in S : m \in Nat /\ n \in Nat /\ ~(n < m)
  BY <1>2, <1>3
<1> QED
  BY <1>4

\* One that is bounded has a greatest element.
LEMMA Largest ==
  ASSUME NEW bound \in Nat, NEW S \in SUBSET (0 .. bound), S # {}
  PROVE  \E m \in S : \A n \in S : m >= n
<1> DEFINE T == {bound - n : n \in S}
<1>1. T \in SUBSET Nat /\ T # {}
  <2>1. \A n \in S : bound - n \in Nat
    OBVIOUS
  <2> QED
    BY <2>1
<1>2. PICK t \in T : \A u \in T : t <= u
  BY <1>1, Smallest
<1>3. PICK m \in S : t = bound - m
  BY <1>2
<1>4. \A n \in S : bound - m <= bound - n
  BY <1>2, <1>3
<1> QED
  BY <1>3, <1>4

---------------------------------------------------------------------------
(* Runes and places.                                                       *)

IsText == text \in Seq(Rune \cup {Invalid, NUL})
size == Len(text)

\* The sets of runes that the code tells apart do not hold what is no rune.
LEMMA RunesAre ==
  /\ None \notin Rune /\ Invalid \notin Rune /\ NUL \notin Rune /\ Invalid # NUL
  /\ Invalid # None /\ NUL # None
  /\ Space \subseteq Rune /\ Digit \subseteq Rune /\ Identifier \subseteq Rune
  /\ Valid_Operator_Chars \subseteq Rune /\ Notes_Symbols \subseteq Rune
  /\ Accidentals \subseteq Rune /\ {"newline", "-", "#", "!", "."} \subseteq Rune
BY DEF None, Rune, Invalid, NUL, Space, Digit, Identifier, Valid_Operator_Chars, Notes_Symbols,
       Accidentals, Identifier_First, Letter, Brackets, Macron, Integral

\* What is peeked at is a rune of the text.
LEMMA PeekIs ==
  ASSUME IsText, NEW c \in Cursor, NEW test \in SUBSET Rune
  PROVE  /\ Peek(c) \in test <=> RuneAt(c.at) \in test
         /\ RuneAt(c.at) \in test =>
              c.at \in 1 .. size /\ text[c.at] # Invalid /\ text[c.at] = RuneAt(c.at)
BY RunesAre DEF Peek, RuneAt, IsText, size

Breaks == {"newline", "return"}

\* The last line break before a rune.
LEMMA LineStartIs ==
  ASSUME NEW i \in Nat \ {0}
  PROVE  /\ LineStart(i) \in 0 .. i - 1
         /\ LineStart(i) = 0 \/ text[LineStart(i)] \in Breaks
         /\ \A j \in LineStart(i) + 1 .. i - 1 : text[j] \notin Breaks
<1> DEFINE S == {k \in 0 .. i - 1 : k = 0 \/ text[k] \in Breaks}
           Is(k) == /\ k = 0 \/ text[k] \in Breaks
                    /\ \A j \in k + 1 .. i - 1 : text[j] \notin Breaks
<1>1. S \in SUBSET (0 .. i - 1) /\ S # {} /\ i - 1 \in Nat
  <2>1. 0 \in S
    OBVIOUS
  <2> QED
    BY <2>1
<1>2. PICK k \in S : \A j \in S : k >= j
  <2> HIDE DEF S
  <2> QED
    BY <1>1, Largest
<1>3. k \in 0 .. i - 1 /\ (k = 0 \/ text[k] \in Breaks)
  OBVIOUS
<1>4. ASSUME NEW j \in k + 1 .. i - 1
      PROVE  text[j] \notin Breaks
  <2>1. j \in 0 .. i - 1 /\ ~(k >= j)
    BY <1>3
  <2>2. j \notin S
    BY <1>2, <2>1
  <2> QED
    BY <2>1, <2>2
<1>5. \E l \in 0 .. i - 1 : Is(l)
  BY <1>3, <1>4
<1>6. LineStart(i) = CHOOSE l \in 0 .. i - 1 : Is(l)
  BY DEF LineStart, Breaks
<1> HIDE DEF Is
<1>7. LineStart(i) \in 0 .. i - 1 /\ Is(LineStart(i))
  BY <1>5, <1>6
<1> QED
  BY <1>7 DEF Is

\* There is but one such place.
LEMMA LineStartOf ==
  ASSUME NEW i \in Nat \ {0}, NEW k \in 0 .. i - 1, k = 0 \/ text[k] \in Breaks,
         \A j \in k + 1 .. i - 1 : text[j] \notin Breaks
  PROVE  LineStart(i) = k
<1> DEFINE l == LineStart(i)
<1>1. /\ l \in 0 .. i - 1
      /\ l = 0 \/ text[l] \in Breaks
      /\ \A j \in l + 1 .. i - 1 : text[j] \notin Breaks
  BY LineStartIs
<1> HIDE DEF l
<1>2. CASE l < k
  <2>1. k \in l + 1 .. i - 1 /\ k # 0
    BY <1>1, <1>2
  <2> QED
    BY <1>1, <2>1
<1>3. CASE k < l
  <2>1. l \in k + 1 .. i - 1 /\ l # 0
    BY <1>1, <1>3
  <2> QED
    BY <1>1, <2>1
<1>4. CASE l = k
  BY <1>4 DEF l
<1> QED
  BY <1>1, <1>2, <1>3, <1>4

\* The lines of a text, up to one rune more.
LEMMA LinesAre ==
  ASSUME NEW i \in Nat \ {0}
  PROVE  /\ IsFiniteSet(Lines(i)) /\ Cardinality(Lines(i)) \in Nat
         /\ Cardinality(Lines(i + 1)) =
              IF text[i] = "newline" THEN Cardinality(Lines(i)) + 1 ELSE Cardinality(Lines(i))
         /\ Cardinality(Lines(1)) = 0
<1>1. IsFiniteSet(1 .. i - 1)
  BY FS_Interval
<1>2. Lines(i) \subseteq 1 .. i - 1
  BY DEF Lines
<1>3. IsFiniteSet(Lines(i)) /\ Cardinality(Lines(i)) \in Nat
  BY <1>1, <1>2, FS_Subset, FS_CardinalityType
<1>4. CASE text[i] = "newline"
  <2>1. Lines(i + 1) = Lines(i) \cup {i} /\ i \notin Lines(i)
    BY <1>4 DEF Lines
  <2> QED
    <3>1. Cardinality(Lines(i + 1)) = Cardinality(Lines(i)) + 1
      BY <1>3, <2>1, FS_AddElement
    <3>2. Lines(1) = {}
      BY DEF Lines
    <3> QED
      BY <1>3, <1>4, <3>1, <3>2, FS_EmptySet
<1>5. CASE text[i] # "newline"
  <2>1. Lines(i + 1) = Lines(i)
    BY <1>5 DEF Lines
  <2>2. Lines(1) = {}
    BY DEF Lines
  <2> QED
    BY <1>3, <1>5, <2>1, <2>2, FS_EmptySet
<1> QED
  BY <1>4, <1>5

\* Location::advance goes from the place of a rune to that of the next.
LEMMA PlaceIs ==
  /\ Place(1) = Location(1, 1)
  /\ \A i \in Nat \ {0} : Place(i) \in [line : Nat, column : Nat]
  /\ \A i \in Nat \ {0} : Place(i + 1) = Advance(Place(i), text[i])
<1>1. ASSUME NEW i \in Nat \ {0}
      PROVE  Place(i) \in [line : Nat, column : Nat]
  <2>1. 1 + Cardinality(Lines(i)) \in Nat /\ i - LineStart(i) \in Nat
    BY LinesAre, LineStartIs
  <2> QED
    BY <2>1 DEF Place, Location
<1>2. Place(1) = Location(1, 1)
  <2>1. LineStart(1) = 0
    BY LineStartOf
  <2>2. Cardinality(Lines(1)) = 0
    BY LinesAre
  <2> QED
    BY <2>1, <2>2 DEF Place
<1>3. ASSUME NEW i \in Nat \ {0}
      PROVE  Place(i + 1) = Advance(Place(i), text[i])
  <2> DEFINE k == LineStart(i)
             n == Cardinality(Lines(i))
  <2>1. /\ k \in 0 .. i - 1
        /\ k = 0 \/ text[k] \in Breaks
        /\ \A j \in k + 1 .. i - 1 : text[j] \notin Breaks
    BY LineStartIs
  <2>2. /\ n \in Nat
        /\ Cardinality(Lines(i + 1)) = IF text[i] = "newline" THEN n + 1 ELSE n
    BY LinesAre
  <2>3. LineStart(i + 1) = IF text[i] \in Breaks THEN i ELSE k
    <3> HIDE DEF k
    <3>1. CASE text[i] \in Breaks
      <4>1. i + 1 \in Nat \ {0} /\ i \in 0 .. (i + 1) - 1
        OBVIOUS
      <4>2. \A j \in i + 1 .. (i + 1) - 1 : text[j] \notin Breaks
        OBVIOUS
      <4> QED
        BY <3>1, <4>1, <4>2, LineStartOf
    <3>2. CASE text[i] \notin Breaks
      <4>1. i + 1 \in Nat \ {0} /\ k \in 0 .. (i + 1) - 1
        BY <2>1
      <4>2. ASSUME NEW j \in k + 1 .. (i + 1) - 1
            PROVE  text[j] \notin Breaks
        <5>1. j \in k + 1 .. i - 1 \/ j = i
          BY <2>1
        <5> QED
          BY <2>1, <3>2, <5>1
      <4> QED
        BY <2>1, <3>2, <4>1, <4>2, LineStartOf
    <3> QED
      BY <3>1, <3>2
  <2>4. Place(i) = Location(1 + n, i - k)
    BY DEF Place
  <2>5. Place(i + 1) = Location(1 + (IF text[i] = "newline" THEN n + 1 ELSE n),
                                (i + 1) - (IF text[i] \in Breaks THEN i ELSE k))
    BY <2>2, <2>3 DEF Place
  <2> HIDE DEF k, n
  <2>6. (i + 1) - i = 1 /\ (i + 1) - k = (i - k) + 1 /\ 1 + (n + 1) = (1 + n) + 1
    BY <2>1, <2>2
  <2> QED
    BY <2>4, <2>5, <2>6 DEF Advance, Location, Breaks
<1> QED
  BY <1>1, <1>2, <1>3

---------------------------------------------------------------------------
(* Cursors.                                                                *)

\* A cursor that is located where it is.
Placed(c) == c \in Cursor /\ c.at \in 1 .. size + 1 /\ c.location = Place(c.at)

CanConsume(c) == c.at \in 1 .. size /\ text[c.at] # Invalid

\* The cursor at the beginning of a text knows its place.
LEMMA BeginIsPlaced ==
  ASSUME IsText
  PROVE  Placed(Begin)
BY PlaceIs DEF Placed, Begin, Cursor, Location, IsText, size

\* consume goes one rune on, and advances the place.
LEMMA ConsumeIs ==
  ASSUME IsText, NEW c \in Cursor
  PROVE  /\ Consume[c] \in Cursor
         /\ Placed(c) => Placed(Consume[c])
         /\ CanConsume(c) => /\ Consume[c].at = c.at + 1 /\ Consume[c].rune = 1
                             /\ Consume[c].before = c.location
         /\ ~CanConsume(c) => Consume[c].at = c.at
<1> DEFINE d == Consume[c]
<1>1. d = IF CanConsume(c)
          THEN [at |-> c.at + 1, location |-> Advance(c.location, text[c.at]),
                before |-> c.location, rune |-> 1]
          ELSE [c EXCEPT !.before = c.location]
  BY DEF Consume, CanConsume, IsText, size
<1>2. size \in Nat
  BY DEF IsText, size
<1>3. Advance(c.location, text[c.at]) \in [line : Nat, column : Nat]
  BY DEF Advance, Location, Cursor
<1>4. d \in Cursor
  BY <1>1, <1>3 DEF Cursor
<1> HIDE DEF d
<1>5. CASE CanConsume(c)
  <2>1. d.at = c.at + 1 /\ d.rune = 1 /\ d.before = c.location
        /\ d.location = Advance(c.location, text[c.at])
    BY <1>1, <1>5
  <2>2. c.at \in Nat \ {0} /\ c.at + 1 \in 1 .. size + 1
    BY <1>2, <1>5 DEF CanConsume
  <2>3. Placed(c) => d.location = Place(d.at)
    BY <2>1, <2>2, PlaceIs DEF Placed
  <2> QED
    BY <1>4, <1>5, <2>1, <2>2, <2>3 DEF Placed, d
<1>6. CASE ~CanConsume(c)
  <2>1. d.at = c.at /\ d.location = c.location
    BY <1>1, <1>6 DEF Cursor
  <2> QED
    BY <1>4, <1>6, <2>1 DEF Placed, d
<1> QED
  BY <1>5, <1>6

\* What was just consumed is given back.
LEMMA RewindIs ==
  ASSUME IsText, NEW c \in Cursor, Placed(c), CanConsume(c)
  PROVE  Placed(Rewind(Consume[c])) /\ Rewind(Consume[c]).at = c.at
<1> DEFINE d == Consume[c]
           e == Rewind(d)
<1>1. d \in Cursor /\ d.at = c.at + 1 /\ d.rune = 1 /\ d.before = c.location
  BY ConsumeIs
<1> HIDE DEF d
<1>2. c.at \in Nat /\ (c.at + 1) - 1 = c.at
  BY DEF Cursor
<1>3. e.at = c.at /\ e.location = c.location /\ e.rune = 0 /\ e.before = c.location
  BY <1>1, <1>2 DEF Rewind, Cursor
<1>4. e \in Cursor
  <2>1. e = [at |-> c.at, location |-> c.location, rune |-> 0, before |-> c.location]
    <3>1. PICK l, k : d = [at |-> c.at + 1, location |-> l, rune |-> k, before |-> c.location]
      BY <1>1 DEF Cursor
    <3>2. d.at - d.rune = c.at /\ d.before = c.location
      BY <1>1, <1>2
    <3>3. e = [d EXCEPT !.at = c.at, !.location = c.location, !.rune = 0]
      BY <3>2 DEF Rewind
    <3> HIDE DEF e
    <3> QED
      BY <3>1, <3>3
  <2>2. c.at \in Nat /\ c.location \in [line : Nat, column : Nat] /\ 0 \in 0 .. 1
    BY DEF Cursor
  <2> HIDE DEF e
  <2> QED
    BY <2>1, <2>2 DEF Cursor
<1> QED
  BY <1>3, <1>4 DEF Placed, d

\* Consume_If.
LEMMA IfIs ==
  ASSUME IsText, NEW c \in Cursor, Placed(c), NEW test \in SUBSET Rune
  PROVE  /\ Placed(Consume_If(c, test))
         /\ Consume_If(c, test).at = IF RuneAt(c.at) \in test THEN c.at + 1 ELSE c.at
<1>1. CASE RuneAt(c.at) \in test
  <2>1. Consume_If(c, test) = Consume[c] /\ CanConsume(c)
    BY <1>1, PeekIs DEF Consume_If, CanConsume
  <2> QED
    BY <1>1, <2>1, ConsumeIs
<1>2. CASE RuneAt(c.at) \notin test
  <2>1. Consume_If(c, test) = c
    BY <1>2, PeekIs DEF Consume_If
  <2> QED
    BY <1>2, <2>1
<1> QED
  BY <1>1, <1>2

\* consume_if of two runes.
LEMMA TwoIs ==
  ASSUME IsText, NEW c \in Cursor, Placed(c),
         NEW first \in SUBSET Rune, NEW second \in SUBSET Rune
  PROVE  /\ Placed(Consume_Two(c, first, second))
         /\ Consume_Two(c, first, second).at =
              IF RuneAt(c.at) \in first /\ RuneAt(c.at + 1) \in second THEN c.at + 2 ELSE c.at
<1> DEFINE d == Consume[c]
           e == Consume_Two(c, first, second)
<1>0. d \in Cursor /\ c.at \in Nat
  BY ConsumeIs DEF Cursor
<1>1. CASE RuneAt(c.at) \notin first
  <2>1. Peek(c) \notin first
    BY <1>1, PeekIs
  <2>2. e = c
    BY <2>1 DEF Consume_Two
  <2> QED
    BY <1>1, <2>2
<1>2. CASE RuneAt(c.at) \in first
  <2>1. Peek(c) \in first /\ CanConsume(c)
    BY <1>2, PeekIs DEF CanConsume
  <2>2. d.at = c.at + 1 /\ Placed(d)
    BY <2>1, ConsumeIs
  <2>3. CASE RuneAt(c.at + 1) \in second
    <3>1. Peek(d) \in second /\ CanConsume(d)
      BY <1>0, <2>2, <2>3, PeekIs DEF CanConsume
    <3>2. e = Consume[d]
      BY <2>1, <3>1 DEF Consume_Two
    <3>3. Placed(Consume[d]) /\ Consume[d].at = d.at + 1
      BY <1>0, <2>2, <3>1, ConsumeIs
    <3> QED
      BY <1>0, <1>2, <2>2, <2>3, <3>2, <3>3
  <2>4. CASE RuneAt(c.at + 1) \notin second
    <3>1. Peek(d) \notin second
      BY <1>0, <2>2, <2>4, PeekIs
    <3>2. e = Rewind(d)
      BY <2>1, <3>1 DEF Consume_Two
    <3>3. Placed(Rewind(d)) /\ Rewind(d).at = c.at
      BY <2>1, RewindIs
    <3> QED
      BY <2>4, <3>2, <3>3
  <2> QED
    BY <2>3, <2>4
<1> QED
  BY <1>1, <1>2

\* A loop that consumes has a solution: it comes to the end of the text.
LEMMA LoopIsDefined ==
  ASSUME IsText, NEW test \in SUBSET Rune
  PROVE  \E g : g = [d \in Cursor |-> IF Peek(d) \in test THEN g[Consume[d]] ELSE d]
<1> DEFINE Then(d, g) == IF Peek(d) \in test THEN g[Consume[d]] ELSE d
           From(n) == {d \in Cursor : size + 1 <= d.at + n}
           Solves(g, n) == g \in [Cursor -> Cursor] /\ \A d \in From(n) : g[d] = Then(d, g)
           Unsolved == {n \in Nat : ~\E g : Solves(g, n)}
<1>0. size \in Nat
  BY DEF IsText, size
<1>1. ASSUME NEW d \in Cursor, Peek(d) \in test
      PROVE  Consume[d] \in Cursor /\ Consume[d].at = d.at + 1 /\ d.at \in 1 .. size
  BY <1>1, PeekIs, ConsumeIs DEF CanConsume
<1>2. ASSUME Unsolved # {}
      PROVE  FALSE
  <2>0. Unsolved \in SUBSET Nat
    OBVIOUS
  <2>1. PICK n \in Unsolved : \A k \in Unsolved : n <= k
    <3> HIDE DEF Unsolved
    <3> QED
      BY <1>2, <2>0, Smallest
  <2>2. n \in Nat /\ ~\E g : Solves(g, n)
    BY <2>1
  <2>3. CASE n = 0
    <3> DEFINE g == [d \in Cursor |-> d]
    <3>1. ASSUME NEW d \in From(n)
          PROVE  g[d] = Then(d, g)
      <4>1. d \in Cursor /\ size + 1 <= d.at
        BY <2>3 DEF Cursor
      <4>2. Peek(d) \notin test
        BY <1>0, <1>1, <4>1 DEF Cursor
      <4> QED
        BY <4>1, <4>2
    <3>2. Solves(g, n)
      BY <3>1
    <3> QED
      BY <2>2, <3>2
  <2>4. CASE n # 0
    <3>1. n - 1 \in Nat /\ ~(n <= n - 1)
      BY <2>2, <2>4
    <3>2. n - 1 \notin Unsolved
      <4> HIDE DEF Unsolved
      <4> QED
        BY <2>1, <3>1
    <3>3. PICK h : Solves(h, n - 1)
      BY <3>1, <3>2
    <3> DEFINE g == [d \in Cursor |-> Then(d, h)]
    <3>4. ASSUME NEW d \in From(n)
          PROVE  g[d] = Then(d, g)
      <4>0. d \in Cursor /\ size + 1 <= d.at + n /\ g[d] = Then(d, h)
        OBVIOUS
      <4>1. CASE Peek(d) \in test
        <5> DEFINE e == Consume[d]
        <5>1. e \in Cursor /\ e.at = d.at + 1 /\ d.at \in Nat
          BY <1>1, <4>0, <4>1
        <5>2. e \in From(n - 1)
          BY <1>0, <2>2, <4>0, <5>1
        <5> HIDE DEF e
        <5>3. h[e] = Then(e, h)
          BY <3>3, <5>2
        <5>4. g[e] = Then(e, h)
          BY <5>1
        <5>5. g[e] = h[e]
          BY <5>3, <5>4
        <5> HIDE DEF g
        <5> QED
          BY <4>0, <4>1, <5>5 DEF e
      <4>2. CASE Peek(d) \notin test
        BY <4>0, <4>2
      <4> QED
        BY <4>1, <4>2
    <3>5. Solves(g, n)
      <4>1. ASSUME NEW d \in Cursor
            PROVE  Then(d, h) \in Cursor
        BY <1>1, <3>3
      <4>2. g \in [Cursor -> Cursor]
        <5> HIDE DEF Then
        <5> QED
          BY <4>1
      <4> HIDE DEF g, Then, From
      <4> QED
        BY <3>4, <4>2
    <3> QED
      BY <2>2, <3>5
  <2> QED
    BY <2>3, <2>4
<1>3. size + 1 \in Nat /\ size + 1 \notin Unsolved
  <2>1. size + 1 \in Nat
    BY <1>0
  <2> HIDE DEF Unsolved
  <2> QED
    BY <1>2, <2>1
<1>4. PICK g : Solves(g, size + 1)
  BY <1>3
<1>5. \A d \in Cursor : d \in From(size + 1)
  BY <1>0 DEF Cursor
<1>6. g \in [Cursor -> Cursor] /\ \A d \in Cursor : g[d] = Then(d, g)
  BY <1>4, <1>5
<1>7. g = [d \in Cursor |-> Then(d, g)]
  <2> HIDE DEF Then
  <2> QED
    BY <1>6
<1> QED
  BY <1>7

\* Consume_While.
Scanned(c, test, e) ==
  /\ Placed(e) /\ c.at <= e.at
  /\ All(c.at, e.at - 1, test)
  /\ RuneAt(e.at) \notin test

\* A loop consumes all runes of a kind, and stops at the first other one.
LEMMA WhileIs ==
  ASSUME IsText, NEW c \in Cursor, Placed(c), NEW test \in SUBSET Rune
  PROVE  Scanned(c, test, Consume_While(c, test))
<1> DEFINE loop[d \in Cursor] == IF Peek(d) \in test THEN loop[Consume[d]] ELSE d
           Wrong == {n \in Nat : \E d \in Cursor : /\ Placed(d) /\ size + 1 = d.at + n
                                                   /\ ~Scanned(d, test, loop[d])}
<1>1. loop = [d \in Cursor |-> IF Peek(d) \in test THEN loop[Consume[d]] ELSE d]
  BY LoopIsDefined
<1>2. Consume_While(c, test) = loop[c]
  BY DEF Consume_While
<1> HIDE DEF loop
<1>3. \A d \in Cursor : loop[d] = IF Peek(d) \in test THEN loop[Consume[d]] ELSE d
  BY <1>1
<1>4. ASSUME Wrong # {}
      PROVE  FALSE
  <2>0. Wrong \in SUBSET Nat
    OBVIOUS
  <2>1. PICK n \in Wrong : \A k \in Wrong : n <= k
    <3> HIDE DEF Wrong
    <3> QED
      BY <1>4, <2>0, Smallest
  <2>2. PICK d \in Cursor : Placed(d) /\ size + 1 = d.at + n /\ ~Scanned(d, test, loop[d])
    BY <2>1
  <2>3. d.at \in Nat /\ n \in Nat /\ size \in Nat
    BY DEF Cursor, IsText, size
  <2>4. CASE RuneAt(d.at) \notin test
    <3>1. loop[d] = d
      BY <1>3, <2>4, PeekIs
    <3> QED
      BY <2>2, <2>3, <2>4, <3>1 DEF Scanned, All
  <2>5. CASE RuneAt(d.at) \in test
    <3> DEFINE e == Consume[d]
               f == loop[e]
    <3>1. Peek(d) \in test /\ CanConsume(d) /\ text[d.at] \in test
      BY <2>5, PeekIs DEF CanConsume
    <3>2. e \in Cursor /\ Placed(e) /\ e.at = d.at + 1
      BY <2>2, <3>1, ConsumeIs
    <3>3. loop[d] = f
      BY <1>3, <3>1
    <3> HIDE DEF e, f
    <3>4. n - 1 \in Nat /\ size + 1 = e.at + (n - 1) /\ ~(n <= n - 1)
      BY <2>2, <2>3, <3>2 DEF Placed
    <3>5. n - 1 \notin Wrong
      <4> HIDE DEF Wrong
      <4> QED
        BY <2>1, <3>4
    <3>6. Scanned(e, test, f)
      BY <3>2, <3>4, <3>5 DEF f
    <3>7. Scanned(d, test, f)
      <4>1. f.at \in Nat /\ d.at <= f.at
        BY <2>3, <3>2, <3>6 DEF Scanned, Placed
      <4>2. All(d.at, f.at - 1, test)
        BY <2>3, <3>1, <3>2, <3>6, <4>1 DEF Scanned, All
      <4> QED
        BY <3>6, <4>1, <4>2 DEF Scanned
    <3> QED
      BY <2>2, <3>3, <3>7
  <2> QED
    BY <2>4, <2>5
<1>5. PICK n \in Nat : size + 1 = c.at + n
  <2>1. size + 1 - c.at \in Nat /\ size + 1 = c.at + (size + 1 - c.at)
    BY DEF Placed, IsText, size
  <2> QED
    BY <2>1
<1> QED
  BY <1>2, <1>4, <1>5

---------------------------------------------------------------------------
(* Blanks.                                                                 *)

\* A text is blank if it is nothing, or begins with a piece and is blank behind it.
LEMMA BlankIs ==
  ASSUME NEW i \in Nat, NEW j \in Nat
  PROVE  IsBlank(i, j) <=> i > j \/ \E n \in i .. j : IsPiece(i, n) /\ IsBlank(n + 1, j)
<1> DEFINE Leads(S) == \A k \in S : k > j \/ \E n \in k .. j : IsPiece(k, n) /\ n + 1 \in S
           Cut(k) == \E S \in SUBSET Nat : k \in S /\ Leads(S)
           blank[k \in Nat] == k > j \/ \E n \in k .. j : IsPiece(k, n) /\ blank[n + 1]
           g == [k \in Nat |-> Cut(k)]
<1>1. ASSUME NEW k \in Nat
      PROVE  Cut(k) <=> k > j \/ \E n \in k .. j : IsPiece(k, n) /\ Cut(n + 1)
  <2>1. ASSUME Cut(k), ~(k > j)
        PROVE  \E n \in k .. j : IsPiece(k, n) /\ Cut(n + 1)
    <3>1. PICK S \in SUBSET Nat : k \in S /\ Leads(S)
      BY <2>1
    <3>2. PICK n \in k .. j : IsPiece(k, n) /\ n + 1 \in S
      BY <2>1, <3>1
    <3>3. Cut(n + 1)
      BY <3>1, <3>2
    <3> QED
      BY <3>2, <3>3
  <2>2. ASSUME k > j
        PROVE  Cut(k)
    <3>1. {k} \in SUBSET Nat /\ k \in {k} /\ Leads({k})
      BY <2>2
    <3> HIDE DEF Leads
    <3> QED
      BY <3>1
  <2>3. ASSUME NEW n \in k .. j, IsPiece(k, n), Cut(n + 1)
        PROVE  Cut(k)
    <3>1. PICK S \in SUBSET Nat : n + 1 \in S /\ Leads(S)
      BY <2>3
    <3> DEFINE T == S \cup {k}
    <3>2. Leads(T)
      BY <2>3, <3>1
    <3>3. T \in SUBSET Nat /\ k \in T
      OBVIOUS
    <3> HIDE DEF T, Leads
    <3> QED
      BY <3>2, <3>3
  <2> HIDE DEF Cut
  <2> QED
    BY <2>1, <2>2, <2>3
<1> HIDE DEF Cut
<1>2. \A k \in Nat : g[k] = (k > j \/ \E n \in k .. j : IsPiece(k, n) /\ g[n + 1])
  <2> SUFFICES ASSUME NEW k \in Nat
               PROVE  Cut(k) = (k > j \/ \E n \in k .. j : IsPiece(k, n) /\ g[n + 1])
    OBVIOUS
  <2>1. \A n \in k .. j : g[n + 1] = Cut(n + 1)
    OBVIOUS
  <2>2. Cut(k) \in BOOLEAN
    BY DEF Cut
  <2> HIDE DEF g
  <2> QED
    BY <1>1, <2>1, <2>2
<1>3. g = [k \in Nat |-> k > j \/ \E n \in k .. j : IsPiece(k, n) /\ g[n + 1]]
  <2>1. g = [k \in Nat |-> g[k]]
    OBVIOUS
  <2> HIDE DEF g
  <2> QED
    BY <1>2, <2>1
<1> HIDE DEF g
<1>4. blank = [k \in Nat |-> k > j \/ \E n \in k .. j : IsPiece(k, n) /\ blank[n + 1]]
  BY <1>3
<1>5. \A k \in Nat : IsBlank(k, j) = blank[k]
  BY DEF IsBlank
<1> HIDE DEF blank
<1>6. blank[i] <=> i > j \/ \E n \in i .. j : IsPiece(i, n) /\ blank[n + 1]
  BY <1>4
<1>7. \A n \in i .. j : n + 1 \in Nat
  OBVIOUS
<1> QED
  BY <1>5, <1>6, <1>7

\* A piece more.
LEMMA PieceBehind ==
  ASSUME NEW i \in Nat, NEW j \in Nat, NEW n \in Nat, i <= j + 1, j + 1 <= n,
         IsBlank(i, j), IsPiece(j + 1, n)
  PROVE  IsBlank(i, n)
<1> DEFINE Wrong == {m \in Nat : \E k \in Nat : k + m = j + 1 /\ IsBlank(k, j) /\ ~IsBlank(k, n)}
<1>1. ASSUME Wrong # {}
      PROVE  FALSE
  <2>0. Wrong \in SUBSET Nat
    OBVIOUS
  <2>1. PICK m \in Wrong : \A l \in Wrong : m <= l
    <3> HIDE DEF Wrong
    <3> QED
      BY <1>1, <2>0, Smallest
  <2>2. PICK k \in Nat : m \in Nat /\ k + m = j + 1 /\ IsBlank(k, j) /\ ~IsBlank(k, n)
    BY <2>1
  <2>3. CASE k > j
    <3>1. k = j + 1 /\ k \in k .. n /\ n + 1 \in Nat /\ n + 1 > n
      BY <2>2, <2>3
    <3>2. IsBlank(n + 1, n)
      BY <3>1, BlankIs
    <3> QED
      BY <2>2, <3>1, <3>2, BlankIs
  <2>4. CASE ~(k > j)
    <3>1. PICK e \in k .. j : IsPiece(k, e) /\ IsBlank(e + 1, j)
      BY <2>2, <2>4, BlankIs
    <3>2. e + 1 \in Nat /\ e \in k .. n /\ j - e \in Nat /\ (e + 1) + (j - e) = j + 1 /\ ~(m <= j - e)
      BY <2>2, <3>1
    <3>3. j - e \notin Wrong
      <4> HIDE DEF Wrong
      <4> QED
        BY <2>1, <3>2
    <3>4. IsBlank(e + 1, n)
      BY <3>1, <3>2, <3>3
    <3> QED
      BY <2>2, <3>1, <3>2, <3>4, BlankIs
  <2> QED
    BY <2>3, <2>4
<1>2. (j + 1) - i \in Nat /\ i + ((j + 1) - i) = j + 1
  OBVIOUS
<1> QED
  BY <1>1, <1>2

\* White space more.
LEMMA SpaceBehind ==
  ASSUME NEW i \in Nat, NEW j \in Nat, NEW n \in Nat, i <= j + 1, j <= n,
         IsBlank(i, j), All(j + 1, n, Space)
  PROVE  IsBlank(i, n)
<1> DEFINE Wrong == {m \in Nat : j <= m /\ m <= n /\ ~IsBlank(i, m)}
<1>1. ASSUME Wrong # {}
      PROVE  FALSE
  <2>0. Wrong \in SUBSET Nat
    OBVIOUS
  <2>1. PICK m \in Wrong : \A l \in Wrong : m <= l
    <3> HIDE DEF Wrong
    <3> QED
      BY <1>1, <2>0, Smallest
  <2>2. m \in Nat /\ j <= m /\ m <= n /\ ~IsBlank(i, m)
    BY <2>1
  <2>3. m # j /\ m - 1 \in Nat /\ j <= m - 1 /\ ~(m <= m - 1) /\ m - 1 <= n /\ (m - 1) + 1 = m
    BY <2>2
  <2>4. m - 1 \notin Wrong
    <3> HIDE DEF Wrong
    <3> QED
      BY <2>1, <2>3
  <2>5. IsBlank(i, m - 1)
    BY <2>3, <2>4
  <2>6. IsPiece(m, m)
    <3>1. text[m] \in Space
      BY <2>2, <2>3 DEF All
    <3> QED
      BY <3>1 DEF IsPiece
  <2>7. i <= (m - 1) + 1 /\ (m - 1) + 1 <= m
    BY <2>2, <2>3
  <2> QED
    BY <2>2, <2>3, <2>5, <2>6, <2>7, PieceBehind
<1> QED
  BY <1>1

\* Nothing is blank.
LEMMA NothingIsBlank ==
  ASSUME NEW i \in Nat, NEW j \in Nat, i > j
  PROVE  IsBlank(i, j)
BY BlankIs

\* Where a token begins there is no piece.
LEMMA NoPiece ==
  ASSUME IsText, NEW i \in 1 .. size,
         text[i] \notin Space,
         ~(text[i] = "#" /\ RuneAt(i + 1) = "!"), ~(text[i] = "-" /\ RuneAt(i + 1) = "-"),
         NEW j \in 1 .. size
  PROVE  ~IsPiece(i, j)
<1>1. ASSUME IsLineComment(i, j)
      PROVE  FALSE
  <2>1. j > i /\ i + 1 \in 1 .. size /\ RuneAt(i + 1) = text[i + 1]
    BY <1>1 DEF IsLineComment, RuneAt, IsText, size
  <2>2. (text[i] = "#" /\ text[i + 1] = "!") \/ All(i, i + 1, {"-"})
    BY <1>1 DEF IsLineComment
  <2>3. CASE All(i, i + 1, {"-"})
    <3>1. text[i] = "-" /\ text[i + 1] = "-"
      BY <2>3 DEF All
    <3> QED
      BY <2>1, <3>1
  <2> QED
    BY <2>1, <2>2, <2>3
<1>2. ASSUME IsLongComment(i, j)
      PROVE  FALSE
  <2>1. PICK open \in i + 2 .. j : All(i, open, {"-"})
    BY <1>2 DEF IsLongComment
  <2>2. i \in i .. open /\ i + 1 \in i .. open /\ i + 1 <= j
    BY <2>1
  <2>3. text[i] = "-" /\ text[i + 1] = "-"
    BY <2>1, <2>2 DEF All
  <2>4. i + 1 \in DOMAIN text
    BY <2>2 DEF IsText, size
  <2> QED
    BY <2>3, <2>4 DEF RuneAt
<1> QED
  BY <1>1, <1>2 DEF IsPiece

---------------------------------------------------------------------------
(* Tokens.                                                                 *)

\* A point is part of a number if a digit follows.
LEMMA FractionIs ==
  ASSUME IsText, NEW c \in Cursor, Placed(c)
  PROVE  /\ Placed(Fraction(c)) /\ c.at <= Fraction(c).at
         /\ \/ /\ Fraction(c).at = c.at
               /\ RuneAt(c.at) = "." => RuneAt(c.at + 1) \notin Digit
            \/ /\ c.at + 2 <= Fraction(c).at /\ text[c.at] = "."
               /\ All(c.at + 1, Fraction(c).at - 1, Digit)
               /\ RuneAt(Fraction(c).at) \notin Digit
<1> DEFINE point == Consume[c]
           digits == Consume_While(point, Digit)
           e == Fraction(c)
<1>0. c.at \in Nat /\ {"."} \in SUBSET Rune /\ Digit \in SUBSET Rune
  BY RunesAre DEF Cursor
<1>1. Peek(c) \in {"."} <=> RuneAt(c.at) \in {"."}
  BY <1>0, PeekIs
<1>2. CASE RuneAt(c.at) # "."
  <2>1. e = c
    BY <1>1, <1>2 DEF Fraction
  <2> QED
    BY <1>0, <1>2, <2>1
<1>3. CASE RuneAt(c.at) = "."
  <2>1. CanConsume(c) /\ text[c.at] = "."
    BY <1>0, <1>3, PeekIs DEF CanConsume
  <2>2. point \in Cursor /\ Placed(point) /\ point.at = c.at + 1
    BY <2>1, ConsumeIs
  <2>3. Scanned(point, Digit, digits)
    BY <1>0, <2>2, WhileIs
  <2>4. Placed(Rewind(point)) /\ Rewind(point).at = c.at
    BY <2>1, RewindIs
  <2>5. e = IF digits.at = point.at THEN Rewind(point) ELSE digits
    BY <1>1, <1>3 DEF Fraction
  <2> HIDE DEF point, digits, e
  <2>6. digits.at \in Nat
    BY <2>3 DEF Scanned, Placed, Cursor
  <2>7. CASE digits.at = point.at
    BY <1>0, <2>2, <2>3, <2>4, <2>5, <2>7 DEF Scanned, e
  <2>8. CASE digits.at # point.at
    BY <1>0, <2>1, <2>2, <2>3, <2>5, <2>6, <2>8 DEF Scanned, e
  <2> QED
    BY <2>7, <2>8
<1> QED
  BY <1>2, <1>3

\* What Token gives: a token behind where it started, that is whole, or an error.
Types == {"Numeric", "Chord", "Symbol", "Keyword", "Operator", "Parameter_Separator",
          "Open_Block", "Close_Block", "Open_Index", "Close_Index", "Expression_Separator"}

Made(start, t) ==
  [type |-> t.type, from |-> start.at, to |-> t.cursor.at - 1, location |-> start.location]

Lexes(start, t) ==
  /\ Placed(t.cursor)
  /\ t.type = "Error" \/ (t.type \in Types /\ start.at < t.cursor.at /\ IsWhole(Made(start, t)))

\* Digits with a sign or without, and what else belongs to a number.
LEMMA NumericIs ==
  ASSUME IsText, NEW start \in Cursor, Placed(start), NEW number \in Cursor, Placed(number),
         RuneAt(start.at) # "|" =>
           \/ number.at = start.at + 1 /\ text[start.at] \in Digit
           \/ number.at = start.at + 2 /\ text[start.at] = "-" /\ text[start.at + 1] \in Digit,
         start.at < number.at
  PROVE  Lexes(start, Numeric(number))
<1> DEFINE c == Consume_While(number, Digit)
           e == Fraction(c)
           t == Numeric(number)
           i == start.at
<1>0. i \in Nat \ {0} /\ number.at \in Nat /\ Digit \in SUBSET Rune /\ "-" \notin Digit
  BY RunesAre DEF Cursor, Digit, Placed
<1>1. Scanned(number, Digit, c)
  BY <1>0, WhileIs
<1>2. c \in Cursor /\ Placed(c) /\ c.at \in Nat
  BY <1>1 DEF Scanned, Placed, Cursor
<1>3. /\ Placed(e) /\ c.at <= e.at
      /\ \/ /\ e.at = c.at
            /\ RuneAt(c.at) = "." => RuneAt(c.at + 1) \notin Digit
         \/ /\ c.at + 2 <= e.at /\ text[c.at] = "."
            /\ All(c.at + 1, e.at - 1, Digit)
            /\ RuneAt(e.at) \notin Digit
  BY <1>2, FractionIs
<1>4. t = [type |-> "Numeric", cursor |-> e]
  BY DEF Numeric, Lexed
<1> HIDE DEF c, e, t
<1>5. e.at \in Nat
  BY <1>3 DEF Placed, Cursor
<1>6. number.at <= c.at /\ All(number.at, c.at - 1, Digit) /\ RuneAt(c.at) \notin Digit
  BY <1>1 DEF Scanned
<1>7. ASSUME text[i] # "|"
      PROVE  /\ IsNumeric(i, e.at - 1) /\ RuneAt(e.at) \notin Digit
             /\ RuneAt(e.at) = "." => \/ RuneAt(e.at + 1) \notin Digit
                                      \/ \E k \in i .. e.at - 1 : text[k] = "."
  <2> DEFINE from == IF text[i] = "-" THEN i + 1 ELSE i
  <2>1. RuneAt(i) # "|"
    BY <1>7 DEF RuneAt, None
  <2>2. from \in Nat /\ from <= c.at - 1 /\ All(from, c.at - 1, Digit)
    <3>1. \/ number.at = i + 1 /\ text[i] \in Digit
          \/ number.at = i + 2 /\ text[i] = "-" /\ text[i + 1] \in Digit
      BY <2>1
    <3>2. CASE number.at = i + 1 /\ text[i] \in Digit
      BY <1>0, <1>2, <1>6, <3>2 DEF All
    <3>3. CASE number.at = i + 2 /\ text[i] = "-" /\ text[i + 1] \in Digit
      BY <1>0, <1>2, <1>6, <3>3 DEF All
    <3> QED
      BY <3>1, <3>2, <3>3
  <2>3. Digits(from, c.at - 1)
    BY <2>2 DEF Digits
  <2>4. IsNumeric(i, e.at - 1) <=>
          \/ Digits(from, e.at - 1)
          \/ \E k \in from .. e.at - 1 : Digits(from, k - 1) /\ text[k] = "." /\ Digits(k + 1, e.at - 1)
    BY DEF IsNumeric
  <2>5. i <= from
    BY <1>0
  <2> HIDE DEF from, i
  <2>6. CASE e.at = c.at /\ (RuneAt(c.at) = "." => RuneAt(c.at + 1) \notin Digit)
    BY <1>6, <2>3, <2>4, <2>6
  <2>7. CASE /\ c.at + 2 <= e.at /\ text[c.at] = "."
             /\ All(c.at + 1, e.at - 1, Digit)
             /\ RuneAt(e.at) \notin Digit
    <3>1. Digits(c.at + 1, e.at - 1)
      BY <1>2, <1>5, <2>7 DEF Digits
    <3>2. c.at \in from .. e.at - 1 /\ c.at \in i .. e.at - 1
      BY <1>0, <1>2, <1>5, <2>2, <2>5, <2>7
    <3> QED
      BY <2>3, <2>4, <2>7, <3>1, <3>2
  <2> QED
    BY <1>3, <2>6, <2>7
<1>8. IsWhole(Made(start, t))
  <2>1. (e.at - 1) + 1 = e.at /\ (e.at - 1) + 2 = e.at + 1
    BY <1>5
  <2> DEFINE made == Made(start, t)
  <2>2. made.type = "Numeric" /\ made.from = i /\ made.to = e.at - 1
    BY <1>4 DEF Made
  <2> HIDE DEF made, i
  <2> SUFFICES IsWhole(made)
    BY DEF made
  <2> QED
    BY <1>7, <2>1, <2>2 DEF IsWhole
<1> QED
  BY <1>0, <1>2, <1>3, <1>4, <1>5, <1>6, <1>8 DEF Lexes, Types, t

\* Symbols, from where their letters begin to be consumed without end.
LEMMA SymbolIs ==
  ASSUME IsText, NEW start \in Cursor, Placed(start), NEW c \in Cursor, Placed(c),
         start.at < c.at
  PROVE  Lexes(start, Symbol(start.at, c))
<1> DEFINE e == Consume_While(c, Identifier)
           t == Symbol(start.at, c)
<1>0. start.at \in Nat /\ c.at \in Nat /\ Identifier \in SUBSET Rune
  BY RunesAre DEF Cursor
<1>1. Scanned(c, Identifier, e)
  BY <1>0, WhileIs
<1>2. t.cursor = e /\ t.type \in {"Symbol", "Keyword"}
  BY DEF Symbol, Lexed
<1> HIDE DEF e, t
<1>3. Placed(e) /\ e.at \in Nat /\ start.at < e.at /\ RuneAt(e.at) \notin Identifier
  BY <1>0, <1>1 DEF Scanned, Placed, Cursor
<1>4. IsWhole(Made(start, t))
  <2> DEFINE made == Made(start, t)
  <2>1. made.type \in {"Symbol", "Keyword"} /\ made.to + 1 = e.at
    BY <1>2, <1>3 DEF Made
  <2> HIDE DEF made
  <2> SUFFICES IsWhole(made)
    BY DEF made
  <2> QED
    BY <1>3, <2>1 DEF IsWhole
<1> QED
  BY <1>2, <1>3, <1>4 DEF Lexes, Types, t

\* Text in quotes, which may not be closed.
LEMMA QuotedIs ==
  ASSUME IsText, NEW c \in Cursor, Placed(c), RuneAt(c.at) = "'"
  PROVE  Lexes(c, Quoted(c))
<1> DEFINE d == Consume[c]
           e == Consume_While(d, Identifier \cup Valid_Operator_Chars)
           t == Quoted(c)
<1>0. c.at \in Nat /\ Identifier \cup Valid_Operator_Chars \in SUBSET Rune /\ "'" \in Identifier
  BY RunesAre DEF Cursor, Identifier, Identifier_First
<1>1. CanConsume(c)
  BY <1>0, PeekIs DEF CanConsume
<1>2. d \in Cursor /\ Placed(d) /\ d.at = c.at + 1
  BY <1>1, ConsumeIs
<1>3. Scanned(d, Identifier \cup Valid_Operator_Chars, e)
  BY <1>0, <1>2, WhileIs
<1>4. t.cursor = e /\ t.type = "Symbol"
  BY DEF Quoted, Lexed
<1> HIDE DEF d, e, t
<1>5. Placed(e) /\ e.at \in Nat /\ c.at < e.at /\ RuneAt(e.at) \notin Identifier
  BY <1>0, <1>2, <1>3 DEF Scanned, Placed, Cursor
<1>6. IsWhole(Made(c, t))
  <2> DEFINE made == Made(c, t)
  <2>1. made.type = "Symbol" /\ made.to + 1 = e.at
    BY <1>4, <1>5 DEF Made
  <2> HIDE DEF made
  <2> SUFFICES IsWhole(made)
    BY DEF made
  <2> QED
    BY <1>5, <2>1 DEF IsWhole
<1> QED
  BY <1>4, <1>5, <1>6 DEF Lexes, Types, t

\* Operators, also those that begin with a bar.
LEMMA OperatorIs ==
  ASSUME IsText, NEW start \in Cursor, Placed(start), NEW c \in Cursor, Placed(c),
         start.at <= c.at, All(start.at, c.at - 1, Valid_Operator_Chars),
         RuneAt(c.at) \in Valid_Operator_Chars
  PROVE  Lexes(start, Operator(c))
<1> DEFINE e == Consume_While(c, Valid_Operator_Chars)
           t == Operator(c)
<1>0. start.at \in Nat /\ c.at \in Nat /\ Valid_Operator_Chars \in SUBSET Rune
  BY RunesAre DEF Cursor
<1>1. Scanned(c, Valid_Operator_Chars, e)
  BY <1>0, WhileIs
<1>2. t.cursor = e /\ t.type = "Operator"
  BY DEF Operator, Lexed
<1> HIDE DEF e, t
<1>3. Placed(e) /\ e.at \in Nat /\ c.at <= e.at /\ RuneAt(e.at) \notin Valid_Operator_Chars
  BY <1>1 DEF Scanned, Placed, Cursor
<1>4. c.at # e.at
  BY <1>3
<1>5. All(start.at, e.at - 1, Valid_Operator_Chars)
  BY <1>0, <1>1, <1>3 DEF Scanned, All
<1>6. IsWhole(Made(start, t))
  <2> DEFINE made == Made(start, t)
  <2>1. /\ made.type = "Operator" /\ made.from = start.at
        /\ made.to = e.at - 1 /\ made.to + 1 = e.at
    BY <1>2, <1>3 DEF Made
  <2> HIDE DEF made
  <2> SUFFICES IsWhole(made)
    BY DEF made
  <2> QED
    BY <1>3, <1>5, <2>1 DEF IsWhole
<1> QED
  BY <1>0, <1>2, <1>3, <1>4, <1>6 DEF Lexes, Types, t

\* Chords; a note letter before other letters is one of them.
LEMMA ChordIs ==
  ASSUME IsText, NEW c \in Cursor, Placed(c), RuneAt(c.at) \in Notes_Symbols
  PROVE  Lexes(c, Chord_Or_Symbol(c.at, c))
<1> DEFINE d == Consume[c]
           a == Consume_While(d, Accidentals)
           e == Consume_While(a, Digit)
           t == Chord_Or_Symbol(c.at, c)
<1>0. /\ c.at \in Nat /\ Accidentals \in SUBSET Rune /\ Digit \in SUBSET Rune
      /\ Identifier \in SUBSET Rune /\ Notes_Symbols \in SUBSET Rune
  BY RunesAre DEF Cursor
<1>1. CanConsume(c) /\ text[c.at] \in Notes_Symbols
  BY <1>0, PeekIs DEF CanConsume
<1>2. d \in Cursor /\ Placed(d) /\ d.at = c.at + 1
  BY <1>1, ConsumeIs
<1>3. Scanned(d, Accidentals, a)
  BY <1>0, <1>2, WhileIs
<1>4. a \in Cursor /\ Placed(a) /\ a.at \in Nat
  BY <1>3 DEF Scanned, Placed, Cursor
<1>5. Scanned(a, Digit, e)
  BY <1>0, <1>4, WhileIs
<1>6. e \in Cursor /\ Placed(e) /\ e.at \in Nat /\ c.at < e.at
  BY <1>0, <1>2, <1>3, <1>4, <1>5 DEF Scanned, Placed, Cursor
<1>7. CASE Peek(e) \in Identifier
  <2>1. t = Symbol(c.at, e)
    BY <1>7 DEF Chord_Or_Symbol
  <2> QED
    BY <1>6, <2>1, SymbolIs
<1>8. CASE Peek(e) \notin Identifier
  <2>1. t = [type |-> "Chord", cursor |-> e]
    BY <1>8 DEF Chord_Or_Symbol, Lexed
  <2>2. RuneAt(e.at) \notin Identifier
    BY <1>0, <1>6, <1>8, PeekIs
  <2> HIDE DEF d, a, e, t
  <2>3. IsChord(c.at, e.at - 1)
    <3>1. a.at - 1 \in c.at .. e.at - 1 /\ (a.at - 1) + 1 = a.at
      BY <1>0, <1>2, <1>3, <1>4, <1>5, <1>6 DEF Scanned
    <3>2. All(c.at + 1, a.at - 1, Accidentals) /\ All((a.at - 1) + 1, e.at - 1, Digit)
      BY <1>2, <1>3, <1>5, <3>1 DEF Scanned
    <3> QED
      BY <1>1, <3>1, <3>2 DEF IsChord
  <2>4. IsWhole(Made(c, t))
    <3> DEFINE made == Made(c, t)
    <3>1. /\ made.type = "Chord" /\ made.from = c.at
          /\ made.to = e.at - 1 /\ made.to + 1 = e.at
      BY <1>6, <2>1 DEF Made
    <3> HIDE DEF made
    <3> SUFFICES IsWhole(made)
      BY DEF made
    <3> QED
      BY <2>2, <2>3, <3>1 DEF IsWhole
  <2> QED
    BY <1>6, <2>1, <2>4 DEF Lexes, Types, t
<1> QED
  BY <1>7, <1>8

\* One rune: brackets, commas and bars.
LEMMA SingleIs ==
  ASSUME IsText, NEW c \in Cursor, Placed(c), NEW e \in Cursor, Placed(e), e.at = c.at + 1,
         NEW type \in Types,
         \/ /\ type \in {"Open_Block", "Close_Block", "Open_Index", "Close_Index",
                         "Expression_Separator"}
            /\ text[c.at] \in DOMAIN Brackets
         \/ /\ type = "Parameter_Separator" /\ text[c.at] = "|"
            /\ RuneAt(c.at + 1) \notin Valid_Operator_Chars \ {"="}
  PROVE  Lexes(c, Lexed(type, e))
<1> DEFINE t == Lexed(type, e)
           made == Made(c, t)
<1>1. c.at \in Nat /\ t.type = type /\ t.cursor = e
  BY DEF Cursor, Lexed
<1>2. /\ made.type = type /\ made.from = c.at /\ made.to = c.at /\ made.to + 1 = c.at + 1
  BY <1>1 DEF Made
<1> HIDE DEF t, made
<1>3. IsWhole(made)
  BY <1>2 DEF IsWhole
<1> QED
  BY <1>1, <1>3 DEF Lexes, t, made

\* The separator: no other operator goes on with the bar.
LEMMA SeparatorIs ==
  ASSUME IsText, NEW start \in Cursor, Placed(start)
  PROVE  /\ Is_Separator(start) =>
              text[start.at] = "|" /\ RuneAt(start.at + 1) \notin Valid_Operator_Chars \ {"="}
         /\ RuneAt(start.at) = "|" /\ ~Is_Separator(start) =>
              RuneAt(start.at + 1) \in (Valid_Operator_Chars \cup {Macron, Integral}) \ {"="}
<1> DEFINE d == Consume[start]
           Goes_On == Valid_Operator_Chars \cup {Macron, Integral}
<1>0. {"|"} \in SUBSET Rune /\ Valid_Operator_Chars \in SUBSET Rune
      /\ Goes_On \in SUBSET Rune /\ {"="} \in SUBSET Rune
  BY DEF Rune, Valid_Operator_Chars, Identifier, Identifier_First, Letter
<1>1. Peek(start) = "|" <=> RuneAt(start.at) = "|"
  BY <1>0, PeekIs
<1>2. ASSUME RuneAt(start.at) = "|"
      PROVE  d \in Cursor /\ d.at = start.at + 1 /\ text[start.at] = "|"
  <2>1. CanConsume(start) /\ text[start.at] = "|"
    BY <1>0, <1>2, PeekIs DEF CanConsume
  <2> QED
    BY <2>1, ConsumeIs
<1>3. Is_Separator(start) <=> Peek(start) = "|" /\ (Peek(d) \notin Goes_On \/ Peek(d) = "=")
  BY DEF Is_Separator
<1> HIDE DEF d
<1>4. ASSUME RuneAt(start.at) = "|"
      PROVE  /\ Peek(d) \in Goes_On <=> RuneAt(start.at + 1) \in Goes_On
             /\ Peek(d) = "=" <=> RuneAt(start.at + 1) = "="
  BY <1>0, <1>2, <1>4, PeekIs
<1> QED
  BY <1>1, <1>2, <1>3, <1>4

\* A token begins where it was begun, not where the cursor stands.
LEMMA SameStart ==
  ASSUME NEW start \in Cursor, Placed(start), NEW c \in Cursor, Placed(c), c.at = start.at,
         NEW t, Lexes(c, t)
  PROVE  Lexes(start, t)
<1>1. c.location = start.location
  BY DEF Placed
<1>2. Made(c, t) = Made(start, t)
  BY <1>1 DEF Made
<1> QED
  BY <1>2 DEF Lexes

\* Whatever begins here, a token is made of it, or the text is at its end.
LEMMA TokenIs ==
  ASSUME IsText, NEW start \in Cursor, Placed(start), RuneAt(start.at) \in Rune
  PROVE  Lexes(start, Token(start))
<1> DEFINE c == Consume_If(start, {"|"})
           number == IF Peek(c) \in Digit THEN Consume[c] ELSE Consume_Two(c, {"-"}, Digit)
           next == Peek(c)
           t == Token(start)
           i == start.at
<1>0. /\ i \in Nat \ {0} /\ DOMAIN Brackets \in SUBSET Rune /\ Digit \in SUBSET Rune
      /\ {"|"} \in SUBSET Rune /\ {"-"} \in SUBSET Rune
      /\ Notes_Symbols \in SUBSET Rune /\ {"'"} \in SUBSET Rune
      /\ Identifier_First \in SUBSET Rune /\ Valid_Operator_Chars \in SUBSET Rune
  <2>1. i \in Nat \ {0}
    BY DEF Cursor, Placed
  <2>2. Identifier_First \subseteq Rune /\ DOMAIN Brackets \subseteq Rune
    BY DEF Rune, Identifier
  <2>3. "|" \in Rune /\ "'" \in Rune /\ "-" \in Rune
    BY RunesAre DEF Rune, Identifier, Identifier_First, Valid_Operator_Chars
  <2> QED
    BY <2>1, <2>2, <2>3, RunesAre
<1>a. CanConsume(start) /\ text[i] = RuneAt(i)
  BY PeekIs DEF CanConsume
<1>b. Consume[start] \in Cursor /\ Placed(Consume[start]) /\ Consume[start].at = i + 1
  BY <1>a, ConsumeIs
<1>1. t = CASE Peek(start) \in DOMAIN Brackets -> Lexed(Brackets[Peek(start)], Consume[start])
            [] Is_Separator(start) -> Lexed("Parameter_Separator", c)
            [] OTHER ->
                 IF number.at > c.at THEN Numeric(number)
                 ELSE CASE next \in Notes_Symbols -> Chord_Or_Symbol(i, number)
                        [] next = "'" -> Quoted(number)
                        [] next \in Identifier_First \ (Notes_Symbols \cup {"'"}) ->
                             Symbol(i, Consume[number])
                        [] next \in Valid_Operator_Chars -> Operator(number)
                        [] OTHER -> Lexed("Error", number)
  BY DEF Token
<1>2. CASE Peek(start) \in DOMAIN Brackets
  <2>1. text[i] \in DOMAIN Brackets /\ text[i] = Peek(start)
    BY <1>0, <1>2, <1>a, PeekIs DEF Peek, None
  <2> DEFINE type == Brackets[Peek(start)]
  <2>2. type \in {"Open_Block", "Close_Block", "Open_Index", "Close_Index", "Expression_Separator"}
    BY <1>2 DEF Brackets
  <2>3. type \in Types
    BY <2>2 DEF Types
  <2>4. ~Is_Separator(start)
    BY <1>2 DEF Is_Separator, Brackets
  <2>5. t = Lexed(type, Consume[start])
    BY <1>1, <1>2, <2>4
  <2> HIDE DEF type, t
  <2>6. Lexes(start, Lexed(type, Consume[start]))
    BY <1>b, <2>1, <2>2, <2>3, SingleIs
  <2> QED
    BY <2>5, <2>6 DEF t
<1>3. CASE Peek(start) \notin DOMAIN Brackets /\ Is_Separator(start)
  <2>1. text[i] = "|" /\ RuneAt(i + 1) \notin Valid_Operator_Chars \ {"="}
    BY <1>3, SeparatorIs
  <2>2. c = Consume[start]
    BY <1>3 DEF Is_Separator, Consume_If
  <2>3. t = Lexed("Parameter_Separator", Consume[start])
    BY <1>1, <1>3, <2>2
  <2>4. "Parameter_Separator" \in Types
    BY DEF Types
  <2>5. Lexes(start, Lexed("Parameter_Separator", Consume[start]))
    BY <1>b, <2>1, <2>4, SingleIs
  <2> QED
    BY <2>3, <2>5
<1>4. CASE Peek(start) \notin DOMAIN Brackets /\ ~Is_Separator(start)
  <2>1. /\ c \in Cursor /\ Placed(c) /\ c.at \in Nat
        /\ RuneAt(i) = "|" => c.at = i + 1
        /\ RuneAt(i) # "|" => c.at = i /\ c = start
    <3>1. Placed(c) /\ c.at = IF RuneAt(i) \in {"|"} THEN i + 1 ELSE i
      BY <1>0, IfIs
    <3>2. RuneAt(i) # "|" => Peek(start) \notin {"|"}
      BY <1>0, PeekIs
    <3>3. RuneAt(i) # "|" => c = start
      BY <3>2 DEF Consume_If
    <3> QED
      BY <1>0, <3>1, <3>3 DEF Placed, Cursor
  <2>2. RuneAt(i) = "|" => RuneAt(c.at) \in (Valid_Operator_Chars \cup {Macron, Integral}) \ {"="}
    BY <1>4, <2>1, SeparatorIs
  <2> HIDE DEF c
  <2>3. /\ number \in Cursor /\ Placed(number) /\ number.at \in Nat
        /\ number.at = IF RuneAt(c.at) \in Digit THEN c.at + 1
                       ELSE IF RuneAt(c.at) = "-" /\ RuneAt(c.at + 1) \in Digit THEN c.at + 2
                       ELSE c.at
    <3>1. Peek(c) \in Digit <=> RuneAt(c.at) \in Digit
      BY <1>0, <2>1, PeekIs
    <3>2. RuneAt(c.at) \in Digit => CanConsume(c)
      BY <1>0, <2>1, PeekIs DEF CanConsume
    <3>3. RuneAt(c.at) \in Digit => /\ Consume[c] \in Cursor /\ Placed(Consume[c])
                                    /\ Consume[c].at = c.at + 1
      BY <2>1, <3>2, ConsumeIs
    <3>4. /\ Placed(Consume_Two(c, {"-"}, Digit))
          /\ Consume_Two(c, {"-"}, Digit).at =
               IF RuneAt(c.at) \in {"-"} /\ RuneAt(c.at + 1) \in Digit THEN c.at + 2 ELSE c.at
      BY <1>0, <2>1, TwoIs
    <3>5. Placed(number)
      BY <3>1, <3>3, <3>4
    <3>6. number.at = IF RuneAt(c.at) \in Digit THEN c.at + 1
                      ELSE IF RuneAt(c.at) = "-" /\ RuneAt(c.at + 1) \in Digit THEN c.at + 2
                      ELSE c.at
      BY <3>1, <3>3, <3>4
    <3> HIDE DEF number
    <3> QED
      BY <3>5, <3>6 DEF Placed, Cursor
  <2>4. ASSUME NEW test \in SUBSET Rune
        PROVE  next \in test <=> RuneAt(c.at) \in test
    BY <2>1, PeekIs
  <2> HIDE DEF number, next, t
  <2>5. CASE number.at > c.at
    <3>1. t = Numeric(number)
      BY <1>1, <1>4, <2>5
    <3>2. RuneAt(i) # "|" => \/ number.at = i + 1 /\ text[i] \in Digit
                             \/ number.at = i + 2 /\ text[i] = "-" /\ text[i + 1] \in Digit
      <4>1. RuneAt(i + 1) \in Digit => text[i + 1] = RuneAt(i + 1)
        BY <1>0, RunesAre DEF RuneAt
      <4> QED
        BY <1>0, <1>a, <2>1, <2>3, <2>5, <4>1
    <3>3. i < number.at
      BY <1>0, <2>1, <2>3, <2>5
    <3>4. Lexes(start, Numeric(number))
      BY <2>3, <3>2, <3>3, NumericIs
    <3> QED
      BY <3>1, <3>4 DEF t
  <2>6. CASE ~(number.at > c.at)
    <3>0. number.at = c.at /\ Placed(number) /\ number \in Cursor
      BY <2>1, <2>3, <2>6
    <3>1. t = CASE next \in Notes_Symbols -> Chord_Or_Symbol(i, number)
                [] next = "'" -> Quoted(number)
                [] next \in Identifier_First \ (Notes_Symbols \cup {"'"}) ->
                     Symbol(i, Consume[number])
                [] next \in Valid_Operator_Chars -> Operator(number)
                [] OTHER -> Lexed("Error", number)
      BY <1>1, <1>4, <2>6
    <3>2. /\ "'" \notin Notes_Symbols
          /\ \A r \in Valid_Operator_Chars : r \notin Identifier_First
          /\ {Macron, Integral} \cap (Notes_Symbols \cup {"'"}) = {}
      BY DEF Notes_Symbols, Valid_Operator_Chars, Identifier_First, Letter, Macron, Integral
    <3>3. next \in Notes_Symbols \/ next = "'" => RuneAt(i) # "|" /\ c = start
      <4>1. next \in Notes_Symbols \cup {"'"} => RuneAt(c.at) \in Notes_Symbols \cup {"'"}
        BY <1>0, <2>4
      <4>2. RuneAt(c.at) \in Notes_Symbols \cup {"'"} =>
              RuneAt(c.at) \notin Valid_Operator_Chars \cup {Macron, Integral}
        BY <3>2 DEF Notes_Symbols, Valid_Operator_Chars
      <4> QED
        BY <2>1, <2>2, <4>1, <4>2
    <3>4. c = start => number.at = i
      BY <3>0
    <3>b. Notes_Symbols \cup {"'"} \subseteq Identifier_First
      BY DEF Notes_Symbols, Identifier_First, Letter
    <3>a. ASSUME NEW test \in SUBSET Rune
          PROVE  next \in test <=> RuneAt(number.at) \in test
      BY <2>4, <3>0
    <3>5. CASE next \in Notes_Symbols
      <4>1. t = Chord_Or_Symbol(i, number)
        <5>1. next # "'" /\ next \notin Valid_Operator_Chars
          BY <3>2, <3>5, <3>b
        <5> QED
          BY <3>1, <3>5, <5>1
      <4>2. number.at = i
        BY <3>3, <3>4, <3>5
      <4>3. Lexes(number, Chord_Or_Symbol(i, number))
        BY <1>0, <3>0, <3>5, <3>a, <4>2, ChordIs
      <4> QED
        BY <3>0, <4>1, <4>2, <4>3, SameStart DEF t
    <3>6. CASE next = "'"
      <4>1. t = Quoted(number)
        <5>1. next \notin Notes_Symbols /\ next \notin Valid_Operator_Chars
          BY <3>2, <3>6, <3>b
        <5> QED
          BY <3>1, <3>6, <5>1
      <4>2. number.at = i
        BY <3>3, <3>4, <3>6
      <4>3. RuneAt(number.at) = "'"
        BY <1>0, <3>6, <3>a
      <4>4. Lexes(number, Quoted(number))
        BY <3>0, <4>3, QuotedIs
      <4> QED
        BY <3>0, <4>1, <4>2, <4>4, SameStart DEF t
    <3>7. CASE next \in Identifier_First \ (Notes_Symbols \cup {"'"})
      <4>1. t = Symbol(i, Consume[number])
        <5>1. next # "'" /\ next \notin Notes_Symbols /\ next \notin Valid_Operator_Chars
          BY <3>2, <3>7
        <5> QED
          BY <3>1, <3>7, <5>1
      <4>2. CanConsume(number)
        BY <1>0, <3>0, <3>7, <3>a, PeekIs DEF CanConsume
      <4>3. /\ Consume[number] \in Cursor /\ Placed(Consume[number])
            /\ i < Consume[number].at
        <5>1. /\ Consume[number] \in Cursor /\ Placed(Consume[number])
              /\ Consume[number].at = number.at + 1
          BY <3>0, <4>2, ConsumeIs
        <5> QED
          BY <1>0, <2>1, <3>0, <5>1
      <4>4. Lexes(start, Symbol(i, Consume[number]))
        BY <4>3, SymbolIs
      <4> QED
        BY <4>1, <4>4 DEF t
    <3>8. CASE next \in Valid_Operator_Chars
      <4>1. t = Operator(number)
        <5>1. next # "'" /\ next \notin Notes_Symbols /\ next \notin Identifier_First
          BY <3>2, <3>8, <3>b
        <5> QED
          BY <3>1, <3>8, <5>1
      <4>2. RuneAt(number.at) \in Valid_Operator_Chars
        BY <1>0, <3>8, <3>a
      <4>3. i <= number.at /\ All(i, number.at - 1, Valid_Operator_Chars)
        <5>1. RuneAt(i) = "|" => text[i] \in Valid_Operator_Chars
          BY <1>a DEF Valid_Operator_Chars
        <5> QED
          BY <1>0, <2>1, <3>0, <5>1 DEF All
      <4>4. Lexes(start, Operator(number))
        BY <3>0, <4>2, <4>3, OperatorIs
      <4> QED
        BY <4>1, <4>4 DEF t
    <3>9. CASE next \notin Identifier_First \cup Valid_Operator_Chars \cup Notes_Symbols \cup {"'"}
      <4>1. t = Lexed("Error", number)
        BY <3>1, <3>9
      <4> QED
        BY <3>0, <4>1 DEF Lexes, Lexed, t
    <3> QED
      BY <3>5, <3>6, <3>7, <3>8, <3>9
  <2> QED
    BY <2>5, <2>6
<1> QED
  BY <1>2, <1>3, <1>4

---------------------------------------------------------------------------
(* The invariant.                                                          *)

Token_Record == [type : Types, from : Nat, to : Nat, location : [line : Nat, column : Nat]]

\* What is known of a token t with nothing but blanks between it and rune b.
Good(t, b) ==
  /\ t.from \in 1 .. size /\ t.to \in 1 .. size /\ t.from <= t.to
  /\ IsBlank(b + 1, t.from - 1)
  /\ \A j \in 1 .. size : ~IsPiece(t.from, j)
  /\ t.location = Place(t.from)
  /\ IsWhole(t)

TokensAreGood ==
  /\ tokens \in Seq(Token_Record)
  /\ \A i \in DOMAIN tokens : Good(tokens[i], To(i - 1))

\* The first rune behind the last token.
Behind == To(Len(tokens)) + 1

\* What lies before the cursor is skipped; nothing comes of what is no rune.
Skipped(from, c) ==
  /\ from <= c.at
  /\ IsBlank(from, c.at - 1) \/ RuneAt(c.at) \in {Invalid, NUL}

\* A comment that dashes open .. last began is read up to the cursor, and no
\* three dashes but those that end it; n of them are read.
Commented(open, last, n, c) ==
  /\ open + 2 <= last /\ All(open, last, {"-"}) /\ RuneAt(last + 1) # "-"
  /\ last < c.at /\ All(c.at - n, c.at - 1, {"-"})
  /\ IF c.at = last + 1 THEN n = 0
     ELSE last < c.at - n - 1 /\ text[c.at - n - 1] # "-"
  /\ \A k \in last + 1 .. c.at - n - 1 : ~ThreeDashes(k)

Commenting(from, n, c) ==
  \/ ~CanConsume(c) /\ n = 0
  \/ \E open, last \in 1 .. size :
       from <= open /\ IsBlank(from, open - 1) /\ Commented(open, last, n, c)

IInv ==
  /\ text \in Sources /\ Placed(cursor)
  /\ mode \in {"skip", "comment", "end", "error"} /\ count \in 0 .. 3
  /\ TokensAreGood
  /\ mode = "skip" => Skipped(Behind, cursor)
  /\ mode = "comment" => Commenting(Behind, count, cursor)
  /\ mode = "end" /\ Readable => IsBlank(Behind, size)

---------------------------------------------------------------------------
(* What is skipped.                                                        *)

\* Of a cursor in the text.
LEMMA RuneAtIs ==
  ASSUME IsText, NEW i \in Nat
  PROVE  RuneAt(i) \in Rune \cup {Invalid, NUL, None}
BY DEF RuneAt, IsText

\* White space.
LEMMA SpaceIsSkipped ==
  ASSUME IsText, NEW c \in Cursor, Placed(c), NEW from \in Nat, Skipped(from, c),
         RuneAt(c.at) \in Space
  PROVE  Placed(Consume_While(c, Space)) /\ Skipped(from, Consume_While(c, Space))
<1> DEFINE e == Consume_While(c, Space)
<1>0. c.at \in Nat \ {0} /\ Space \in SUBSET Rune
  BY RunesAre DEF Placed
<1>1. Scanned(c, Space, e)
  BY <1>0, WhileIs
<1> HIDE DEF e
<1>2. Placed(e) /\ e.at \in Nat /\ c.at <= e.at /\ All(c.at, e.at - 1, Space)
  BY <1>1 DEF Scanned, Placed, Cursor
<1>3. IsBlank(from, c.at - 1) /\ from <= c.at
  BY <1>0, RunesAre DEF Skipped
<1>4. c.at - 1 \in Nat /\ e.at - 1 \in Nat /\ (c.at - 1) + 1 = c.at /\ c.at - 1 <= e.at - 1
  BY <1>0, <1>2
<1>5. IsBlank(from, e.at - 1)
  BY <1>2, <1>3, <1>4, SpaceBehind
<1> QED
  BY <1>0, <1>2, <1>3, <1>5 DEF Skipped, e

\* Behind two runes that begin a single line comment.
LEMMA LineIsSkipped ==
  ASSUME IsText, NEW c \in Cursor, Placed(c), NEW d \in Cursor, Placed(d), d.at = c.at + 2,
         NEW from \in Nat, Skipped(from, c),
         \/ RuneAt(c.at) = "#" /\ RuneAt(c.at + 1) = "!"
         \/ RuneAt(c.at) = "-" /\ RuneAt(c.at + 1) = "-" /\ RuneAt(d.at) # "-"
  PROVE  Placed(To_Line_End(d)) /\ Skipped(from, To_Line_End(d))
<1> DEFINE e == To_Line_End(d)
           Inline == Rune \ {"newline"}
           i == c.at
<1>0. i \in Nat \ {0} /\ Inline \in SUBSET Rune
  BY DEF Placed
<1>1. Scanned(d, Inline, e)
  BY <1>0, WhileIs DEF To_Line_End
<1> HIDE DEF e
<1>2. Placed(e) /\ e.at \in Nat /\ i + 2 <= e.at /\ All(i + 2, e.at - 1, Inline)
      /\ RuneAt(e.at) \notin Inline
  BY <1>1 DEF Scanned, Placed, Cursor
<1>3. IsBlank(from, i - 1) /\ from <= i
  BY <1>0, RunesAre DEF Skipped, Invalid, NUL
<1>4. /\ i \in DOMAIN text /\ i + 1 \in DOMAIN text
      /\ text[i] = RuneAt(i) /\ text[i + 1] = RuneAt(i + 1)
  BY RunesAre DEF RuneAt, None
<1>5. /\ text[i] \in Inline /\ text[i + 1] \in Inline
      /\ \/ text[i] = "#" /\ text[i + 1] = "!"
         \/ All(i, i + 1, {"-"}) /\ ~ThreeDashes(i)
  <2>1. text[i] \in Inline /\ text[i + 1] \in Inline
    BY <1>4, RunesAre
  <2>2. CASE text[i] = "-" /\ text[i + 1] = "-" /\ RuneAt(i + 2) # "-"
    <3>1. All(i, i + 1, {"-"})
      BY <1>0, <2>2 DEF All
    <3>2. ASSUME ThreeDashes(i)
          PROVE  FALSE
      <4>1. i + 2 \in DOMAIN text /\ text[i + 2] = "-"
        BY <1>0, <3>2 DEF ThreeDashes, All
      <4> QED
        BY <2>2, <4>1 DEF RuneAt
    <3> QED
      BY <2>1, <3>1, <3>2
  <2> QED
    BY <1>4, <2>1, <2>2
<1>6. All(i, e.at - 1, Inline)
  BY <1>0, <1>2, <1>5 DEF All
<1>7. RuneAt(e.at) \in {"newline", None, Invalid, NUL}
  BY <1>2, RuneAtIs
<1>8. CASE RuneAt(e.at) \in {Invalid, NUL}
  BY <1>0, <1>2, <1>3, <1>8 DEF Skipped, e
<1>9. CASE RuneAt(e.at) \in {"newline", None}
  <2>1. e.at - 1 \in Nat /\ (e.at - 1) + 1 = e.at /\ e.at - 1 > i /\ i - 1 \in Nat /\ (i - 1) + 1 = i
    BY <1>0, <1>2
  <2>2. IsPiece(i, e.at - 1)
    <3>1. IsLineComment(i, e.at - 1)
      BY <1>5, <1>6, <1>9, <2>1 DEF IsLineComment
    <3> QED
      BY <3>1 DEF IsPiece
  <2>3. IsBlank(from, e.at - 1)
    BY <1>0, <1>3, <2>1, <2>2, PieceBehind
  <2> QED
    BY <1>0, <1>2, <1>3, <2>3 DEF Skipped, e
<1> QED
  BY <1>7, <1>8, <1>9

\* Three dashes, and all that follow, begin a comment.
LEMMA CommentIsOpened ==
  ASSUME IsText, NEW c \in Cursor, Placed(c), NEW d \in Cursor, Placed(d), d.at = c.at + 2,
         NEW from \in Nat, Skipped(from, c),
         RuneAt(c.at) = "-", RuneAt(c.at + 1) = "-", RuneAt(d.at) = "-"
  PROVE  Placed(Opening(d)) /\ Commenting(from, 0, Opening(d))
<1> DEFINE e == Opening(d)
           i == c.at
<1>0. i \in Nat \ {0} /\ {"-"} \in SUBSET Rune
  BY RunesAre DEF Placed
<1>1. Scanned(d, {"-"}, e)
  BY <1>0, WhileIs DEF Opening
<1> HIDE DEF e
<1>2. Placed(e) /\ e.at \in Nat /\ i + 2 <= e.at /\ All(i + 2, e.at - 1, {"-"}) /\ RuneAt(e.at) # "-"
      /\ e.at <= size + 1 /\ size \in Nat
  BY <1>1 DEF Scanned, Placed, Cursor, IsText, size
<1>3. i + 3 <= e.at
  BY <1>0, <1>2
<1>4. IsBlank(from, i - 1) /\ from <= i
  BY <1>0, RunesAre DEF Skipped, Invalid, NUL
<1>5. text[i] = "-" /\ text[i + 1] = "-"
  BY DEF RuneAt, None
<1>6. All(i, e.at - 1, {"-"})
  BY <1>0, <1>2, <1>5 DEF All
<1>7. Commented(i, e.at - 1, 0, e)
  <2>1. (e.at - 1) + 1 = e.at /\ i + 2 <= e.at - 1 /\ e.at - 1 < e.at /\ e.at - 0 = e.at
    BY <1>0, <1>2, <1>3
  <2>2. All(e.at - 0, e.at - 1, {"-"})
    BY <1>2 DEF All
  <2> QED
    BY <1>2, <1>6, <2>1, <2>2 DEF Commented
<1>8. i \in 1 .. size /\ e.at - 1 \in 1 .. size
  BY <1>0, <1>2, <1>3
<1> QED
  BY <1>2, <1>4, <1>7, <1>8 DEF Commenting, e

\* A rune of a comment.
LEMMA CommentGoesOn ==
  ASSUME IsText, NEW c \in Cursor, Placed(c), NEW n \in 0 .. 2, NEW from \in Nat,
         Commenting(from, n, c)
  PROVE  Placed(Consume[c]) /\ Count(c, n) \in 0 .. 3 /\ Commenting(from, Count(c, n), Consume[c])
<1> DEFINE e == Consume[c]
           m == Count(c, n)
           i == c.at
<1>0. i \in Nat \ {0} /\ {"-"} \in SUBSET Rune
  BY RunesAre DEF Placed
<1>1. m = (IF RuneAt(i) = "-" THEN n + 1 ELSE 0) /\ m \in 0 .. 3
  <2>1. Peek(c) \in {"-"} <=> RuneAt(i) \in {"-"}
    BY <1>0, PeekIs
  <2> QED
    BY <2>1 DEF Count
<1>2. Placed(e)
  BY ConsumeIs
<1>3. CASE ~CanConsume(c)
  <2>1. e.at = i
    BY <1>3, ConsumeIs
  <2>2. RuneAt(i) # "-"
    BY <1>0, <1>3, PeekIs DEF CanConsume
  <2> QED
    BY <1>1, <1>2, <1>3, <2>1, <2>2 DEF Commenting, CanConsume
<1>4. CASE CanConsume(c)
  <2>1. e.at = i + 1 /\ text[i] = RuneAt(i)
    BY <1>4, ConsumeIs DEF CanConsume, RuneAt, IsText, size
  <2>2. PICK open, last \in 1 .. size :
          from <= open /\ IsBlank(from, open - 1) /\ Commented(open, last, n, c)
    BY <1>4 DEF Commenting
  <2> HIDE DEF e, m
  <2>3. Commented(open, last, m, e)
    <3>1. /\ open + 2 <= last /\ All(open, last, {"-"}) /\ RuneAt(last + 1) # "-"
          /\ last < i /\ All(i - n, i - 1, {"-"})
          /\ i = last + 1 => n = 0
          /\ i # last + 1 => last < i - n - 1 /\ text[i - n - 1] # "-"
          /\ \A k \in last + 1 .. i - n - 1 : ~ThreeDashes(k)
      BY <2>2 DEF Commented
    <3>2. CASE RuneAt(i) = "-"
      <4>1. m = n + 1 /\ i # last + 1
        BY <1>1, <3>1, <3>2
      <4>2. e.at - m = i - n /\ e.at - 1 = i /\ e.at - m - 1 = i - n - 1
        BY <1>0, <2>1, <4>1
      <4>3. All(e.at - m, e.at - 1, {"-"})
        BY <1>0, <2>1, <3>1, <3>2, <4>2 DEF All
      <4> QED
        BY <1>0, <2>1, <3>1, <4>1, <4>2, <4>3 DEF Commented
    <3>3. CASE RuneAt(i) # "-"
      <4>1. m = 0 /\ e.at - m = i + 1 /\ e.at - 1 = i /\ e.at - m - 1 = i
        BY <1>0, <1>1, <2>1, <3>3
      <4>2. All(e.at - m, e.at - 1, {"-"})
        BY <1>0, <4>1 DEF All
      <4>3. ASSUME NEW k \in last + 1 .. i, ThreeDashes(k)
            PROVE  FALSE
        <5>1. k \in Int /\ All(k, k + 2, {"-"})
          BY <4>3 DEF ThreeDashes
        <5>2. k \notin last + 1 .. i - n - 1
          BY <3>1, <4>3
        <5>3. i \in k .. k + 2
          BY <1>0, <5>1, <5>2
        <5> QED
          BY <2>1, <3>3, <5>1, <5>3 DEF All
      <4> QED
        BY <1>0, <2>1, <3>1, <3>3, <4>1, <4>2, <4>3 DEF Commented
    <3> QED
      BY <3>2, <3>3
  <2> QED
    BY <1>1, <1>2, <2>2, <2>3 DEF Commenting, e, m
<1> QED
  BY <1>3, <1>4

\* Three dashes, and all that follow, end it.
LEMMA CommentIsClosed ==
  ASSUME IsText, NEW c \in Cursor, Placed(c), NEW from \in Nat, Commenting(from, 3, c)
  PROVE  /\ Placed(Consume_While(c, {"-"}))
         /\ Skipped(from, Consume_While(c, {"-"}))
<1> DEFINE e == Consume_While(c, {"-"})
           i == c.at
<1>0. i \in Nat \ {0} /\ {"-"} \in SUBSET Rune
  BY RunesAre DEF Placed
<1>1. Scanned(c, {"-"}, e)
  BY <1>0, WhileIs
<1> HIDE DEF e
<1>2. Placed(e) /\ e.at \in Nat /\ i <= e.at /\ All(i, e.at - 1, {"-"}) /\ RuneAt(e.at) # "-"
  BY <1>1 DEF Scanned, Placed, Cursor
<1>3. PICK open, last \in 1 .. size :
        from <= open /\ IsBlank(from, open - 1) /\ Commented(open, last, 3, c)
  BY DEF Commenting
<1>4. /\ open + 2 <= last /\ All(open, last, {"-"}) /\ RuneAt(last + 1) # "-"
      /\ last < i /\ All(i - 3, i - 1, {"-"})
      /\ last < i - 3 - 1 /\ text[i - 3 - 1] # "-"
      /\ \A k \in last + 1 .. i - 3 - 1 : ~ThreeDashes(k)
  BY <1>0, <1>3 DEF Commented
<1>5. open \in Nat \ {0} /\ last \in Nat
  OBVIOUS
<1> DEFINE close == i - 3
           j == e.at - 1
<1>6. /\ close \in Nat /\ j \in Nat /\ last \in open + 2 .. j /\ close \in open + 4 .. j
      /\ close > last + 1 /\ close + 2 <= j /\ j + 1 = e.at /\ open <= j
      /\ close - 1 = i - 3 - 1
  BY <1>0, <1>2, <1>4, <1>5
<1>7. All(close, j, {"-"})
  BY <1>0, <1>2, <1>4, <1>5 DEF All
<1>8. RuneAt(close - 1) # "-"
  BY <1>4, <1>6 DEF RuneAt, None
<1> HIDE DEF close, j
<1>9. IsLongComment(open, j)
  BY <1>2, <1>4, <1>6, <1>7, <1>8 DEF IsLongComment
<1>10. IsPiece(open, j)
  BY <1>9 DEF IsPiece
<1>11. open - 1 \in Nat /\ (open - 1) + 1 = open
  BY <1>5
<1>12. IsBlank(from, j)
  BY <1>3, <1>6, <1>10, <1>11, PieceBehind
<1>13. from <= e.at
  BY <1>3, <1>5, <1>6
<1> QED
  BY <1>2, <1>12, <1>13 DEF Skipped, e, j

---------------------------------------------------------------------------
(* Steps.                                                                  *)

\* What is said of a text that stays stays true.
LEMMA TextStays ==
  ASSUME text' = text, NEW i, NEW j
  PROVE  /\ size' = size /\ RuneAt(i)' = RuneAt(i) /\ Place(i)' = Place(i)
         /\ IsPiece(i, j)' <=> IsPiece(i, j)
         /\ IsBlank(i, j)' <=> IsBlank(i, j)
         /\ Readable' <=> Readable
<1>1. /\ size' = size /\ RuneAt(i)' = RuneAt(i) /\ (Readable' <=> Readable)
  BY DEF size, RuneAt, Readable
<1>2. Place(i)' = Place(i)
  BY DEF Place, Lines, LineStart, Location
<1>3. IsPiece(i, j)' <=> IsPiece(i, j)
  BY DEF IsPiece, IsLineComment, IsLongComment, All, RuneAt, ThreeDashes
<1>4. IsBlank(i, j)' <=> IsBlank(i, j)
  BY DEF IsBlank, IsPiece, IsLineComment, IsLongComment, All, RuneAt, ThreeDashes
<1> QED
  BY <1>1, <1>2, <1>3, <1>4

\* The same, of tokens that are whole.
LEMMA WholeStays ==
  ASSUME text' = text, NEW t
  PROVE  IsWhole(t)' <=> IsWhole(t)
BY DEF IsWhole, IsNumeric, IsChord, RuneAt, All, Digits

\* The same, of tokens.
LEMMA GoodStays ==
  ASSUME text' = text, NEW t, NEW b, Good(t, b)
  PROVE  Good(t, b)'
<1>1. /\ size' = size /\ Place(t.from)' = Place(t.from)
      /\ IsBlank(b + 1, t.from - 1)' <=> IsBlank(b + 1, t.from - 1)
      /\ \A j \in 1 .. size : IsPiece(t.from, j)' <=> IsPiece(t.from, j)
  BY TextStays
<1>2. IsWhole(t)' <=> IsWhole(t)
  BY WholeStays
<1> QED
  BY <1>1, <1>2 DEF Good

\* The same, of the cursor.
LEMMA CursorStays ==
  ASSUME text' = text, NEW c, NEW from, NEW n
  PROVE  /\ Placed(c) => Placed(c)'
         /\ Skipped(from, c) => Skipped(from, c)'
         /\ Commenting(from, n, c) => Commenting(from, n, c)'
<1>1. Placed(c) => Placed(c)'
  BY TextStays DEF Placed
<1>2. Skipped(from, c) => Skipped(from, c)'
  BY TextStays DEF Skipped
<1>3. CanConsume(c)' <=> CanConsume(c)
  BY DEF CanConsume, size
<1>4. ASSUME NEW open, NEW last
      PROVE  Commented(open, last, n, c)' <=> Commented(open, last, n, c)
  BY DEF Commented, All, ThreeDashes, RuneAt
<1>5. ASSUME NEW open
      PROVE  IsBlank(from, open - 1)' <=> IsBlank(from, open - 1)
  BY TextStays
<1>6. Commenting(from, n, c) => Commenting(from, n, c)'
  BY <1>3, <1>4, <1>5, TextStays DEF Commenting
<1> QED
  BY <1>1, <1>2, <1>6

\* The same, of all tokens.
LEMMA TokensStay ==
  ASSUME TokensAreGood, UNCHANGED <<text, tokens>>
  PROVE  TokensAreGood' /\ Behind' = Behind
<1>1. ASSUME NEW i \in DOMAIN tokens
      PROVE  Good(tokens[i], To(i - 1))'
  <2>1. PICK t, b : t = tokens[i] /\ b = To(i - 1)
    OBVIOUS
  <2>2. Good(t, b)'
    BY <2>1, GoodStays DEF TokensAreGood
  <2>3. t = tokens'[i] /\ b = To(i - 1)'
    BY <2>1 DEF To
  <2> QED
    BY <2>2, <2>3
<1>2. Behind' = Behind
  BY DEF Behind, To
<1> QED
  BY <1>1, <1>2 DEF TokensAreGood, Token_Record, Types

\* What lies behind the last token.
LEMMA BehindIs ==
  ASSUME TokensAreGood
  PROVE  Behind \in Nat \ {0} /\ Len(tokens) \in Nat
<1>1. tokens \in Seq(Token_Record)
  BY DEF TokensAreGood
<1>2. Len(tokens) \in Nat /\ \A i \in 1 .. Len(tokens) : tokens[i] \in Token_Record
  BY <1>1
<1>3. \A i \in 1 .. Len(tokens) : tokens[i].to \in Nat
  BY <1>2 DEF Token_Record
<1> QED
  BY <1>2, <1>3 DEF Behind, To

\* Texts are sequences of runes.
LEMMA TextIs ==
  ASSUME text \in Sources
  PROVE  IsText
BY LexerAssumption DEF IsText

\* The invariant holds when a lexer is made.
THEOREM LexerBegins == Init => IInv
<1> SUFFICES ASSUME Init
             PROVE  IInv
  OBVIOUS
<1>1. IsText /\ Placed(Begin) /\ cursor = Begin
  BY TextIs, BeginIsPlaced DEF Init
<1>2. TokensAreGood /\ Behind = 1
  BY DEF Init, TokensAreGood, Behind, To
<1>3. Skipped(1, Begin)
  BY NothingIsBlank DEF Skipped, Begin
<1> QED
  BY <1>1, <1>2, <1>3 DEF Init, IInv

\* The white space, the hash and the dashes that skipping looks for.
LEMMA LookIs ==
  ASSUME IsText, NEW c \in Cursor, Placed(c), cursor = c
  PROVE  /\ At_Space <=> RuneAt(c.at) \in Space
         /\ At_Hash <=> RuneAt(c.at) = "#" /\ RuneAt(c.at + 1) = "!"
         /\ At_Dashes <=> RuneAt(c.at) = "-" /\ RuneAt(c.at + 1) = "-"
         /\ Past_Hash \in Cursor /\ Placed(Past_Hash) /\ (At_Hash => Past_Hash.at = c.at + 2)
         /\ Past_Dashes \in Cursor /\ Placed(Past_Dashes)
         /\ ~At_Hash => Past_Dashes.at = IF At_Dashes THEN c.at + 2 ELSE c.at
<1> DEFINE d == Consume_Two(c, {"#"}, {"!"})
           e == Consume_Two(d, {"-"}, {"-"})
<1>0. /\ c.at \in Nat \ {0} /\ Space \in SUBSET Rune
      /\ {"#"} \in SUBSET Rune /\ {"!"} \in SUBSET Rune /\ {"-"} \in SUBSET Rune
  BY RunesAre DEF Placed
<1>1. At_Space <=> RuneAt(c.at) \in Space
  BY <1>0, PeekIs DEF At_Space
<1>2. /\ Placed(d)
      /\ d.at = IF RuneAt(c.at) = "#" /\ RuneAt(c.at + 1) = "!" THEN c.at + 2 ELSE c.at
  BY <1>0, TwoIs
<1>3. d \in Cursor
  BY <1>2 DEF Placed
<1>4. /\ Placed(e)
      /\ e.at = IF RuneAt(d.at) = "-" /\ RuneAt(d.at + 1) = "-" THEN d.at + 2 ELSE d.at
  BY <1>0, <1>2, <1>3, TwoIs
<1>5. Past_Hash = d /\ Past_Dashes = e
  BY DEF Past_Hash, Past_Dashes
<1> HIDE DEF d, e
<1>6. At_Hash <=> RuneAt(c.at) = "#" /\ RuneAt(c.at + 1) = "!"
  BY <1>0, <1>2, <1>5 DEF At_Hash
<1>7. ~At_Hash => d.at = c.at
  BY <1>2, <1>6
<1>8. At_Dashes <=> RuneAt(c.at) = "-" /\ RuneAt(c.at + 1) = "-"
  <2>1. CASE At_Hash
    BY <1>6, <2>1 DEF At_Dashes
  <2>2. CASE ~At_Hash
    BY <1>0, <1>4, <1>5, <1>7, <2>2 DEF At_Dashes
  <2> QED
    BY <2>1, <2>2
<1>9. e \in Cursor
  BY <1>4 DEF Placed
<1> QED
  BY <1>0, <1>1, <1>2, <1>3, <1>4, <1>5, <1>6, <1>7, <1>8, <1>9

\* The invariant behind a step that makes no token.
LEMMA Moved ==
  ASSUME IInv, UNCHANGED <<text, tokens>>, NEW c \in Cursor, cursor' = c, Placed(c),
         mode' \in {"skip", "comment"}, count' \in 0 .. 3,
         mode' = "skip" => Skipped(Behind, c),
         mode' = "comment" => Commenting(Behind, count', c)
  PROVE  IInv'
<1>1. TokensAreGood' /\ Behind' = Behind
  BY TokensStay DEF IInv
<1>2. PICK from, n : from = Behind /\ n = count'
  OBVIOUS
<1>3. Placed(c)'
  BY CursorStays
<1>4. mode' = "skip" => Skipped(from, c)'
  BY <1>2, CursorStays
<1>5. mode' = "comment" => Commenting(from, n, c)'
  BY <1>2, CursorStays
<1>6. Placed(cursor)'
  BY <1>3
<1>7. mode' = "skip" => Skipped(Behind, cursor)'
  BY <1>1, <1>2, <1>4
<1>8. mode' = "comment" => Commenting(Behind, count, cursor)'
  BY <1>1, <1>2, <1>5
<1> QED
  BY <1>1, <1>6, <1>7, <1>8 DEF IInv

\* A step that skips white space, or opens or passes a comment.
LEMMA SkipStep ==
  ASSUME IInv, Skip_Space \/ Skip_Line_Comment \/ Open_Comment
  PROVE  IInv'
<1>1. PICK c : c = cursor
  OBVIOUS
<1>2. IsText /\ c \in Cursor /\ Placed(c)
  BY <1>1, TextIs DEF IInv, Placed
<1>3. PICK from : from = Behind
  OBVIOUS
<1>4. from \in Nat
  BY <1>3, BehindIs DEF IInv
<1>5. mode = "skip"
  BY DEF Skip_Space, Skip_Line_Comment, Open_Comment
<1>6. Skipped(from, c) /\ count \in 0 .. 3
  BY <1>1, <1>3, <1>5 DEF IInv
<1>7. PICK d : d = Past_Dashes
  OBVIOUS
<1>8. PICK h : h = Past_Hash
  OBVIOUS
<1>9. /\ At_Space <=> RuneAt(c.at) \in Space
      /\ At_Hash <=> RuneAt(c.at) = "#" /\ RuneAt(c.at + 1) = "!"
      /\ At_Dashes <=> RuneAt(c.at) = "-" /\ RuneAt(c.at + 1) = "-"
      /\ h \in Cursor /\ Placed(h) /\ (At_Hash => h.at = c.at + 2)
      /\ d \in Cursor /\ Placed(d)
      /\ ~At_Hash => d.at = IF At_Dashes THEN c.at + 2 ELSE c.at
  BY <1>1, <1>2, <1>7, <1>8, LookIs
<1>a. PICK e : e = cursor'
  OBVIOUS
<1>b. CASE Skip_Space
  <2>1. /\ RuneAt(c.at) \in Space /\ e = Consume_While(c, Space)
        /\ UNCHANGED <<text, mode, count, tokens>>
    BY <1>1, <1>9, <1>a, <1>b DEF Skip_Space
  <2>2. Placed(e) /\ Skipped(from, e)
    BY <1>2, <1>4, <1>6, <2>1, SpaceIsSkipped
  <2>3. e \in Cursor
    BY <2>2 DEF Placed
  <2> QED
    BY <1>3, <1>5, <1>6, <1>a, <2>1, <2>2, <2>3, Moved
<1>c. CASE Skip_Line_Comment
  <2>1. /\ UNCHANGED <<text, mode, count, tokens>>
        /\ (At_Hash /\ e = To_Line_End(h)) \/ (At_Dashes /\ ~At_Third_Dash /\ e = To_Line_End(d))
    BY <1>7, <1>8, <1>a, <1>c DEF Skip_Line_Comment
  <2>2. ASSUME At_Hash, e = To_Line_End(h)
        PROVE  Placed(e) /\ Skipped(from, e)
    BY <1>2, <1>4, <1>6, <1>9, <2>2, LineIsSkipped
  <2>3. ASSUME At_Dashes, ~At_Third_Dash, e = To_Line_End(d)
        PROVE  Placed(e) /\ Skipped(from, e)
    <3>1. ~At_Hash /\ d.at = c.at + 2
      BY <1>9, <2>3 DEF At_Dashes
    <3>2. RuneAt(d.at) # "-"
      <4>1. {"-"} \in SUBSET Rune
        BY RunesAre
      <4>2. Peek(d) \notin {"-"}
        BY <1>7, <2>3 DEF At_Third_Dash
      <4> QED
        BY <1>2, <1>9, <4>1, <4>2, PeekIs
    <3> QED
      BY <1>2, <1>4, <1>6, <1>9, <2>3, <3>1, <3>2, LineIsSkipped
  <2>4. Placed(e) /\ Skipped(from, e)
    BY <2>1, <2>2, <2>3
  <2>5. e \in Cursor
    BY <2>4 DEF Placed
  <2> QED
    BY <1>3, <1>5, <1>6, <1>a, <2>1, <2>4, <2>5, Moved
<1>d. CASE Open_Comment
  <2>1. /\ At_Third_Dash /\ e = Opening(d) /\ mode' = "comment" /\ count' = 0
        /\ UNCHANGED <<text, tokens>>
    BY <1>7, <1>a, <1>d DEF Open_Comment
  <2>2. At_Dashes /\ ~At_Hash /\ d.at = c.at + 2
    BY <1>9, <2>1 DEF At_Third_Dash, At_Dashes
  <2>3. RuneAt(d.at) = "-"
    <3>1. {"-"} \in SUBSET Rune
      BY RunesAre
    <3>2. Peek(d) \in {"-"}
      BY <1>7, <2>1 DEF At_Third_Dash
    <3>3. RuneAt(d.at) \in {"-"}
      BY <1>2, <1>9, <3>1, <3>2, PeekIs
    <3> QED
      BY <3>3
  <2>4. Placed(e) /\ Commenting(from, 0, e)
    BY <1>2, <1>4, <1>6, <1>9, <2>1, <2>2, <2>3, CommentIsOpened
  <2>5. e \in Cursor
    BY <2>4 DEF Placed
  <2> QED
    BY <1>3, <1>a, <2>1, <2>4, <2>5, Moved
<1> QED
  BY <1>b, <1>c, <1>d

\* A step inside of a comment.
LEMMA CommentStep ==
  ASSUME IInv, In_Comment \/ Close_Comment
  PROVE  IInv'
<1>1. PICK c : c = cursor
  OBVIOUS
<1>2. IsText /\ c \in Cursor /\ Placed(c)
  BY <1>1, TextIs DEF IInv, Placed
<1>3. PICK from : from = Behind
  OBVIOUS
<1>4. from \in Nat
  BY <1>3, BehindIs DEF IInv
<1>5. PICK n : n = count
  OBVIOUS
<1>6. mode = "comment" /\ n \in 0 .. 3 /\ Commenting(from, n, c)
  BY <1>1, <1>3, <1>5 DEF IInv, In_Comment, Close_Comment
<1>7. PICK e : e = cursor'
  OBVIOUS
<1>8. CASE In_Comment
  <2>1. /\ n \in 0 .. 2 /\ e = Consume[c] /\ count' = Count(c, n)
        /\ UNCHANGED <<text, mode, tokens>>
    BY <1>1, <1>5, <1>6, <1>7, <1>8 DEF In_Comment
  <2>2. Placed(e) /\ count' \in 0 .. 3 /\ Commenting(from, count', e)
    BY <1>2, <1>4, <1>6, <2>1, CommentGoesOn
  <2>3. e \in Cursor
    BY <2>2 DEF Placed
  <2> QED
    BY <1>3, <1>6, <1>7, <2>1, <2>2, <2>3, Moved
<1>9. CASE Close_Comment
  <2>1. /\ n = 3 /\ e = Consume_While(c, {"-"}) /\ mode' = "skip" /\ count' = 0
        /\ UNCHANGED <<text, tokens>>
    BY <1>1, <1>5, <1>7, <1>9 DEF Close_Comment
  <2>2. Placed(e) /\ Skipped(from, e)
    BY <1>2, <1>4, <1>6, <2>1, CommentIsClosed
  <2>3. e \in Cursor
    BY <2>2 DEF Placed
  <2> QED
    BY <1>3, <1>7, <2>1, <2>2, <2>3, Moved
<1> QED
  BY <1>8, <1>9

\* A step that makes a token.
LEMMA TokenStep ==
  ASSUME IInv, Next_Token
  PROVE  IInv'
<1>1. PICK c : c = cursor
  OBVIOUS
<1>2. IsText /\ c \in Cursor /\ Placed(c)
  BY <1>1, TextIs DEF IInv, Placed
<1>3. PICK from : from = Behind
  OBVIOUS
<1>4. from \in Nat
  BY <1>3, BehindIs DEF IInv
<1>5. mode = "skip" /\ Skipped(from, c) /\ TokensAreGood
  BY <1>1, <1>3 DEF IInv, Next_Token
<1>6. PICK start : start = Past_Dashes
  OBVIOUS
<1>7. PICK t : t = Token(start)
  OBVIOUS
<1>8. /\ ~At_Space /\ ~At_Hash /\ ~At_Dashes /\ Peek(c) # None
      /\ IF t.type = "Error"
         THEN mode' = "error" /\ cursor' = t.cursor /\ UNCHANGED tokens
         ELSE /\ cursor' = t.cursor
              /\ tokens' = Append(tokens, [type |-> t.type, from |-> start.at,
                                           to |-> t.cursor.at - 1, location |-> start.location])
              /\ UNCHANGED mode
      /\ UNCHANGED <<text, count>>
  BY <1>1, <1>6, <1>7 DEF Next_Token
<1>9. start \in Cursor /\ Placed(start) /\ start.at = c.at
  BY <1>1, <1>2, <1>6, <1>8, LookIs
<1>10. RuneAt(c.at) \in Rune /\ c.at \in 1 .. size /\ text[c.at] = RuneAt(c.at)
  BY <1>8 DEF Peek, RuneAt, IsText, size
<1>11. Lexes(start, t)
  BY <1>2, <1>7, <1>9, <1>10, TokenIs
<1>12. PICK e : e = t.cursor
  OBVIOUS
<1>13. e \in Cursor /\ Placed(e) /\ e.at \in Nat /\ e.at <= size + 1 /\ size \in Nat
  BY <1>2, <1>11, <1>12 DEF Lexes, Placed, IsText, size
<1>14. Placed(cursor)'
  <2>1. Placed(e)'
    BY <1>8, <1>13, CursorStays
  <2> QED
    BY <1>8, <1>12, <2>1
<1>15. text' \in Sources /\ count' \in 0 .. 3
  BY <1>8 DEF IInv
<1>16. CASE t.type = "Error"
  <2>1. TokensAreGood'
    BY <1>5, <1>8, <1>16, TokensStay
  <2> QED
    BY <1>8, <1>14, <1>15, <1>16, <2>1 DEF IInv
<1>17. CASE t.type # "Error"
  <2>1. PICK made : made = Made(start, t)
    OBVIOUS
  <2>2. PICK n : n = Len(tokens)
    OBVIOUS
  <2>3. /\ made = [type |-> t.type, from |-> start.at, to |-> e.at - 1, location |-> start.location]
        /\ tokens' = Append(tokens, made) /\ mode' = mode /\ text' = text
    BY <1>8, <1>12, <1>17, <2>1 DEF Made
  <2>4. t.type \in Types /\ c.at < e.at /\ IsWhole(made)
    BY <1>9, <1>11, <1>12, <1>17, <2>1 DEF Lexes
  <2>5. made \in Token_Record
    <3>1. start.at \in Nat /\ e.at - 1 \in Nat /\ start.location \in [line : Nat, column : Nat]
      BY <1>9, <1>10, <1>13, <2>4 DEF Cursor
    <3> QED
      BY <2>3, <2>4, <3>1 DEF Token_Record
  <2>6. n \in Nat /\ tokens \in Seq(Token_Record)
    BY <1>5, <2>2, BehindIs DEF TokensAreGood
  <2>7. /\ tokens' \in Seq(Token_Record) /\ Len(tokens') = n + 1
        /\ tokens'[n + 1] = made /\ \A i \in 1 .. n : tokens'[i] = tokens[i]
    BY <2>2, <2>3, <2>5, <2>6
  <2>8. IsBlank(from, c.at - 1) /\ from <= c.at
    BY <1>5, <1>10, RunesAre DEF Skipped
  <2>9. Good(made, from - 1)
    <3>1. made.from = c.at /\ made.to = e.at - 1 /\ made.location = Place(c.at)
      BY <1>9, <2>3 DEF Placed
    <3>2. c.at \in 1 .. size /\ e.at - 1 \in 1 .. size /\ c.at <= e.at - 1
      BY <1>10, <1>13, <2>4
    <3>3. \A j \in 1 .. size : ~IsPiece(c.at, j)
      <4>1. text[c.at] \notin Space
        BY <1>1, <1>2, <1>8, <1>10, LookIs
      <4>2. /\ ~(text[c.at] = "#" /\ RuneAt(c.at + 1) = "!")
            /\ ~(text[c.at] = "-" /\ RuneAt(c.at + 1) = "-")
        BY <1>1, <1>2, <1>8, <1>10, LookIs
      <4> QED
        BY <1>2, <1>10, <4>1, <4>2, NoPiece
    <3>4. (from - 1) + 1 = from
      BY <1>4
    <3> HIDE DEF Good
    <3> QED
      BY <2>4, <2>8, <3>1, <3>2, <3>3, <3>4 DEF Good
  <2>10. ASSUME NEW i \in 1 .. n + 1
         PROVE  Good(tokens[i], To(i - 1))'
    <3>1. PICK u, b : u = tokens'[i] /\ b = To(i - 1)'
      OBVIOUS
    <3>2. CASE i = n + 1
      <4>1. u = made /\ b = from - 1
        <5>1. (n + 1) - 1 = n
          BY <2>6
        <5>2. n # 0 => n \in 1 .. n
          BY <2>6
        <5>3. To(n)' = To(n)
          BY <2>7, <5>2 DEF To
        <5>4. from = To(n) + 1
          BY <1>3, <2>2 DEF Behind
        <5>5. To(n) \in Nat
          <6>1. n # 0 => tokens[n] \in Token_Record
            BY <2>2, <2>6, <5>2
          <6> QED
            BY <6>1 DEF To, Token_Record
        <5>6. b = To(n)'
          BY <3>1, <3>2, <5>1
        <5>7. b = from - 1
          BY <5>3, <5>4, <5>5, <5>6
        <5> QED
          BY <2>7, <3>1, <3>2, <5>7
      <4>2. Good(u, b)'
        BY <2>3, <2>9, <4>1, GoodStays
      <4> QED
        BY <3>1, <4>2
    <3>3. CASE i \in 1 .. n
      <4>1. u = tokens[i] /\ b = To(i - 1)
        <5>1. i - 1 # 0 => i - 1 \in 1 .. n
          BY <2>6, <3>3
        <5>2. To(i - 1)' = To(i - 1)
          BY <2>7, <5>1 DEF To
        <5> QED
          BY <2>7, <3>1, <3>3, <5>2
      <4>2. Good(u, b)
        <5>1. i \in DOMAIN tokens
          BY <2>2, <2>6, <3>3
        <5> QED
          BY <1>5, <4>1, <5>1 DEF TokensAreGood
      <4>3. Good(u, b)'
        BY <2>3, <4>2, GoodStays
      <4> QED
        BY <3>1, <4>3
    <3> QED
      BY <2>6, <3>2, <3>3
  <2>11. TokensAreGood'
    <3>1. DOMAIN tokens' = 1 .. n + 1
      BY <2>6, <2>7
    <3>2. Token_Record' = Token_Record
      BY DEF Token_Record, Types
    <3> QED
      BY <2>7, <2>10, <3>1, <3>2 DEF TokensAreGood
  <2>12. Behind' = e.at
    <3>1. Len(tokens') = n + 1 /\ n + 1 # 0 /\ tokens'[n + 1].to = e.at - 1
      BY <2>3, <2>6, <2>7
    <3>2. To(n + 1)' = e.at - 1
      BY <3>1 DEF To
    <3>3. Behind' = To(n + 1)' + 1
      BY <3>1 DEF Behind
    <3> QED
      BY <1>13, <3>2, <3>3
  <2>13. Skipped(e.at, e)
    <3>1. e.at - 1 \in Nat /\ e.at > e.at - 1
      BY <1>10, <1>13, <2>4
    <3> QED
      BY <1>13, <3>1, NothingIsBlank DEF Skipped
  <2>14. Skipped(Behind, cursor)'
    <3>1. PICK k : k = e.at
      OBVIOUS
    <3>2. Skipped(k, e)'
      BY <2>3, <2>13, <3>1, CursorStays
    <3> QED
      BY <1>8, <1>12, <1>17, <2>12, <3>1, <3>2
  <2> QED
    BY <1>5, <1>14, <1>15, <2>3, <2>11, <2>14 DEF IInv
<1> QED
  BY <1>16, <1>17

\* The step that finds the end of the text.
LEMMA EndStep ==
  ASSUME IInv, End_Of_File
  PROVE  IInv'
<1>1. PICK c : c = cursor
  OBVIOUS
<1>2. IsText /\ c \in Cursor /\ Placed(c)
  BY <1>1, TextIs DEF IInv, Placed
<1>3. PICK from : from = Behind
  OBVIOUS
<1>4. PICK n : n = size
  OBVIOUS
<1>5. /\ mode = "skip" /\ Peek(c) = None /\ mode' = "end"
      /\ text' = text /\ cursor' = c /\ count' = count /\ tokens' = tokens
  BY <1>1 DEF End_Of_File
<1>6. Skipped(from, c) /\ TokensAreGood /\ count \in 0 .. 3 /\ text \in Sources
  BY <1>1, <1>3, <1>5 DEF IInv
<1>7. TokensAreGood' /\ Behind' = from
  BY <1>3, <1>5, <1>6, TokensStay
<1>8. Placed(cursor)'
  <2>1. Placed(c)'
    BY <1>2, <1>5, CursorStays
  <2> QED
    BY <1>5, <2>1
<1>9. ASSUME Readable
      PROVE  IsBlank(from, n)
  <2>1. c.at \notin 1 .. n
    BY <1>2, <1>4, <1>5, <1>9, RunesAre DEF Peek, Readable, IsText, size
  <2>2. c.at = n + 1 /\ n \in Nat
    BY <1>2, <1>4, <2>1 DEF Placed, IsText, size
  <2>3. RuneAt(c.at) = None
    BY <1>2, <1>4, <2>1 DEF RuneAt, IsText, size
  <2>4. c.at - 1 = n
    BY <2>2
  <2> QED
    BY <1>6, <2>3, <2>4, RunesAre DEF Skipped
<1>10. Readable' => IsBlank(from, n)'
  BY <1>5, <1>9, TextStays
<1>11. Readable' => IsBlank(Behind, size)'
  <2>1. size' = n
    BY <1>4, <1>5, TextStays
  <2> QED
    BY <1>7, <1>10, <2>1
<1> QED
  BY <1>5, <1>6, <1>7, <1>8, <1>11 DEF IInv

\* Every step keeps the invariant.
LEMMA LexerSteps ==
  ASSUME IInv, [Next]_vars
  PROVE  IInv'
<1>1. ASSUME UNCHANGED vars
      PROVE  IInv'
  <2>1. /\ text' = text /\ cursor' = cursor /\ mode' = mode /\ count' = count
        /\ tokens' = tokens
    BY <1>1 DEF vars
  <2>2. PICK c, from, n, m : c = cursor /\ from = Behind /\ n = count /\ m = size
    OBVIOUS
  <2>3. TokensAreGood' /\ Behind' = from
    BY <2>1, <2>2, TokensStay DEF IInv
  <2>4. Placed(c)' /\ (mode = "skip" => Skipped(from, c)') /\ (mode = "comment" => Commenting(from, n, c)')
    BY <2>1, <2>2, CursorStays DEF IInv
  <2>5. size' = m /\ (mode = "end" /\ Readable' => IsBlank(from, m)')
    BY <2>1, <2>2, TextStays DEF IInv
  <2>6. text \in Sources /\ mode \in {"skip", "comment", "end", "error"} /\ count \in 0 .. 3
    BY DEF IInv
  <2>7. Placed(cursor)' /\ (mode = "skip" => Skipped(Behind, cursor)')
        /\ (mode = "comment" => Commenting(Behind, count, cursor)')
        /\ (mode = "end" /\ Readable' => IsBlank(Behind, size)')
    BY <2>1, <2>2, <2>3, <2>4, <2>5
  <2> QED
    BY <2>1, <2>3, <2>6, <2>7 DEF IInv
<1> QED
  BY <1>1, SkipStep, CommentStep, TokenStep, EndStep DEF Next

\* The invariant of the lexer holds in every state.
THEOREM LexerInvariant == Spec => []IInv
BY LexerBegins, LexerSteps, PTL DEF Spec

\* Type correctness.
THEOREM LexerTypeCorrect == Spec => []TypeOK
<1>1. ASSUME IInv
      PROVE  TypeOK
  <2>1. cursor \in Cursor /\ cursor.at \in 1 .. size + 1
    BY <1>1 DEF IInv, Placed
  <2>2. cursor.rune \in {0, 1}
    BY <2>1 DEF Cursor
  <2>3. DOMAIN text = 1 .. size
    BY <1>1, TextIs DEF IInv, IsText, size
  <2>4. \A i \in DOMAIN tokens : tokens[i].from \in DOMAIN text /\ tokens[i].to \in DOMAIN text
    BY <1>1, <2>3 DEF IInv, TokensAreGood, Good
  <2> QED
    BY <1>1, <2>1, <2>2, <2>4 DEF TypeOK, IInv, size
<1> QED
  BY <1>1, LexerInvariant, PTL

\* Nothing of a source is lost and nothing is read twice.
THEOREM LexerCoversText == Spec => []TokensCoverText
<1>1. ASSUME IInv
      PROVE  TokensCoverText
  <2>1. DOMAIN text = 1 .. size
    BY <1>1, TextIs DEF IInv, IsText, size
  <2>2. ASSUME NEW i \in DOMAIN tokens
        PROVE  /\ tokens[i].from <= tokens[i].to
               /\ IsBlank(To(i - 1) + 1, tokens[i].from - 1)
               /\ \A j \in DOMAIN text : j >= tokens[i].from => ~IsPiece(tokens[i].from, j)
    BY <1>1, <2>1 DEF IInv, TokensAreGood, Good
  <2>3. mode = "end" /\ Readable => IsBlank(To(Len(tokens)) + 1, Len(text))
    BY <1>1 DEF IInv, Behind, size
  <2> QED
    BY <2>2, <2>3 DEF TokensCoverText
<1> QED
  BY <1>1, LexerInvariant, PTL

\* Every token is located where it begins.
THEOREM LexerLocatesTokens == Spec => []TokensAreLocated
<1>1. ASSUME IInv
      PROVE  TokensAreLocated
  BY <1>1 DEF IInv, TokensAreGood, Good, TokensAreLocated
<1> QED
  BY <1>1, LexerInvariant, PTL

\* Tokens are what their type says, and end where they cannot go on.
THEOREM LexerMakesWholeTokens == Spec => []TokensAreWhole
<1>1. ASSUME IInv
      PROVE  TokensAreWhole
  BY <1>1 DEF IInv, TokensAreGood, Good, TokensAreWhole
<1> QED
  BY <1>1, LexerInvariant, PTL
===============================================================================
