-------------------------------- MODULE Music ----------------------------------
(***************************************************************************)
(* Notes and chords (value/note.cc, value/chord.cc), the operators and     *)
(* functions that take them, and the numbers that these take and give: a   *)
(* variable of a program holds a number, as in Numbers, or music.          *)
(***************************************************************************)
EXTENDS Numbers, Sequences, SequencesExt

CONSTANTS
  Unset,          \* an empty std::optional
  Literals,       \* chord literals, see Literal
  Amounts,        \* what music is moved, repeated and lengthened by, see Text
  Calls,          \* argument lists of calls of a chord, see IsArgument
  MaxNotes,       \* bound: chords, and notes in them, of music that is computed with
  Octaves,        \* bound: octaves of these notes, with Unset
  MaxBase         \* bound: how far below c a base is

---------------------------------------------------------------------------
(* Notes, chords, music.                                                   *)

(* A chord is a sequence of notes.  Music is one chord, or an array of them. *)
Notes == [base : Int \cup {Unset}, octave : Int \cup {Unset}, length : Lowest \cup {Unset}]

Note(base, octave, length) == [base |-> base, octave |-> octave, length |-> length]
Pause == Note(Unset, Unset, Unset)

One(chord) == [array |-> FALSE, chords |-> <<chord>>]
Many(chords) == [array |-> TRUE, chords |-> chords]

IsMusic(x) == "chords" \in DOMAIN x

AnyMusic == {m \in [array : BOOLEAN, chords : Seq(Seq(Notes))] : m.array \/ Len(m.chords) = 1}

(* The same change of each note. *)
EachNote(m, Change(_)) ==
  [m EXCEPT !.chords = [i \in DOMAIN @ |-> [j \in DOMAIN @[i] |-> Change(@[i][j])]]]

(* Note::from: a letter, raised by so many accidentals, and an octave. *)
Letters == {"c", "d", "e", "f", "g", "a", "b"}
Literal == [letter : Letters \cup {"p"}, raised : Int, octave : 0 .. 127 \cup {Unset}]

Note_Index == [letter \in Letters |->
  CASE letter = "c" -> 0 [] letter = "d" -> 2 [] letter = "e" -> 4 [] letter = "f" -> 5
    [] letter = "g" -> 7 [] letter = "a" -> 9 [] letter = "b" -> 11]

FromLiteral(l) ==
  One(<<IF l.letter = "p" THEN Pause
        ELSE Note(Note_Index[l.letter] + l.raised, l.octave, Unset)>>)

(* Note::simplify_inplace; base / 12 rounds towards zero. *)
Clamp(n, low, high) == IF n < low THEN low ELSE IF n > high THEN high ELSE n

Simplify_Note_NoCarry(n) ==
  IF Unset \in {n.base, n.octave} THEN n ELSE [n EXCEPT !.base = @ % 12]
Simplify_Note(n) ==
  IF Unset \in {n.base, n.octave} THEN n
  ELSE [n EXCEPT !.base = @ % 12, !.octave = Clamp(@ + Quot(n.base, 12), -1, 9)]

(* Context::fill with the initial context, and what play() sends. *)
Default == [octave |-> 4, length |-> Number(1, 4)]

Fill(n) ==
  [n EXCEPT !.octave = IF @ = Unset THEN Default.octave ELSE @,
            !.length = IF @ = Unset THEN Default.length ELSE @]

Into_Midi_Note(n) == ((Fill(n).octave + 1) * 12 + n.base) % 256

---------------------------------------------------------------------------
(* Operators.                                                              *)

(* m + n, n + m, m - n, and n - m, which is m - n. *)
Transposed(n, semitones) ==
  IF n.base = Unset THEN n ELSE Simplify_Note([n EXCEPT !.base = @ + semitones])

HasBase(m) == \E i \in DOMAIN m.chords : \E j \in DOMAIN m.chords[i] : m.chords[i][j].base # Unset

Move(op, m, by) ==
  IF by.den # 1 /\ HasBase(m) THEN Crashed
  ELSE EachNote(m, LAMBDA n : Transposed(n, IF op = "up" THEN by.num ELSE -by.num))

(* m * n and n * m: the length of a vector cannot be negative. *)
Repeat(m, times) ==
  LET n == Floor(times).num
  IN  CASE n >= 0 -> Many(FlattenSeq([i \in 1 .. n |-> m.chords]))
        [] n < 0 /\ m.chords = <<>> -> m
        [] n < 0 /\ m.chords # <<>> -> Crashed

(* l & r; chords are swapped twice if the first is the smaller one. *)
Join(l, r) ==
  CASE l.array # r.array -> Error
    [] l.array /\ r.array -> Many(l.chords \o r.chords)
    [] ~l.array /\ ~r.array -> One(l.chords[1] \o r.chords[1])

---------------------------------------------------------------------------
(* A chord as a function.                                                  *)

(* Arguments are numbers as a Value holds them, chords, collections, and what *)
(* is ignored.  In a collection Other stands for everything but numbers.     *)
Other == [other |-> TRUE]
List(s) == [list |-> s]
IsArgument(x) ==
  \/ x \in Lowest \cup {Other} \cup [list : Seq(Lowest \cup {Other})]
  \/ x \in AnyMusic /\ ~x.array

ASSUME MusicAssumption ==
  /\ Unset \notin Int
  /\ Literals \subseteq Literal
  /\ \A t \in Amounts : Readable(t)
  /\ \A args \in Calls : args \in Seq(ToSet(args)) /\ \A i \in DOMAIN args : IsArgument(args[i])
  /\ {MaxNotes, MaxBase} \subseteq Nat

WithLength(chord, length) == [i \in DOMAIN chord |-> [chord[i] EXCEPT !.length = length]]

(* The chords so far go round until there is one for every length. *)
WithLengths(current, list) ==
  LET size == IF Len(current) < Len(list) THEN Len(list) ELSE Len(current)
      chord(i) == current[((i - 1) % Len(current)) + 1]
      length(i) == list[((i - 1) % Len(list)) + 1]
  IN  [i \in 1 .. size |-> IF IsNumber(length(i)) THEN WithLength(chord(i), length(i)) ELSE chord(i)]

Take_StateStays(s, x) ==
  IF s.ends # "" THEN s
  ELSE CASE IsMusic(x) -> [s EXCEPT !.array = @ \o s.current, !.current = x.chords]
         [] x = Other -> s
         [] OTHER ->
              IF s.state = "Waiting_For_Note" THEN [s EXCEPT !.ends = "error"]
              ELSE IF x = List(<<>>) THEN [s EXCEPT !.ends = "crash"]
              ELSE [s EXCEPT !.state = "Waiting_For_Note",
                             !.current = WithLengths(@, IF IsNumber(x) THEN <<x>> ELSE x.list)]
Take(s, x) ==
  IF s.ends # "" THEN s
  ELSE CASE IsMusic(x) -> [s EXCEPT !.array = @ \o s.current, !.current = x.chords,
                                    !.state = "Waiting_For_Length"]
         [] x = Other -> s
         [] OTHER ->
              IF s.state = "Waiting_For_Note" THEN [s EXCEPT !.ends = "error"]
              ELSE IF x = List(<<>>) THEN [s EXCEPT !.ends = "crash"]
              ELSE [s EXCEPT !.state = "Waiting_For_Note",
                             !.current = WithLengths(@, IF IsNumber(x) THEN <<x>> ELSE x.list)]

Call(m, args) ==
  LET s == FoldLeft(Take, [array |-> <<>>, current |-> m.chords, state |-> "Waiting_For_Length",
                           ends |-> ""], args)
      all == s.array \o s.current
  IN  CASE s.ends = "error" -> Error
        [] s.ends = "crash" -> Crashed
        [] s.ends = "" -> IF Len(all) = 1 THEN One(all[1]) ELSE Many(all)

---------------------------------------------------------------------------
(* Functions.                                                              *)

Set_Len(m, length) == EachNote(m, LAMBDA n : [n EXCEPT !.length = length])

(* Octaves are kept in an i8. *)
Set_Oct(m, octave) ==
  EachNote(m, LAMBDA n : [n EXCEPT !.octave = ((Round(octave).num + 128) % 256) - 128])

Longest_Sum(chord) ==
  FoldLeft(LAMBDA length, n : Plus(length, Fill(n).length), Number(0, 1), chord)
Longest(chord) ==
  FoldLeft(LAMBDA length, n : IF Less(length, Fill(n).length) THEN Fill(n).length ELSE length,
           Number(0, 1), chord)

(* Nothing is added when the program has ended. *)
Duration(m) ==
  FoldLeft(LAMBDA total, c : IF total = Crashed THEN total ELSE Plus(total, Longest(c)),
           Number(0, 1), m.chords)

(* create_chord leaves out pauses. *)
Make_Chord(all) ==
  LET notes == FlattenSeq(all)
  IN  One(FlattenSeq([i \in DOMAIN notes |-> IF notes[i].base = Unset THEN <<>> ELSE <<notes[i]>>]))

---------------------------------------------------------------------------
(* The variable, and what is done with it.                                 *)

Within(m) ==
  LET notes == FlattenSeq(m.chords)
  IN  /\ {Len(m.chords), Len(notes)} \subseteq 0 .. MaxNotes
      /\ \A i \in DOMAIN notes : /\ notes[i].base \in -MaxBase .. 11 \cup {Unset}
                                /\ notes[i].octave \in Octaves

Becomes(result) == value' = IF IsMusic(result) THEN result ELSE Stored(result)

MusicInit == Init \/ \E l \in Literals : value = FromLiteral(l)

WithNumber ==
  \E t \in Amounts :
    LET n == Operand(t)
    IN  \/ \E op \in {"up", "down"} : Becomes(Move(op, value, n))
        \/ Becomes(Repeat(value, n))
        \/ Becomes(Set_Len(value, n))
        \/ Becomes(Set_Oct(value, n))

WithMusic ==
  \E l \in Literals :
    LET m == FromLiteral(l)
    IN  \/ Becomes(Join(value, m))
        \/ Becomes(Make_Chord(value.chords \o m.chords))

CallChord ==
  /\ ~value.array
  /\ \E args \in Calls : Becomes(Call(value, args))

TakeDuration == Becomes(Duration(value))

(* A number and a literal: n + m, n - m, n * m. *)
NumberWithMusic ==
  \E l \in Literals :
    LET m == FromLiteral(l)
    IN  \/ \E op \in {"up", "down"} : Becomes(Move(op, m, value))
        \/ Becomes(Repeat(m, value))

MusicNext ==
  \/ IsNumber(value) /\ (Next \/ (Small(value) /\ NumberWithMusic))
  \/ IsMusic(value) /\ Within(value) /\ (WithNumber \/ WithMusic \/ CallChord \/ TakeDuration)

MusicSpec == MusicInit /\ [][MusicNext]_vars

---------------------------------------------------------------------------
(* Properties.                                                             *)

(* A number in lowest terms, the end of the program, or music: one chord, or  *)
(* an array of them.                                                       *)
TypeOK == value \in Lowest \cup {Crashed, Error} \cup AnyMusic

Chromatic(n) == 12 * n.octave + n.base

(* A note and what it becomes. *)
MovedRight(old, new, k) ==
  CASE old.base = Unset -> new = old
    [] old.base # Unset /\ old.octave = Unset -> new = [old EXCEPT !.base = @ + k]
    [] Unset \notin {old.base, old.octave} ->
         /\ new.base \in 0 .. 11 /\ (new.base - old.base - k) % 12 = 0
         /\ new.length = old.length
         /\ \/ old.base + k < 0 /\ (old.base + k) % 12 # 0
            \/ Chromatic(old) + k \notin -12 .. 9 * 12 + 11
            \/ Chromatic(new) = Chromatic(old) + k

MovesBy(m, by) ==
  \A op \in {"up", "down"} :
    LET moved == Move(op, m, by)
    IN  IF HasBase(m) /\ by.den # 1 THEN moved = Crashed
        ELSE \A i \in DOMAIN m.chords : \A j \in DOMAIN m.chords[i] :
               MovedRight(m.chords[i][j], moved.chords[i][j], IF op = "up" THEN by.num ELSE -by.num)

(* "m: music, n: number -> music moves m by n semitones"                     *)
(* (builtin_operators.cc:64): each note of each chord, whatever its octave   *)
(* and its base were.  The name of the note is right in any case, the       *)
(* octave if the move does not lead below the c of the octave, and stays    *)
(* within the octaves there are.                                           *)
MovesBySemitones ==
  /\ IsMusic(value) => \A t \in Amounts : MovesBy(value, Operand(t))
  /\ IsNumber(value) => \A l \in Literals : MovesBy(FromLiteral(l), value)

(* The chord that is called and its arguments are the items of a call.  The   *)
(* lengths of the one at place p are those before the next chord.           *)
IsLength(x) == ~IsMusic(x) /\ x # Other

LengthsOf(items, p) ==
  {q \in p + 1 .. Len(items) : IsLength(items[q]) /\ \A r \in p + 1 .. q : ~IsMusic(items[r])}

(* A chord once for each of its lengths, and once if it has none. *)
Lengthened(items, p) ==
  LET x == items[CHOOSE q \in LengthsOf(items, p) : TRUE]
      list == CASE LengthsOf(items, p) = {} -> <<Other>>
                [] LengthsOf(items, p) # {} -> IF IsNumber(x) THEN <<x>> ELSE x.list
      chord == items[p].chords[1]
      long(l) == IF l = Other THEN chord ELSE [j \in DOMAIN chord |-> [chord[j] EXCEPT !.length = l]]
  IN  IF IsMusic(items[p]) THEN [i \in DOMAIN list |-> long(list[i])] ELSE <<>>

LengthsFollow(items, result) ==
  LET all == FlattenSeq([p \in DOMAIN items |-> Lengthened(items, p)])
      twice == \E p \in DOMAIN items :
                 IsMusic(items[p]) /\ \E q, r \in LengthsOf(items, p) : q # r
  IN  \/ result = Crashed /\ \E p \in DOMAIN items : items[p] = List(<<>>)
      \/ result = Error /\ twice
      \/ ~twice /\ result = IF Len(all) = 1 THEN One(all[1]) ELSE Many(all)

(* "(note:music [duration:number])+" (chord.cc:40): every chord of a call, in *)
(* order, once, or as often as there are lengths behind it, each with its   *)
(* length; two lengths behind one chord are an error.                      *)
LengthsFollowTheirChord ==
  IsMusic(value) /\ ~value.array =>
    \A args \in Calls : LengthsFollow(<<value>> \o args, Call(value, args))

(* How long play() takes: in the order of their lengths notes are waited for *)
(* until the sum of the waits is the longest length; a chord without notes  *)
(* takes the length of the context.                                        *)
Ascending(lengths) ==
  LET orders == Surjection(DOMAIN lengths, DOMAIN lengths)
  IN  CHOOSE s \in {[i \in DOMAIN lengths |-> lengths[order[i]]] : order \in orders} :
        \A i, j \in DOMAIN lengths : i < j => ~Less(s[j], s[i])

NotNegative(x) == IF Less(x, Number(0, 1)) THEN Number(0, 1) ELSE x

Wait(s, length) ==
  IF Equal(s.max, Number(0, 1)) THEN s
  ELSE [max |-> Minus(s.max, length), time |-> Plus(s.time, NotNegative(length))]

PlayTime(chord) ==
  LET lengths == Ascending([i \in DOMAIN chord |-> Fill(chord[i]).length])
  IN  IF chord = <<>> THEN Default.length
      ELSE FoldLeft(Wait, [max |-> Last(lengths), time |-> Number(0, 1)], lengths).time

Played(m) == FoldLeft(LAMBDA total, c : Plus(total, PlayTime(c)), Number(0, 1), m.chords)

(* The lengths have a common denominator that fits an int: no sum of them    *)
(* overflows.                                                              *)
LengthsFit(m) ==
  \E d \in 1 .. IntRange \div 2 - 1 :
    /\ Divides(Default.length.den, d)
    /\ \A i \in DOMAIN m.chords : \A j \in DOMAIN m.chords[i] :
         Divides(Fill(m.chords[i][j]).length.den, d)

(* What duration says of music is never more than play() takes for it, and    *)
(* just that if the notes of each chord are of one length.                  *)
DurationIsPlayed ==
  LET even(c) == c # <<>> /\ \A i \in DOMAIN c : Equal(Fill(c[i]).length, Fill(c[1]).length)
  IN  IsMusic(value) /\ LengthsFit(value) =>
        /\ ~Less(Played(value), Duration(value))
        /\ (\A i \in DOMAIN value.chords : even(value.chords[i])) =>
             Equal(Played(value), Duration(value))

(* Refuted (README, section 6).  "(+ goes up, - goes down)"                   *)
(* (builtin_operators.cc:64): c4 - 1 is b4.                                *)
MinusGoesDown ==
  IsMusic(value) => \A t \in Amounts :
    Operand(t).num > 0 /\ Operand(t).den = 1 =>
      \A i \in DOMAIN value.chords : \A j \in DOMAIN value.chords[i] :
        LET n == value.chords[i][j]
        IN  Unset \notin {n.base, n.octave} =>
              Chromatic(Transposed(n, -Operand(t).num)) <= Chromatic(n)

(* Refuted (README, section 6).  "Octave in MIDI acceptable range (from -1 to *)
(* 9 inclusive)" (note.hh:15): neither is every octave, nor is every note    *)
(* of octave 9 one of the 128 of MIDI.                                     *)
NotesAreMidi ==
  IsMusic(value) =>
    \A i \in DOMAIN value.chords : \A j \in DOMAIN value.chords[i] :
      value.chords[i][j].base # Unset => Into_Midi_Note(value.chords[i][j]) < 128

(* Refuted (README, section 6).  "At least *this should be in this array"     *)
(* (chord.cc:109): with an empty collection behind it, it is divided by     *)
(* zero before.                                                            *)
CallsReturn ==
  IsMusic(value) /\ ~value.array =>
    \A args \in Calls : Call(value, args) # Crashed

(* Refuted (README, section 6).  A note is printed as it sounds               *)
(* (note.cc:119-126): the flat of c4 is printed as b4 and played as b3.     *)
PrintedIsPlayed ==
  IsMusic(value) =>
    \A i \in DOMAIN value.chords : \A j \in DOMAIN value.chords[i] :
      LET n == value.chords[i][j]
      IN  Unset \notin {n.base, n.octave} => Into_Midi_Note(n) = Into_Midi_Note(Simplify_Note(n))
=============================================================================
