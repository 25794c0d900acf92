------------------------------- MODULE MCMusic --------------------------------
(***************************************************************************)
(* Instances of Music, and with it of Numbers, for TLC.                    *)
(***************************************************************************)
EXTENDS Music

T(negative, whole, frac, digits) ==
  [negative |-> negative, whole |-> whole, frac |-> frac, digits |-> digits]

(* 0, 1, 2, 3, -1, -2, 0.5, -0.5, 1.5, -1.5, and 2.25, whose hundredths overflow *)
MCTexts ==
  {T(FALSE, n, 0, 0) : n \in {0, 1, 2, 3}} \cup {T(TRUE, n, 0, 0) : n \in {1, 2}}
  \cup {T(FALSE, 0, 5, 1), T(TRUE, 0, 5, 1), T(FALSE, 1, 5, 1), T(TRUE, 1, 5, 1), T(FALSE, 2, 25, 2)}

(* 8, -8.5 *)
MCAmounts == {T(FALSE, 8, 0, 0), T(TRUE, 8, 5, 1)}

(* c flat of octave 8, e, and a pause *)
MCLiterals ==
  {[letter |-> "c", raised |-> -1, octave |-> 8],
   [letter |-> "e", raised |-> 0, octave |-> Unset], [letter |-> "p", raised |-> 0, octave |-> Unset]}

MCOctaves == {Unset, -8, 8, 9}

(* Up to two of: -8.5, (), (8, other, -8.5) and a note; and lengths behind each of two notes *)
MCCalls ==
  LET length == Number(-17, 2)
      list == List(<<Number(8, 1), Other, length>>)
      note == One(<<Note(0, 8, Unset)>>)
  IN  UNION {[1 .. n -> {length, List(<<>>), list, note}] : n \in 0 .. 2}
      \cup {<<length, note, list>>, <<list, Other, note, length>>}
=============================================================================
