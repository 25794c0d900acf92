-------------------------------- MODULE MCLexer --------------------------------
(***************************************************************************)
(* Instances of Lexer for TLC: every source of up to a length over runes   *)
(* that have to do with each other.                                        *)
(***************************************************************************)
EXTENDS Lexer

UpTo(S, n) == UNION {[1 .. m -> S] : m \in 0 .. n}

MCSources ==
  (* comments and what is in them *)
  UpTo({"-", "x", "newline"}, 8)
  \cup UpTo({"-", "#", "!", "newline", "return", "x"}, 5)
  (* numbers, operators and bars *)
  \cup UpTo({"-", "1", ".", "|", "=", "space"}, 5)
  \cup UpTo({"|", "-", "0", Macron, Integral, "x"}, 4)
  (* chords, symbols and keywords *)
  \cup UpTo({"c", "b", "#", "1", "x", "'"}, 5)
  \cup UpTo({"o", "r", "f", "s", ",", "(", "]"}, 4)
  (* what is no rune *)
  \cup UpTo({"x", "-", "newline", NUL, Invalid}, 5)
=============================================================================
