------------------------------- MODULE MCParser -------------------------------
(***************************************************************************)
(* Instances of Parser for TLC: every source of a few tokens over four     *)
(* alphabets: brackets, operators, other words, parameters of blocks.      *)
(***************************************************************************)
EXTENDS Parser

Brackets == [tokens |-> {"x", "1", "(", ")", "[", "]", "|", ",", "+"}, length |-> 6]
Chains == [tokens |-> {"1", "=", "+", "*"}, length |-> 9]
Words == [tokens |-> {"x", "c", ":=", "+=", "+", "and", "true"}, length |-> 5]
Parameters == [tokens |-> {"c", "x", ":=", "(", ")", "|"}, length |-> 7]

MCAlphabets == {Brackets, Chains, Words, Parameters}
=============================================================================
