--------------------------------- MODULE Lexer ---------------------------------
(***************************************************************************)
(* The lexer (lexer.cc): a cursor that goes over the runes of a source,    *)
(* skips blanks and comments, and makes tokens of the rest.                *)
(*                                                                         *)
(* A rune is named by a string.  One rune stands for each that the lexer   *)
(* does not tell apart: "x", "o" and "r" for letters that name no note,    *)
(* "0" and "1" for digits, and so on.                                      *)
(***************************************************************************)
EXTENDS Integers, FiniteSets, Sequences, SequencesExt

CONSTANTS
  Sources      \* the sources that are lexed: sequences of runes

---------------------------------------------------------------------------
(* Runes.                                                                  *)

Space == {"space", "newline", "return"}
Digit == {"0", "1"}
Notes_Symbols == {"c", "b", "f"}
Accidentals == {"#", "s", "f", "b"}
Valid_Operator_Chars == {"+", "-", "|", "=", ".", "!"}

(* The letter U+012B and the sign U+222B, whose last eight bits are those of  *)
(* '+'.  The sign is not part of any token.                                *)
Macron == "i-macron"
Integral == "integral"

Letter == {"c", "b", "f", "s", "x", "o", "r", Macron}
Identifier_First == Letter \cup {"'", "#"}
Identifier == Identifier_First \cup Digit

Brackets == [r \in {"(", ")", "[", "]", ","} |->
  CASE r = "(" -> "Open_Block" [] r = ")" -> "Close_Block"
    [] r = "[" -> "Open_Index" [] r = "]" -> "Close_Index"
    [] r = "," -> "Expression_Separator"]

Keywords == {<<"o", "r">>}

(* What utf8::decode does not give a rune for, and the rune 0. *)
Invalid == "invalid"
NUL == "NUL"

Rune ==
  Space \cup Identifier \cup Valid_Operator_Chars \cup DOMAIN Brackets \cup {Integral}

(* peek() at the end, at NUL and at what is invalid. *)
None == "none"

ASSUME LexerAssumption == \A s \in Sources : s \in Seq(Rune \cup {Invalid, NUL})

---------------------------------------------------------------------------

VARIABLES
  text,        \* the source
  cursor,      \* where the lexer is in it, see Begin
  mode,        \* "skip", "comment", "end" or "error"
  count,       \* of dashes that may end the comment
  tokens       \* the tokens so far

vars == <<text, cursor, mode, count, tokens>>

(* Locations and cursors: at is the index of the next rune; before and rune   *)
(* are prev_location and last_rune_length, counted in runes.               *)
Location(line, column) == [line |-> line, column |-> column]
Cursor == [at : Nat, location : [line : Nat, column : Nat], rune : 0 .. 1,
           before : [line : Nat, column : Nat]]
Begin == [at |-> 1, location |-> Location(1, 1), before |-> Location(1, 1), rune |-> 0]

(* Location::advance *)
Advance(l, rune) ==
  CASE rune = "newline" -> Location(l.line + 1, 1)
    [] rune = "return" -> Location(l.line, 1)
    [] OTHER -> Location(l.line, l.column + 1)

Peek(c) == IF c.at \in DOMAIN text /\ text[c.at] \in Rune THEN text[c.at] ELSE None

(* consume() goes over a NUL, but not over what is invalid. *)
Consume[c \in Cursor] ==
  IF c.at \in DOMAIN text /\ text[c.at] # Invalid
  THEN [at |-> c.at + 1, location |-> Advance(c.location, text[c.at]),
        before |-> c.location, rune |-> 1]
  ELSE [c EXCEPT !.before = c.location]

Rewind_Cursor(c) == [c EXCEPT !.at = c.at - c.rune, !.rune = 0]
Rewind(c) == [c EXCEPT !.at = c.at - c.rune, !.location = c.before, !.rune = 0]

Consume_If(c, test) == IF Peek(c) \in test THEN Consume[c] ELSE c

(* Two runes, or none. *)
Consume_Two(c, first, second) ==
  LET two[d \in Cursor] ==
        CASE Peek(d) \notin first -> d
          [] Peek(d) \in first /\ Peek(Consume[d]) \in second -> Consume[Consume[d]]
          [] OTHER -> Rewind(Consume[d])
  IN  two[c]

Consume_While(c, test) ==
  LET loop[d \in Cursor] == IF Peek(d) \in test THEN loop[Consume[d]] ELSE d
  IN  loop[c]

---------------------------------------------------------------------------
(* skip_whitespace_and_comments                                            *)

Init ==
  /\ text \in Sources
  /\ cursor = Begin
  /\ mode = "skip"
  /\ count = 0
  /\ tokens = <<>>

To_Line_End(c) == Consume_While(c, Rune \ {"newline"})

Past_Hash == Consume_Two(cursor, {"#"}, {"!"})
Past_Dashes == Consume_Two(Consume_Two(cursor, {"#"}, {"!"}), {"-"}, {"-"})

At_Space == Peek(cursor) \in Space
At_Hash == Past_Hash.at > cursor.at
At_Dashes == ~At_Hash /\ Past_Dashes.at > cursor.at
At_Third_Dash == At_Dashes /\ Peek(Past_Dashes) = "-"

Skip_Space ==
  /\ mode = "skip" /\ At_Space
  /\ cursor' = Consume_While(cursor, Space)
  /\ UNCHANGED <<text, mode, count, tokens>>

Skip_Line_Comment ==
  /\ mode = "skip"
  /\ \/ At_Hash /\ cursor' = To_Line_End(Past_Hash)
     \/ At_Dashes /\ ~At_Third_Dash /\ cursor' = To_Line_End(Past_Dashes)
  /\ UNCHANGED <<text, mode, count, tokens>>

(* All the dashes at the beginning are part of it. *)
Opening_ThreeOnly(c) == Consume[c]
Opening(c) == Consume_While(c, {"-"})

Open_Comment ==
  /\ mode = "skip" /\ At_Third_Dash
  /\ cursor' = Opening(Past_Dashes)
  /\ mode' = "comment" /\ count' = 0
  /\ UNCHANGED <<text, tokens>>

(* The loop consumes nothing at the end, and goes on. *)
Count_One(c, n) == IF Peek(c) = "-" THEN 1 ELSE 0
Count(c, n) == IF Peek(c) = "-" THEN n + 1 ELSE 0

In_Comment ==
  /\ mode = "comment" /\ count < 3
  /\ cursor' = Consume[cursor]
  /\ count' = Count(cursor, count)
  /\ UNCHANGED <<text, mode, tokens>>

Close_Comment ==
  /\ mode = "comment" /\ count = 3
  /\ cursor' = Consume_While(cursor, {"-"})
  /\ mode' = "skip" /\ count' = 0
  /\ UNCHANGED <<text, tokens>>

---------------------------------------------------------------------------
(* next_token                                                              *)

Lexed(type, c) == [type |-> type, cursor |-> c]

(* A point is part of a number if a digit follows. *)
Fraction_KeepsPoint(c) ==
  IF Peek(c) # "." THEN c ELSE Consume_While(Consume[c], Digit)
Fraction(c) ==
  LET point == Consume[c]
      digits == Consume_While(point, Digit)
  IN  IF Peek(c) # "." THEN c ELSE IF digits.at = point.at THEN Rewind(point) ELSE digits

Numeric(c) == Lexed("Numeric", Fraction(Consume_While(c, Digit)))

Source(from, to) == SubSeq(text, from, to - 1)

Symbol(from, c) ==
  LET end == Consume_While(c, Identifier)
  IN  Lexed(IF Source(from, end.at) \in Keywords THEN "Keyword" ELSE "Symbol", end)

(* A note letter begins a chord, or a symbol if letters follow. *)
Chord_Or_Symbol(from, c) ==
  LET chord == Consume_While(Consume_While(Consume[c], Accidentals), Digit)
  IN  IF Peek(chord) \in Identifier THEN Symbol(from, chord) ELSE Lexed("Chord", chord)

Quoted(c) == Lexed("Symbol", Consume_While(Consume[c], Identifier \cup Valid_Operator_Chars))

Operator(c) == Lexed("Operator", Consume_While(c, Valid_Operator_Chars))

(* A bar is a token, unless an operator other than = goes on with it; find()   *)
(* takes the last eight bits of a rune.                                    *)
Is_Separator(c) ==
  LET next == Peek(Consume[c])
  IN  Peek(c) = "|" /\ (next \notin Valid_Operator_Chars \cup {Macron, Integral} \/ next = "=")

Token(start) ==
  LET c == Consume_If(start, {"|"})
      number == IF Peek(c) \in Digit THEN Consume[c] ELSE Consume_Two(c, {"-"}, Digit)
      next == Peek(c)
  IN  CASE Peek(start) \in DOMAIN Brackets -> Lexed(Brackets[Peek(start)], Consume[start])
        [] Is_Separator(start) -> Lexed("Parameter_Separator", c)
        [] OTHER ->
             IF number.at > c.at THEN Numeric(number)
             ELSE CASE next \in Notes_Symbols -> Chord_Or_Symbol(start.at, number)
                    [] next = "'" -> Quoted(number)
                    [] next \in Identifier_First \ (Notes_Symbols \cup {"'"}) -> Symbol(start.at, Consume[number])
                    [] next \in Valid_Operator_Chars -> Operator(number)
                    [] OTHER -> Lexed("Error", number)

(* Where tokens begin: neither space nor comment. *)
Next_Token ==
  /\ mode = "skip" /\ ~At_Space /\ ~At_Hash /\ ~At_Dashes
  /\ Peek(cursor) # None
  /\ \E start \in {Past_Dashes} : \E token \in {Token(start)} :
         IF token.type = "Error"
         THEN mode' = "error" /\ cursor' = token.cursor /\ UNCHANGED tokens
         ELSE /\ cursor' = token.cursor
              /\ tokens' = Append(tokens, [type |-> token.type, from |-> start.at,
                                           to |-> token.cursor.at - 1, location |-> start.location])
              /\ UNCHANGED mode
  /\ UNCHANGED <<text, count>>

End_Of_File ==
  /\ mode = "skip" /\ Peek(cursor) = None
  /\ mode' = "end"
  /\ UNCHANGED <<text, cursor, count, tokens>>

Next ==
  \/ Skip_Space \/ Skip_Line_Comment
  \/ Open_Comment \/ In_Comment \/ Close_Comment
  \/ Next_Token \/ End_Of_File

Spec == Init /\ [][Next]_vars

(* A lexer is called until it is through. *)
FairSpec == Spec /\ WF_vars(Next)

---------------------------------------------------------------------------
(* Properties.                                                             *)

TypeOK ==
  /\ text \in Sources
  /\ cursor.at \in 1 .. Len(text) + 1 /\ cursor.rune \in {0, 1}
  /\ mode \in {"skip", "comment", "end", "error"}
  /\ count \in 0 .. 3
  /\ \A i \in DOMAIN tokens : tokens[i].from \in DOMAIN text /\ tokens[i].to \in DOMAIN text

(* Blanks as the comments in the code (lexer.cc:27-30) define them: white     *)
(* space, single line comments to the end of their line, and comments that  *)
(* begin and end with at least three dashes.                               *)
All(i, j, runes) == \A k \in i .. j : text[k] \in runes
ThreeDashes(i) == i + 2 \in DOMAIN text /\ All(i, i + 2, {"-"})
RuneAt(i) == IF i \in DOMAIN text THEN text[i] ELSE None

IsLineComment(i, j) ==
  /\ j > i /\ All(i, j, Rune \ {"newline"}) /\ RuneAt(j + 1) \in {"newline", None}
  /\ (text[i] = "#" /\ text[i + 1] = "!") \/ (All(i, i + 1, {"-"}) /\ ~ThreeDashes(i))

IsLongComment(i, j) ==
  \E open \in i + 2 .. j, close \in i + 4 .. j :
    /\ All(i, open, {"-"}) /\ RuneAt(open + 1) # "-"
    /\ close > open + 1 /\ close + 2 <= j
    /\ All(close, j, {"-"}) /\ RuneAt(close - 1) # "-" /\ RuneAt(j + 1) # "-"
    /\ \A k \in open + 1 .. close - 1 : ~ThreeDashes(k)

IsPiece(i, j) ==
  (i = j /\ text[i] \in Space) \/ IsLineComment(i, j) \/ IsLongComment(i, j)

IsBlank(i, j) ==
  LET blank[k \in Nat] == k > j \/ \E n \in k .. j : IsPiece(k, n) /\ blank[n + 1]
  IN  blank[i]

Readable == \A i \in DOMAIN text : text[i] \in Rune

(* Nothing is lost and nothing is read twice: what stands between tokens, and *)
(* behind the last one when the lexer ends, is blank, and no token begins   *)
(* with a comment or inside one.                                           *)
To(i) == IF i = 0 THEN 0 ELSE tokens[i].to

TokensCoverText ==
  /\ \A i \in DOMAIN tokens :
       /\ tokens[i].from <= tokens[i].to
       /\ IsBlank(To(i - 1) + 1, tokens[i].from - 1)
       /\ \A j \in DOMAIN text : j >= tokens[i].from => ~IsPiece(tokens[i].from, j)
  /\ mode = "end" /\ Readable => IsBlank(To(Len(tokens)) + 1, Len(text))

(* Where rune i is: lines and columns counted from 1, the column from the last *)
(* newline or carriage return.                                             *)
Lines(i) == {k \in 1 .. i - 1 : text[k] = "newline"}
LineStart(i) ==
  CHOOSE k \in 0 .. i - 1 : /\ k = 0 \/ text[k] \in {"newline", "return"}
                           /\ \A j \in k + 1 .. i - 1 : text[j] \notin {"newline", "return"}
Place(i) == Location(1 + Cardinality(Lines(i)), i - LineStart(i))

(* "Location of the start of a token" (lexer.hh:33), also behind runes that   *)
(* were consumed and given back.                                           *)
TokensAreLocated == \A i \in DOMAIN tokens : tokens[i].location = Place(tokens[i].from)

(* Runes i..j are: digits with an optional sign and fraction; a note letter   *)
(* with accidentals and an octave.                                         *)
Digits(i, j) == i <= j /\ All(i, j, Digit)
IsNumeric(i, j) ==
  LET from == IF text[i] = "-" THEN i + 1 ELSE i
  IN  \/ Digits(from, j)
      \/ \E k \in from .. j : Digits(from, k - 1) /\ text[k] = "." /\ Digits(k + 1, j)
IsChord(i, j) ==
  /\ text[i] \in Notes_Symbols
  /\ \E k \in i .. j : All(i + 1, k, Accidentals) /\ All(k + 1, j, Digit)

IsWhole(t) ==
  LET next == RuneAt(t.to + 1)
      bare == t.from = t.to
  IN  CASE t.type = "Numeric" ->
             text[t.from] # "|" => /\ IsNumeric(t.from, t.to) /\ next \notin Digit
                                   /\ next = "." => \/ RuneAt(t.to + 2) \notin Digit
                                                    \/ \E k \in t.from .. t.to : text[k] = "."
        [] t.type = "Chord" -> IsChord(t.from, t.to) /\ next \notin Identifier
        [] t.type \in {"Symbol", "Keyword"} -> next \notin Identifier
        [] t.type = "Operator" ->
             All(t.from, t.to, Valid_Operator_Chars) /\ next \notin Valid_Operator_Chars
        [] t.type = "Parameter_Separator" ->
             bare /\ text[t.from] = "|" /\ next \notin Valid_Operator_Chars \ {"="}
        [] OTHER -> bare /\ text[t.from] \in DOMAIN Brackets

(* Literals are what Number::from and Note::from rely on ("Parser must have   *)
(* failed in recognizing what is considered a valid note token", note.cc:69) *)
(* and no token ends where it could go on, except numbers behind a bar.     *)
TokensAreWhole == \A n \in DOMAIN tokens : IsWhole(tokens[n])

(* A source without comments of dashes, and one of blanks and comments that   *)
(* are all closed, is lexed to its end.                                    *)
ClosedSourcesEnd ==
  (\A i \in DOMAIN text : ~ThreeDashes(i)) \/ (Readable /\ IsBlank(1, Len(text)))
    => <>(mode \in {"end", "error"})

(* Refuted (README, section 6).  "Try to tokenize next token" (lexer.hh:44):  *)
(* a comment that is not closed is read for ever.                          *)
SourcesEnd == <>(mode \in {"end", "error"})

(* Refuted (README, section 6).  "They may have following forms: 0, 0.1"      *)
(* (lexer.cc:107): |-1 is one number.                                      *)
NumbersAreNumeric ==
  \A n \in DOMAIN tokens : tokens[n].type = "Numeric" => IsNumeric(tokens[n].from, tokens[n].to)

(* Refuted (README, section 6).  "turns it into list of tokens" (lexer.hh:12): *)
(* what follows an invalid character, or a NUL, is left out without notice. *)
WholeTextIsRead == mode = "end" => cursor.at = Len(text) + 1

(* Refuted (README, section 6).  "If next char is operator, then this          *)
(* character is part of operator sequence" (lexer.cc:99): a letter whose    *)
(* last eight bits are those of an operator makes a symbol with the bar.    *)
SymbolsHaveNoBars ==
  \A n \in DOMAIN tokens : tokens[n].type = "Symbol" => text[tokens[n].from] # "|"
=============================================================================
