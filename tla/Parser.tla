------------------------------- MODULE Parser ----------------------------------
(***************************************************************************)
(* Parser::parse (parser/parser.cc): the tokens of a source, as the lexer  *)
(* yields them, and the tree or the error that the recursive descent makes *)
(* of them.                                                                *)
(*                                                                         *)
(* A token is its text, a member of one of the classes below.  A parse     *)
(* function takes the parser p (`at` is token_id counted from 1) and gives *)
(* a result: the tree or the error, and the parser as it is then, which    *)
(* matters after an error too, because parse_many goes on from there.      *)
(* Locations and the wording of errors are left out.                       *)
(***************************************************************************)
EXTENDS Naturals, Sequences, SequencesExt

CONSTANTS
  Alphabets    \* what sources are written with: records of tokens and a length

VARIABLES
  tokens,      \* Parser::tokens
  result       \* what parse returned: Unread until then

vars == <<tokens, result>>

---------------------------------------------------------------------------
(* Classes of tokens (Token::Type).                                        *)

Symbols == {"x", "y"}
LiteralKeywords == {"true"}
Chords == {"c"}
Literals == Symbols \cup Chords \cup {"1"} \cup LiteralKeywords
OperatorKeywords == {"and", "or"}
Operators == {":=", "=", "<", "+", "*", "**", "+="} \cup OperatorKeywords

(* precedense: compound assignments have none. *)
Precedence == [o \in Operators \ {"+="} |->
  CASE o = ":=" -> 0   [] o = "=" -> 10  [] o = "or" -> 100 [] o = "and" -> 150
    [] o = "<" -> 200  [] o = "+" -> 300 [] o = "*" -> 400  [] o = "**" -> 500]

HasPrecedence(o) == o \in DOMAIN Precedence

(* is_identifier_looking *)
IdentifierLooking == Symbols \cup Chords \cup LiteralKeywords \cup OperatorKeywords

---------------------------------------------------------------------------
(* Trees, results and the parser.                                          *)

Node(type, token, arguments) == [type |-> type, token |-> token, arguments |-> arguments]

Literal(t) == Node("literal", t, <<>>)
Sequence(trees) == Node("sequence", "", trees)
WrapIfSeveral(trees) == IF Len(trees) = 1 THEN Head(trees) ELSE Node("call", "", trees)

(* The read that parse_identifier_with_trailing_separators makes of a token *)
(* past the last one is undefined: it may end the program.                  *)
NewParser == [at |-> 1, end |-> "no"]
MayEnd(p) == [p EXCEPT !.end = IF @ = "no" THEN "maybe" ELSE @]
Ends(p) == [p EXCEPT !.end = "yes"]

Result(p, tree) == [p |-> p, tree |-> tree, error |-> "none"]
Error(p, error) == [p |-> p, tree |-> <<>>, error |-> error]
Failed(r) == r.error # "none"

Expect(p, class) == p.at <= Len(tokens) /\ tokens[p.at] \in class
AtEnd(p) == p.at > Len(tokens)
Consume(p) == [p EXCEPT !.at = @ + 1]

(* Past the separators at p. *)
Skip(p) ==
  [p EXCEPT !.at = CHOOSE i \in p.at .. Len(tokens) + 1 :
     /\ \A j \in p.at .. i - 1 : tokens[j] = ","
     /\ i <= Len(tokens) => tokens[i] # ","]

---------------------------------------------------------------------------
(* The recursive descent.                                                  *)

(* A goal is what to parse next; the parse functions and their loops are goals *)
(* of one recursive operator.                                              *)
RECURSIVE Parse(_, _)

Index == [what |-> "index"]
Expression == [what |-> "expression"]
Identifier == [what |-> "identifier"]
Indices(tree) == [what |-> "indices", tree |-> tree]
Rhs(left, operator) == [what |-> "rhs", left |-> left, operator |-> operator]
Many(goal, separated) == [what |-> "many", goal |-> goal, separated |-> separated]

(* The loop of parse_many.  It forgets the error that ends it once it has a  *)
(* tree, and keeps the tokens that the failed attempt consumed.             *)
ParseMany(many, p) ==
  LET e == Parse(many.goal, p)
      rest == Parse(many, IF many.separated THEN Skip(e.p) ELSE e.p)
  IN  IF Failed(e) THEN e
      ELSE IF many.separated /\ ~Expect(e.p, {","}) THEN Result(e.p, <<e.tree>>)
      ELSE Result(rest.p, IF Failed(rest) THEN <<e.tree>> ELSE <<e.tree>> \o rest.tree)

(* parse_many(parse_expression, Expression_Separator, Zero) *)
ParseSequence(p) ==
  LET m == Parse(Many(Expression, TRUE), Skip(p))
  IN  IF AtEnd(Skip(p)) THEN Result(Skip(p), Sequence(<<>>))
      ELSE IF Failed(m) THEN m ELSE Result(m.p, Sequence(m.tree))

(* parse_many(parse_index_expression, nullopt, One), wrapped in a call. *)
ParseCall(p) ==
  LET m == Parse(Many(Index, FALSE), p)
  IN  IF Failed(m) THEN m ELSE Result(m.p, WrapIfSeveral(m.tree))

Binary_Swapped(operator, left, right) == Node("binary", operator, <<right, left>>)
Binary(operator, left, right) == Node("binary", operator, <<left, right>>)

LeftFirst_Strictly(operator, next) == Precedence[operator] > Precedence[next]
LeftFirst(operator, next) == Precedence[operator] >= Precedence[next]

(* parse_rhs_of_infix_expression: rhs.operator has its left operand. *)
ParseRhs(rhs, p) ==
  LET right == ParseCall(p)
      next == tokens[right.p.at]
      after == Consume(right.p)
      whole == Binary(rhs.operator, rhs.left, right.tree)
      first == LeftFirst(rhs.operator, next)
      rest == Parse(Rhs(IF first THEN whole ELSE right.tree, next), after)
  IN  IF Failed(right) THEN right
      ELSE IF ~Expect(right.p, Operators) THEN Result(right.p, whole)
      ELSE IF ~HasPrecedence(rhs.operator) \/ ~HasPrecedence(next)
           THEN Error(after, "Undefined_Operator")
      ELSE IF first \/ Failed(rest) THEN rest
      ELSE Result(rest.p, Binary(rhs.operator, rhs.left, rest.tree))

ParseInfix(p) ==
  LET left == ParseCall(p)
  IN  IF Failed(left) \/ ~Expect(left.p, Operators) THEN left
      ELSE Parse(Rhs(left.tree, tokens[left.p.at]), Consume(left.p))

ParseDeclaration(p) ==
  LET value == Parse(Expression, Consume(Consume(p)))
  IN  IF Failed(value) THEN value
      ELSE Result(value.p, Node("declaration", "", <<Literal(tokens[p.at]), value.tree>>))

IsDeclaration(p) == Expect(p, Symbols) /\ Expect(Consume(p), {":="})

(* The lambda of parse_atomic_expression that looks why a block is not       *)
(* closed.  The end of the range it looks at counts `start` twice.          *)
WhyNotClosed(p, start, isLambda) ==
  LET looked == SubSeq(tokens, start, p.at - start + 1)
  IN  IF ~Expect(p, {"|"}) THEN Error(p, "Unexpected_Empty_Source")
      ELSE IF isLambda THEN Error(Ends(p), "ensure")
      ELSE IF /\ ToSet(looked) \subseteq IdentifierLooking
              /\ ~ToSet(looked) \subseteq Symbols
           THEN Error(p, "Literal_As_Identifier")
      ELSE Error(p, "Unexpected_Empty_Source")

(* parse_sequence_inside; `params` are the parameters of a lambda. *)
ParseInside(p, closing, isLambda, params, start) ==
  LET body == ParseSequence(p)
  IN  IF Failed(body) THEN body
      ELSE IF ~Expect(body.p, {closing})
           THEN IF closing = ")" THEN WhyNotClosed(body.p, start, isLambda)
                ELSE Error(body.p, "Unexpected_Empty_Source")
      ELSE Result(Consume(body.p),
             IF isLambda THEN Node("lambda", "", Append(params, body.tree))
             ELSE IF Len(body.tree.arguments) = 1 THEN Head(body.tree.arguments)
             ELSE Node("block", "", <<body.tree>>))

(* The token_id before the attempt is restored. *)
TakeBack_Nothing(p, attempt) == attempt
TakeBack(p, attempt) == [attempt EXCEPT !.at = p.at]

(* The block behind a "(": parameters are tried first and taken back when no *)
(* "|" follows them.                                                        *)
ParseBlock(p) ==
  LET tried == Parse(Many(Identifier, FALSE), p)
      bare == Expect(p, {"|"})
      named == ~bare /\ ~Failed(tried) /\ Expect(tried.p, {"|"})
      inside == CASE bare -> Consume(p)
                  [] named -> Consume(tried.p)
                  [] OTHER -> TakeBack(p, tried.p)
  IN  IF Expect(p, {")"}) THEN Result(Consume(p), Node("block", "", <<Sequence(<<>>)>>))
      ELSE ParseInside(inside, ")", bare \/ named, IF named THEN tried.tree ELSE <<>>, p.at)

ParseAtomic(p) ==
  CASE AtEnd(p) -> Error(p, "Unexpected_Empty_Source")
    [] Expect(p, OperatorKeywords) -> Error(p, "Unexpected_Keyword")
    [] Expect(p, Literals) -> Result(Consume(p), Literal(tokens[p.at]))
    [] Expect(p, {"("}) -> ParseBlock(Consume(p))
    [] Expect(p, Operators \ OperatorKeywords) -> Error(p, "Wrong_Arity_Of")
    [] OTHER -> Error(p, "Unexpected_Token")

(* The loop of parse_index_expression. *)
ParseIndices(tree, p) ==
  LET index == ParseInside(Consume(p), "]", FALSE, <<>>, p.at)
  IN  IF ~Expect(p, {"["}) THEN Result(p, tree)
      ELSE IF Failed(index) THEN index
      ELSE Parse(Indices(Binary("[", tree, index.tree)), index.p)

ParseIndex(p) ==
  LET atomic == ParseAtomic(p)
  IN  IF Failed(atomic) THEN atomic ELSE Parse(Indices(atomic.tree), atomic.p)

ParseIdentifier(p) ==
  IF Expect(p, Symbols) THEN Result(Skip(Consume(p)), Literal(tokens[p.at]))
  ELSE Error(IF AtEnd(p) THEN MayEnd(p) ELSE p, "Unexpected_Token")

Parse(goal, p) ==
  CASE goal.what = "identifier" -> ParseIdentifier(p)
    [] goal.what = "index" -> ParseIndex(p)
    [] goal.what = "indices" -> ParseIndices(goal.tree, p)
    [] goal.what = "rhs" -> ParseRhs(goal, p)
    [] goal.what = "many" -> ParseMany(goal, p)
    [] goal.what = "expression" -> IF IsDeclaration(p) THEN ParseDeclaration(p) ELSE ParseInfix(p)

---------------------------------------------------------------------------
(* Parser::parse                                                           *)

Unread == [kind |-> "unread"]
Ast(tree) == [kind |-> "ast", tree |-> tree]
Refused(error) == [kind |-> "error", error |-> error]
Exited == [kind |-> "exited"]

(* Tokens remain: all_tokens_were_not_parsed ends the program. *)
Remaining(p) ==
  IF Expect(p, {")"}) THEN Refused("Closing_Token_Without_Opening") ELSE Exited

Returned ==
  LET r == ParseSequence(NewParser)
  IN  IF r.p.end = "yes" THEN Exited
      ELSE IF Failed(r) THEN Refused(r.error)
      ELSE IF AtEnd(r.p) THEN Ast(r.tree)
      ELSE Remaining(r.p)

Outcomes ==
  {Returned} \cup (IF ParseSequence(NewParser).p.end = "maybe" THEN {Exited} ELSE {})

Init ==
  /\ tokens = <<>>
  /\ result = Unread

(* The loop over Lexer::next_token. *)
NextToken ==
  /\ result = Unread
  /\ \E a \in Alphabets :
       /\ Len(tokens) < a.length
       /\ ToSet(tokens) \subseteq a.tokens
       /\ \E t \in a.tokens : tokens' = Append(tokens, t)
  /\ UNCHANGED result

(* A character that is in no token. *)
LexError ==
  /\ result = Unread
  /\ result' = Refused("Unrecognized_Character")
  /\ UNCHANGED tokens

EndOfFile ==
  /\ result = Unread
  /\ result' \in Outcomes
  /\ UNCHANGED tokens

Next == NextToken \/ LexError \/ EndOfFile

Spec == Init /\ [][Next]_vars

---------------------------------------------------------------------------
(* Properties.                                                             *)

Errors == {"Closing_Token_Without_Opening", "Literal_As_Identifier",
           "Undefined_Operator", "Unexpected_Empty_Source", "Unexpected_Keyword",
           "Unexpected_Token", "Unrecognized_Character", "Wrong_Arity_Of"}

(* Every result is a sequence, one of the errors that parser.cc raises, or   *)
(* the end of the program.                                                 *)
TypeOK ==
  /\ tokens \in Seq(UNION {a.tokens : a \in Alphabets})
  /\ \/ result \in {Unread, Exited} \cup {Refused(e) : e \in Errors}
     \/ result.kind = "ast" /\ result.tree.type = "sequence"

(* The tokens of a tree, from left to right. *)
RECURSIVE Yield(_)
Yield(tree) ==
  LET of == [i \in DOMAIN tree.arguments |-> Yield(tree.arguments[i])]
  IN  CASE tree.type = "literal" -> <<tree.token>>
        [] tree.type = "binary" -> of[1] \o <<tree.token>> \o of[2]
        [] tree.type = "declaration" -> of[1] \o <<":=">> \o of[2]
        [] OTHER -> FlattenSeq(of)

Punctuation == {"(", ")", "]", ",", "|"}
Significant(s) == SelectSeq(s, LAMBDA t : t \notin Punctuation)

(* A tree holds tokens of the source in their order, none twice: taking back *)
(* the parameters of a block (parser.cc:298) and regrouping operators never *)
(* repeats or swaps what was read.                                         *)
TreeFollowsSource ==
  LET Find(rest, t) == IF rest # <<>> /\ Head(rest) = t THEN Tail(rest) ELSE rest
  IN  result.kind = "ast" =>
        FoldLeft(Find, Yield(result.tree), Significant(tokens)) = <<>>

(* What a source should look like: brackets that match, and neighbours that  *)
(* fit.  `before` is the token in front, separators aside.                  *)
Opening == {"(", "[", "|"}
Closing == {")", "]"}

Matches(s) ==
  LET Step(open, t) ==
        CASE t \in {"(", "["} -> Append(open, t)
          [] t \in Closing -> IF open = <<>> \/ Last(open) # (IF t = ")" THEN "(" ELSE "[")
                              THEN Append(open, "?") ELSE Front(open)
          [] OTHER -> open
  IN  FoldLeft(Step, <<>>, s) = <<>>

Before(s, i) ==
  LET J == {j \in 1 .. i - 1 : s[j] # ","}
  IN  IF J = {} THEN "start" ELSE s[CHOOSE j \in J : \A k \in J : k <= j]

(* A "|" stands behind a "(", identifiers and separators. *)
EndsParameters(s, i) ==
  \E j \in 1 .. i - 1 :
    /\ s[j] = "("
    /\ \A k \in j + 1 .. i - 1 : s[k] \in Symbols \cup {","}
    /\ s[j + 1] # ","

Fits(s, i) ==
  LET t == s[i]
      operandEnds == i > 1 /\ s[i - 1] \in Literals \cup Closing
  IN  CASE t \in Literals \cup {"("} -> TRUE
        [] t \in Operators \cup {"["} -> operandEnds
        [] t = "," -> i = 1 \/ s[i - 1] \notin Operators
        [] t = "|" -> EndsParameters(s, i)
        [] t \in Closing -> \/ Before(s, i) \in Literals \cup Closing
                            \/ t = ")" /\ s[i - 1] = "("

WellFormed(s) ==
  /\ Matches(s)
  /\ \A i \in DOMAIN s : Fits(s, i) /\ (s[i] \in Operators => HasPrecedence(s[i]))
  /\ s # <<>> => Last(s) \notin Operators

(* A source whose brackets match and whose neighbours fit is accepted, and   *)
(* nothing of it is lost: no error that parse_many forgets was behind it.   *)
WellFormedIsRead ==
  result # Unread /\ WellFormed(tokens) =>
    \/ result = Refused("Unrecognized_Character")
    \/ result.kind = "ast" /\ Yield(result.tree) = Significant(tokens)

(* Chains of operators between literals. *)
IsChain ==
  /\ Len(tokens) % 2 = 1
  /\ \A i \in DOMAIN tokens : IF i % 2 = 1 THEN tokens[i] \in Literals
                                           ELSE HasPrecedence(tokens[i])
  /\ Len(tokens) > 1 => tokens[1] \notin Symbols \/ tokens[2] # ":="

(* The tree that precedence prescribes for tokens from..to: the last of the  *)
(* operators that bind least is the root.                                  *)
RECURSIVE ByPrecedence(_, _)
ByPrecedence(from, to) ==
  LET operators == {i \in from .. to : (i - from) % 2 = 1}
      root == CHOOSE i \in operators : \A j \in operators :
                \/ Precedence[tokens[i]] < Precedence[tokens[j]]
                \/ Precedence[tokens[i]] = Precedence[tokens[j]] /\ j <= i
  IN  IF from = to THEN Literal(tokens[from])
      ELSE Binary(tokens[root], ByPrecedence(from, root - 1), ByPrecedence(root + 1, to))

(* Behind an operator that binds stronger than the one before it, there is   *)
(* one that does not bind stronger than that.                              *)
FallsBack ==
  \E i, k \in DOMAIN tokens :
    /\ i % 2 = 0 /\ k % 2 = 0 /\ i + 2 < k
    /\ Precedence[tokens[i]] < Precedence[tokens[i + 2]]
    /\ Precedence[tokens[k]] <= Precedence[tokens[i]]

(* The tree of a chain is the one that precedence prescribes exactly when it *)
(* does not fall back: `1 * 2 + 3` and `1 + 2 * 3` are, `1 - 2 * 3 - 1` is   *)
(* 1 - ((2 * 3) - 1), because parse_rhs_of_infix_expression gives the right *)
(* operand all of the rest.                                                *)
ChainsGroupByPrecedence ==
  result.kind = "ast" /\ IsChain /\ tokens # <<>> =>
    (result.tree = Sequence(<<ByPrecedence(1, Len(tokens))>>) <=> ~FallsBack)

(* A ")" that closes nothing, behind something well formed, is reported as   *)
(* such, whatever follows it: also what the parser never looks at.  No run   *)
(* lists it.                                                               *)
UnopenedParenIsReported ==
  \A i \in DOMAIN tokens :
    LET front == SubSeq(tokens, 1, i - 1)
    IN  /\ result \notin {Unread, Refused("Unrecognized_Character")}
        /\ tokens[i] = ")"
        /\ WellFormed(front)
        /\ Significant(front) # <<>>
        => result = Refused("Closing_Token_Without_Opening")

(* Refuted (README, section 6).  "Parses whole source code producing Ast or   *)
(* Error" (parser.hh:18).                                                  *)
WholeSource ==
  result.kind = "ast" => Yield(result.tree) = Significant(tokens)

(* Refuted (README, section 6).  "Order of operations"                       *)
(* (regression-tests/interpreter/arithmetic_operators.mq:29).              *)
OrderOfOperations ==
  result.kind = "ast" /\ IsChain /\ tokens # <<>> =>
    result.tree = Sequence(<<ByPrecedence(1, Len(tokens))>>)

(* Refuted (README, section 6).  Closing_Token_Without_Opening has a kind    *)
(* for "]" (errors.hh:140); a "]" that closes nothing ends the program.     *)
UnopenedIndexIsReported ==
  tokens # <<>> /\ Last(tokens) = "]" /\ WellFormed(Front(tokens)) => result # Exited

(* Refuted (README, section 6).  Errors that are "considered internal and    *)
(* should not be printed to the end user" (errors.hh:155).                 *)
InternalErrorsStayInside == result # Refused("Unexpected_Token")

(* Refuted (README, section 6).  "trying to specify parameters from things   *)
(* that cannot be parameters (like chord literals)" (parser.cc:316) is to give *)
(* Literal_As_Identifier, but behind other tokens it does not.             *)
ChordParameterIsReported ==
  tokens = <<"x", ":=", "(", "c", "|", "x", ")">> =>
    result # Refused("Unexpected_Empty_Source")

(* Refuted (README, section 6).  "+=" is among the operators that the error  *)
(* message lists (errors.cc:378), yet `x += x + x` has none of it.          *)
CompoundAssignmentIsKnown ==
  tokens = <<"x", "+=", "x", "+", "x">> => result # Refused("Undefined_Operator")
=============================================================================
