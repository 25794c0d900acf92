------------------------------- MODULE Numbers ---------------------------------
(***************************************************************************)
(* Number (value/number.cc): fractions of two 64-bit integers, and what a  *)
(* chain of operations makes of a literal.  Numerators and denominators    *)
(* stay far below 64 bits here; the least common multiple of denominators  *)
(* is put into an int, whose width is a parameter.                         *)
(***************************************************************************)
EXTENDS Integers, FiniteSets

CONSTANTS
  IntRange,    \* how many values an int has
  Texts,       \* numeric literals, see Text
  MaxSize      \* bound: numerators and denominators that are computed with

VARIABLES
  value        \* the number so far, as a Value holds it, or Crashed or Error

vars == <<value>>

---------------------------------------------------------------------------
(* Arithmetic of C++.                                                      *)

Abs(n) == IF n < 0 THEN -n ELSE n
Sign(n) == IF n < 0 THEN -1 ELSE 1

(* Integer division rounds towards zero; the remainder has the sign of a. *)
Quot(a, b) == Sign(a) * Sign(b) * (Abs(a) \div Abs(b))
Rem(a, b) == a - b * Quot(a, b)

Divides(d, n) == Abs(n) % d = 0

(* std::gcd and std::lcm *)
GCD(a, b) ==
  IF a = 0 \/ b = 0 THEN Abs(a) + Abs(b)
  ELSE CHOOSE d \in 1 .. Abs(b) :
         /\ Divides(d, a) /\ Divides(d, b)
         /\ \A e \in d + 1 .. Abs(b) : ~(Divides(e, a) /\ Divides(e, b))

LCM(a, b) == IF a = 0 \/ b = 0 THEN 0 ELSE Abs(a) * (Abs(b) \div GCD(a, b))

(* The conversion to int keeps the low bits. *)
ToInt(n) == ((n + IntRange \div 2) % IntRange) - IntRange \div 2

(* The loops that multiply: n times by x.                                  *)
Power(x, n) ==
  LET power[i \in Nat] == IF i = 0 THEN 1 ELSE x * power[i - 1]
  IN  power[n]

---------------------------------------------------------------------------
(* Numbers.                                                                *)

Number(num, den) == [num |-> num, den |-> den]
Fraction == [num : Int, den : Int \ {0}]
Crashed == Number(0, 0)      \* division by zero, or unimplemented()
Error == Number(1, 0)        \* errors::Arithmetic

(* "gcd(num, den) == 1" (number.hh:11), and the sign is in the numerator. *)
Lowest == {x \in [num : Int, den : Nat \ {0}] : GCD(x.num, x.den) = 1}

(* simplify_inplace *)
Simplify(x) ==
  LET d == GCD(x.num, x.den)
      sign == Sign(x.den)
  IN  IF d = 0 THEN Crashed ELSE Number(sign * Quot(x.num, d), sign * Quot(x.den, d))

Common(x, y) == ToInt(LCM(x.den, y.den))

Plus(x, y) ==
  LET c == Common(x, y)
  IN  Simplify(Number(x.num * Quot(c, x.den) + y.num * Quot(c, y.den), c))

Minus_Unscaled(x, y) ==
  Simplify(Number(x.num * Quot(Common(x, y), x.den) - y.num, Common(x, y)))
Minus(x, y) ==
  LET c == Common(x, y)
  IN  Simplify(Number(x.num * Quot(c, x.den) - y.num * Quot(c, y.den), c))

Times(x, y) == Simplify(Number(x.num * y.num, x.den * y.den))

Over(x, y) ==
  IF y.num = 0 THEN Error ELSE Simplify(Number(x.num * y.den, x.den * y.num))

(* operator<=> looks at num * rhs.den - den * rhs.num only. *)
Less(x, y) == x.num * y.den - x.den * y.num < 0
Equal(x, y) == x.num * y.den - x.den * y.num = 0

(* The loop of modular_inverse, from its locals to those it ends with. *)
Locals == [t : Int, newt : Int, r : Int, newr : Int]

Exchanged(s) ==
  LET q == Quot(s.r, s.newr)
  IN  [t |-> s.newt, newt |-> s.t - q * s.newt, r |-> s.newr, newr |-> s.r - q * s.newr]

Euclid[s \in Locals] == IF s.newr # 0 THEN Euclid[Exchanged(s)] ELSE s

NonNegative_Not(t, n) == t
NonNegative(t, n) == IF t < 0 THEN t + n ELSE t

Modulo(x, y) ==
  LET ret == Simplify(x)
      n == Simplify(y)
      e == Euclid[[t |-> 0, newt |-> 1, r |-> n.num, newr |-> ret.den]]
  IN  IF y.num = 0 \/ n.den # 1 THEN Error
      ELSE IF ret.den = 1 THEN Number(Rem(ret.num, n.num), 1)
      ELSE IF e.r > 1 THEN Error
      ELSE Number(Rem(NonNegative(e.t, n.num) * ret.num, n.num), 1)

(* impl::round, with a remainder r that is not 0 going up by mode. *)
NearestUp_TiesDown(negative, r, den) == r * 2 > den
NearestUp(negative, r, den) == IF negative THEN r * 2 <= den ELSE r * 2 >= den

RoundBy(x, mode) ==
  LET negative == (x.num < 0) # (x.den < 0)
      num == Abs(x.num)
      den == Abs(x.den)
      r == num % den
      ceil == mode = "ceil" \/ (mode = "round" /\ NearestUp(negative, r, den))
      whole == (num + (IF ceil # negative THEN den ELSE 0)) \div den
      simple == Simplify(Number(num, den))
  IN  IF den = 1 THEN Simplify(x)
      ELSE IF r # 0 THEN Number(IF negative THEN -whole ELSE whole, 1)
      ELSE Number(IF negative THEN -simple.num ELSE simple.num, simple.den)

Floor(x) == RoundBy(x, "floor")
Ceil(x) == RoundBy(x, "ceil")
Round(x) == RoundBy(x, "round")

Inverted(x) == IF x.num = 0 THEN Error ELSE Number(x.den, x.num)

(* Number::pow; a fractional exponent ends in unimplemented(). *)
Pow(x, y) ==
  LET n == Simplify(y).num
      raised == Number(Power(x.num, Abs(n)), Power(x.den, Abs(n)))
  IN  IF Simplify(y).den # 1 THEN Crashed
      ELSE IF n = 0 THEN Number(1, 1)
      ELSE IF n < 0 THEN Inverted(raised) ELSE raised

(* Number::from: a literal is a sign, an integer part, and the digits behind *)
(* the point as a number, with their count.                                *)
Text == [negative : BOOLEAN, whole : Nat, frac : Nat, digits : Nat]

FromText(t) ==
  LET num == IF t.negative THEN -t.whole ELSE t.whole
  IN  Simplify(IF t.digits = 0 THEN Number(num, 1)
               ELSE Plus(Number(num, 1), Number(Sign(num) * t.frac, Power(10, t.digits))))

(* pow10 has the powers up to 10^18, none of them a multiple of 2^32, so that *)
(* the common denominator of a literal is not 0.                           *)
Readable(t) == t \in Text /\ ToInt(Power(10, t.digits)) # 0

ASSUME NumbersAssumption ==
  /\ IntRange \in Nat /\ IntRange % 2 = 0 /\ IntRange > 0
  /\ MaxSize \in Nat
  /\ \A t \in Texts : Readable(t)

---------------------------------------------------------------------------
(* A literal, and operations with literals.                                *)

Operations == {"+", "-", "*", "/", "%", "**", "floor", "ceil", "round"}
Unary == {"floor", "ceil", "round"}

Apply(op, x, y) ==
  CASE op = "+" -> Plus(x, y)      [] op = "-" -> Minus(x, y)
    [] op = "*" -> Times(x, y)     [] op = "/" -> Over(x, y)
    [] op = "%" -> Modulo(x, y)    [] op = "**" -> Pow(x, y)
    [] op = "floor" -> Floor(x)    [] op = "ceil" -> Ceil(x)
    [] op = "round" -> Round(x)

(* A Value may hold something else than a number (Music). *)
IsNumber(x) == "num" \in DOMAIN x /\ x \notin {Crashed, Error}

(* A Value simplifies the number it is made of. *)
Stored_AsIs(x) == x
Stored(x) == IF IsNumber(x) THEN Simplify(x) ELSE x

Operand(t) == Stored(FromText(t))

Init == \E t \in Texts : value = Operand(t)

Small(x) == IsNumber(x) /\ Abs(x.num) <= MaxSize /\ Abs(x.den) <= MaxSize

(* Nothing follows an error or the end of the program. *)
Compute(op, t) ==
  /\ Small(value)
  /\ value' = Stored(Apply(op, value, Operand(t)))

Next == \E op \in Operations, t \in Texts : Compute(op, t)

Spec == Init /\ [][Next]_vars

---------------------------------------------------------------------------
(* Properties.                                                             *)

(* What n / d is, for d of either sign: q is n / d when it is in proportion. *)
Same(q, n, d) == q.den # 0 /\ q.num * d = q.den * n

(* "gcd(num, den) == 1, after any operation" (number.hh:11), and the sign is *)
(* in the numerator, except behind a power, whose inverse swaps the two; a  *)
(* Value simplifies that, so that OrderIsExact holds.  No run lists it.     *)
NormalForm ==
  Small(value) => \A op \in Operations, t \in Texts :
    LET x == Apply(op, value, Operand(t))
    IN  IsNumber(x) => GCD(x.num, x.den) = 1 /\ (x.den > 0 \/ op = "**")

(* operator<=> multiplies by denominators and is right only if both are       *)
(* positive: every number that the language can compare is so, also behind  *)
(* a negative power of a negative number.                                   *)
OrderIsExact ==
  IsNumber(value) => \A t \in Texts :
    LET y == FromText(t)
        d == value.den * y.den
    IN  /\ Less(value, y) <=> (value.num * y.den - y.num * value.den) * Sign(d) < 0
        /\ Equal(value, y) <=> Same(value, y.num, y.den)

(* The least common multiple fits an int. *)
Fits(x, y) == LCM(x.den, y.den) < IntRange \div 2

(* As long as the common denominator fits an int, sums and differences are   *)
(* exact; products and quotients are exact; and only a division by zero is  *)
(* refused.  Operands may come out of any chain of operations.              *)
ArithmeticIsExact ==
  IsNumber(value) => \A t \in Texts :
    LET x == value
        y == Operand(t)
        d == x.den * y.den
    IN  /\ Fits(x, y) => /\ Same(Plus(x, y), x.num * y.den + y.num * x.den, d)
                         /\ Same(Minus(x, y), x.num * y.den - y.num * x.den, d)
        /\ Same(Times(x, y), x.num * y.num, d)
        /\ IF y.num = 0 THEN Over(x, y) = Error
           ELSE Same(Over(x, y), x.num * y.den, x.den * y.num)

(* floor, ceil and round give the integer below, above and nearest, with a   *)
(* half going up, for numbers of either sign.  This is what the regression   *)
(* tests and the sentences on floor and ceil say; the examples beneath those *)
(* and the sentence on round say otherwise (below, and README, section 6).  *)
RoundingIsRight ==
  LET n == Sign(value.den) * value.num
      d == Abs(value.den)
  IN  IsNumber(value) =>
        /\ {Floor(value).den, Ceil(value).den, Round(value).den} = {1}
        /\ Floor(value).num * d <= n /\ n < (Floor(value).num + 1) * d
        /\ (Ceil(value).num - 1) * d < n /\ n <= Ceil(value).num * d
        /\ (2 * Round(value).num - 1) * d <= 2 * n /\ 2 * n < (2 * Round(value).num + 1) * d

(* The remainder by a positive integer n: of an integer, what division leaves *)
(* with its sign; of a fraction a / b, a solution of b * r = a modulo n,     *)
(* which is refused exactly when b has no inverse.                          *)
ModuloSolves ==
  IsNumber(value) => \A t \in Texts :
    LET x == Simplify(value)
        n == Operand(t).num
        r == Modulo(value, Operand(t))
    IN  Operand(t).den = 1 /\ n > 0 =>
          IF GCD(x.den, n) = 1
          THEN /\ r.den = 1 /\ Abs(r.num) < n
               /\ (x.den * r.num - x.num) % n = 0
               /\ r.num * x.num >= 0
          ELSE r = Error

(* Refuted (README, section 6).  "Parses source contained by token into a    *)
(* Number instance" (number.hh:53): -0.5 is read as 0.5.                   *)
LiteralsSayTheirWorth ==
  \A t \in Texts :
    Same(FromText(t), (IF t.negative THEN -1 ELSE 1) * (t.whole * Power(10, t.digits) + t.frac),
         Power(10, t.digits))

(* Refuted (README, section 6).  "zaokrągloną do najbliższej liczby          *)
(* parzystej" (builtin_functions.cc:233): of two nearest integers the even  *)
(* one.                                                                    *)
TiesGoToEven ==
  IsNumber(value) /\ Same(value, 2 * Round(value).num - 1, 2) => Round(value).num % 2 = 0

(* Refuted (README, section 6).  "ceil (4.3)" is 4 and "floor (4.3)" is 5    *)
(* (builtin_functions.cc:219-220, 228-229): between two positive integers    *)
(* ceil gives the one below, and floor the one above.                        *)
ExamplesOfCeilAndFloor ==
  IsNumber(value) /\ value.num > value.den /\ value.den > 1 =>
    Ceil(value).num * value.den < value.num /\ value.num < Floor(value).num * value.den

(* Refuted (README, section 6).  A sum is a number: an int that overflows    *)
(* ends in a division by zero, or in a wrong sum.                          *)
SumsDoNotCrash ==
  Small(value) => \A t \in Texts : Crashed \notin {Plus(value, Operand(t)), Minus(value, Operand(t))}
=============================================================================
