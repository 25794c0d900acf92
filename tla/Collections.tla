----------------------------- MODULE Collections -------------------------------
(***************************************************************************)
(* Operators and functions on collections (builtin_operators.cc,           *)
(* builtin_functions.cc): a variable of a program, and calls that give it  *)
(* a new value.                                                            *)
(*                                                                         *)
(* Numbers are integers here, fractions being the subject of Numbers; of   *)
(* music there is none.  A block is a lazy collection: what its elements   *)
(* evaluate to stands for them.                                            *)
(***************************************************************************)
EXTENDS Integers, Sequences, SequencesExt

CONSTANTS
  UnsignedRange,  \* how many values an unsigned has, to which positions are cut
  WordRange,      \* how many values a 64-bit word has
  SieveSize,      \* upper_sieve_bound_to_yield_n_primes, from 2 up
  Operands,       \* what stands next to the variable in calls
  MaxSize,        \* bound: elements of collections that are computed with
  MaxNumber       \* bound: their numbers

ASSUME CollectionsAssumption ==
  /\ {MaxSize, MaxNumber} \subseteq Nat
  /\ UnsignedRange \in Nat /\ UnsignedRange > MaxSize
  /\ WordRange \in Nat /\ WordRange > 10

VARIABLES
  value,       \* the variable
  call         \* the call whose result it is to be assigned, or NoCall

collectionsVars == <<value, call>>

---------------------------------------------------------------------------
(* Values, and ways a call ends without one.                               *)

Num(n) == [type |-> "number", num |-> n]
Bool(b) == [type |-> "bool", is |-> b]
Nil == [type |-> "nil"]
Array(s) == [type |-> "array", elements |-> s]
Block(s) == [type |-> "block", elements |-> s]

Error(what) == [type |-> "error", what |-> what]
Unsupported == Error("Unsupported_Types_For")
Undefined == [type |-> "undefined"]     \* reads or writes outside of an array
Crashed == [type |-> "crashed"]         \* ends the program
Endless == [type |-> "endless"]         \* a loop that does not end

Final(v) == v.type \in {"undefined", "crashed", "endless"}
Bad(v) == v.type = "error" \/ Final(v)

IsNumber(v) == v.type = "number"
IsCollection(v) == v.type \in {"array", "block"}
Size(v) == Len(v.elements)

(* Try, over the results of a loop that makes an array of them. *)
Collect(results) ==
  LET bad == SelectSeq(results, Bad)
  IN  IF bad = <<>> THEN Array(results) ELSE Head(bad)

Truthy(v) ==
  CASE v.type = "bool" -> v.is
    [] v.type = "nil" -> FALSE
    [] IsNumber(v) -> v.num # 0
    [] IsCollection(v) -> v.elements # <<>>

(* flatten: one layer; deep_flat: all of them. *)
Flatten(args) ==
  FlattenSeq([i \in DOMAIN args |->
    IF IsCollection(args[i]) THEN args[i].elements ELSE <<args[i]>>])

RECURSIVE DeepFlat(_)
DeepFlat(args) ==
  FlattenSeq([i \in DOMAIN args |->
    IF IsCollection(args[i]) THEN DeepFlat(args[i].elements) ELSE <<args[i]>>])

---------------------------------------------------------------------------
(* Equality and order.                                                     *)

(* Value::operator==; a block equals nothing, not even itself. *)
RECURSIVE Equal(_, _)
Equal(x, y) ==
  /\ x.type = y.type
  /\ x.type # "block"
  /\ IF x.type = "array"
     THEN Size(x) = Size(y) /\ \A i \in 1 .. Size(x) : Equal(x.elements[i], y.elements[i])
     ELSE x = y

(* Value::operator<=>.  Arrays of which one begins the other are equivalent; *)
(* blocks compare as the functions that they are, which have no members.    *)
RECURSIVE Order(_, _)
Order(x, y) ==
  LET differ == {i \in DOMAIN x.elements \cap DOMAIN y.elements :
                   Order(x.elements[i], y.elements[i]) # "equal"}
      first == CHOOSE i \in differ : \A j \in differ : i <= j
  IN  CASE x.type # y.type -> "unordered"
        [] x.type = "array" -> IF differ = {} THEN "equal"
                               ELSE Order(x.elements[first], y.elements[first])
        [] IsNumber(x) -> IF x.num < y.num THEN "less" ELSE IF x = y THEN "equal" ELSE "greater"
        [] x.type = "bool" -> IF x = y THEN "equal" ELSE IF y.is THEN "less" ELSE "greater"
        [] OTHER -> "equal"

Less(x, y) == Order(x, y) = "less"

Comparisons == {"<", "<=", ">", ">=", "==", "!="}

Holds(op, x, y) ==
  CASE op = "<" -> Less(x, y)           [] op = "<=" -> Order(x, y) \in {"less", "equal"}
    [] op = ">" -> Less(y, x)           [] op = ">=" -> Order(x, y) \in {"greater", "equal"}
    [] op = "==" -> Equal(x, y)         [] op = "!=" -> ~Equal(x, y)

(* An element is compared with the other operand, whichever side that is on. *)
Compare(op, args) ==
  LET x == Head(args)
      y == Last(args)
      Elements(coll, Is(_)) == Array([i \in DOMAIN coll |-> Bool(Is(coll[i]))])
  IN  CASE Len(args) # 2 -> Bool(\A i \in 1 .. Len(args) - 1 : Holds(op, args[i], args[i + 1]))
        [] IsCollection(x) /\ ~IsCollection(y) -> Elements(x.elements, LAMBDA e : Holds(op, e, y))
        [] IsCollection(y) /\ ~IsCollection(x) -> Elements(y.elements, LAMBDA e : Holds(op, e, x))
        [] OTHER -> Bool(Holds(op, x, y))

---------------------------------------------------------------------------
(* Arithmetic and joins.                                                   *)

(* vectorize, and the operators that use it. *)
RECURSIVE Arithmetic(_, _, _)
Arithmetic(op, x, y) ==
  CASE IsNumber(x) /\ IsNumber(y) ->
         Num(CASE op = "+" -> x.num + y.num [] op = "-" -> x.num - y.num [] op = "*" -> x.num * y.num)
    [] IsCollection(x) /\ ~IsCollection(y) ->
         Collect([i \in 1 .. Size(x) |-> Arithmetic(op, x.elements[i], y)])
    [] IsCollection(y) /\ ~IsCollection(x) ->
         Collect([i \in 1 .. Size(y) |-> Arithmetic(op, x, y.elements[i])])
    [] OTHER -> Unsupported

(* A collection n times; room for a negative count cannot be reserved. *)
Repeat(n, coll) ==
  IF n < 0 /\ coll # <<>> THEN Crashed ELSE Array(FlattenSeq([i \in 1 .. n |-> coll]))

Multiply(x, y) ==
  CASE IsNumber(x) /\ IsCollection(y) -> Repeat(x.num, y.elements)
    [] IsNumber(y) /\ IsCollection(x) -> Repeat(y.num, x.elements)
    [] OTHER -> Arithmetic("*", x, y)

Operate(op, x, y) == IF op = "*" THEN Multiply(x, y) ELSE Arithmetic(op, x, y)

(* algo::fold *)
FoldUp(op, args) ==
  FoldLeft(LAMBDA x, y : IF Bad(x) THEN x ELSE Operate(op, x, y), Head(args), Tail(args))

Join(args) ==
  IF \A i \in DOMAIN args : IsCollection(args[i]) THEN Array(Flatten(args)) ELSE Unsupported

---------------------------------------------------------------------------
(* Elements.                                                               *)

(* Array::index lets the position that equals the size pass. *)
Index(v, position) ==
  CASE position < Size(v) -> v.elements[position + 1]
    [] v.type = "array" /\ position = Size(v) -> Undefined
    [] OTHER -> Error("Out_Of_Range")

(* A number is a position, a true boolean the position it has itself. *)
Position_FromOne(v, n) ==
  CASE IsNumber(v) -> <<v.num % UnsignedRange>> [] v = Bool(TRUE) -> <<n>> [] OTHER -> <<>>
Position(v, n) ==
  CASE IsNumber(v) -> <<v.num % UnsignedRange>> [] v = Bool(TRUE) -> <<n - 1>> [] OTHER -> <<>>

ByPositions(source, positions) ==
  LET chosen == FlattenSeq([n \in DOMAIN positions |-> Position(positions[n], n)])
  IN  Collect([i \in DOMAIN chosen |-> Index(source, chosen[i])])

Subscript(source, at) ==
  CASE ~IsCollection(source) -> Unsupported
    [] IsNumber(at) -> Index(source, at.num % UnsignedRange)
    [] at.type = "bool" -> IF at.is THEN Index(source, 0) ELSE Nil
    [] IsCollection(at) -> ByPositions(source, at.elements)
    [] OTHER -> Unsupported

(* update; nothing compares the position with the size. *)
Update(v, at, new) ==
  CASE ~(IsCollection(v) /\ IsNumber(at)) -> Unsupported
    [] at.num \in 0 .. Size(v) - 1 -> Array(ReplaceAt(v.elements, at.num + 1, new))
    [] OTHER -> Undefined

LengthOf(v) == Num(Size(v))

(* remap: what stands in `to` where v stands in `from`. *)
Remap(v, from, to) ==
  LET places == {i \in DOMAIN from : Equal(from[i], v)}
      first == CHOOSE i \in places : \A j \in places : i <= j
  IN  IF places = {} \/ to = <<>> THEN Crashed ELSE to[((first - 1) % Len(to)) + 1]

(* range, up and down *)
RangeOf(direction, start, stop, step) ==
  LET count == IF start < stop THEN (stop - start + step - 1) \div step ELSE 0
  IN  IF start < stop /\ step <= 0 THEN Endless
      ELSE Array([k \in 1 .. count |->
             Num(IF direction = "down" THEN stop - (k - 1) * step - 1 ELSE start + (k - 1) * step)])

---------------------------------------------------------------------------
(* Functions that take functions.  What they are given is an operator, or a *)
(* test whether a number is less than two.                                 *)

Test(v) == Compare("<", <<v, Num(2)>>)

ForEach(coll) ==
  LET results == Collect([i \in DOMAIN coll |-> Test(coll[i])])
  IN  IF Bad(results) THEN results ELSE IF coll = <<>> THEN Nil ELSE Last(results.elements)

Map(args) == LET xs == Flatten(args) IN Collect([i \in DOMAIN xs |-> Test(xs[i])])

Fold(op, args) == LET xs == Flatten(args) IN IF xs = <<>> THEN Nil ELSE FoldUp(op, xs)

(* Each element is combined with the result before it. *)
Scan(op, args) ==
  LET Step(sums, x) ==
        Append(sums, CASE sums = <<>> -> x
                       [] Bad(Last(sums)) -> Last(sums)
                       [] OTHER -> Operate(op, Last(sums), x))
  IN  Collect(FoldLeft(Step, <<>>, Flatten(args)))

Partition(args) ==
  LET xs == Flatten(args)
      Side(truth) == Array(SelectSeq(xs, LAMBDA x : Truthy(Test(x)) = truth))
  IN  Array(<<Side(TRUE), Side(FALSE)>>)

---------------------------------------------------------------------------
(* Rearrangements.                                                         *)

StrictWeakOrder(s) ==
  LET Equivalent(x, y) == ~Less(x, y) /\ ~Less(y, x)
  IN  \A x, y, z \in ToSet(s) :
        /\ Less(x, y) /\ Less(y, z) => Less(x, z)
        /\ Equivalent(x, y) /\ Equivalent(y, z) => Equivalent(x, z)

(* std::sort: any arrangement without inversions; without such an order of   *)
(* the elements its behaviour is undefined.                                *)
Sorts(args) ==
  LET xs == Flatten(args)
      Arranged(p) == [i \in DOMAIN xs |-> xs[p[i]]]
      Inverted(s) == \E i, j \in DOMAIN s : i < j /\ Less(s[j], s[i])
      orders == {p \in [DOMAIN xs -> DOMAIN xs] : ToSet(p) = DOMAIN xs}
  IN  IF StrictWeakOrder(xs)
      THEN {Array(s) : s \in {t \in {Arranged(p) : p \in orders} : ~Inverted(t)}}
      ELSE {Undefined}

(* std::next_permutation *)
Permute(args) ==
  LET xs == Flatten(args)
      ascents == {i \in 1 .. Len(xs) - 1 : Less(xs[i], xs[i + 1])}
      i == CHOOSE a \in ascents : \A b \in ascents : b <= a
      above == {j \in i + 1 .. Len(xs) : Less(xs[i], xs[j])}
      j == CHOOSE a \in above : \A b \in above : b <= a
      swapped == [xs EXCEPT ![i] = xs[j], ![j] = xs[i]]
  IN  Array(IF ascents = {} THEN Reverse(xs)
            ELSE SubSeq(swapped, 1, i) \o Reverse(SubSeq(swapped, i + 1, Len(xs))))

Reversed(args) == Array(Reverse(Flatten(args)))

(* std::rotate, on iterators that go backwards for a negative offset. *)
RotateLeft(s, n) == SubSeq(s, n + 1, Len(s)) \o SubSeq(s, 1, n)
Backwards_Not(s, n) == RotateLeft(s, n)
Backwards(s, n) == Reverse(RotateLeft(Reverse(s), n))

Rotate(n, args) ==
  LET xs == Flatten(args)
  IN  CASE n = 0 \/ args = <<>> -> Array(xs)
        [] n # 0 /\ args # <<>> /\ xs = <<>> -> Crashed
        [] n > 0 /\ xs # <<>> -> Array(RotateLeft(xs, n % Len(xs)))
        [] n < 0 /\ xs # <<>> -> Array(Backwards(xs, (-n) % Len(xs)))

Unique(args) ==
  LET Add(seen, x) ==
        IF \E i \in DOMAIN seen : Equal(seen[i], x) THEN seen ELSE Append(seen, x)
  IN  Array(FoldLeft(Add, <<>>, Flatten(args)))

Uniq(args) ==
  LET Add(kept, x) == IF kept # <<>> /\ Equal(Last(kept), x) THEN kept ELSE Append(kept, x)
  IN  Array(FoldLeft(Add, <<>>, Flatten(args)))

(* std::min_element and std::max_element: the first of several. *)
Minimum(args) ==
  LET xs == DeepFlat(args)
      Lesser(m, x) == IF Less(x, m) THEN x ELSE m
  IN  IF xs = <<>> THEN Nil ELSE FoldLeft(Lesser, Head(xs), Tail(xs))

Maximum(args) ==
  LET xs == DeepFlat(args)
      Greater(m, x) == IF Less(m, x) THEN x ELSE m
  IN  IF xs = <<>> THEN Nil ELSE FoldLeft(Greater, Head(xs), Tail(xs))

(* mix: rounds over the arguments until every collection was gone through.  *)
Taken_IncrementedFirst(x, n) == x.elements[((n + 1) % Size(x)) + 1]
Taken(x, n) == x.elements[(n % Size(x)) + 1]

Turn(m, x, i) ==
  LET n == m.taken[i]
  IN  CASE m.crashed -> m
        [] ~IsCollection(x) -> [m EXCEPT !.result = Append(@, x)]
        [] x.elements = <<>> -> [m EXCEPT !.crashed = TRUE]
        [] OTHER -> [m EXCEPT !.result = Append(@, Taken(x, n)), !.taken[i] = n + 1,
                              !.awaiting = IF n + 1 = Size(x) THEN @ - 1 ELSE @]

RECURSIVE Rounds(_, _)
Rounds(args, m) ==
  LET next == FoldLeft(LAMBDA n, i : Turn(n, args[i], i), m, [i \in DOMAIN args |-> i])
  IN  IF next.crashed \/ next.awaiting = 0 THEN next ELSE Rounds(args, next)

Mix(args) ==
  LET awaiting == Len(SelectSeq(args, IsCollection))
      m == Rounds(args, [result |-> <<>>, taken |-> [i \in DOMAIN args |-> 0],
                         awaiting |-> awaiting, crashed |-> FALSE])
  IN  IF m.crashed THEN Crashed ELSE Array(m.result)

---------------------------------------------------------------------------
(* Digits and primes.                                                      *)

(* The integer part is divided as an unsigned word. *)
RECURSIVE Numeral(_)
Numeral(n) == IF n < 10 THEN <<n>> ELSE Append(Numeral(n \div 10), n % 10)

(* The digits behind the point, until a remainder is zero or comes again.   *)
(* They are kept in bytes.                                                 *)
NextDigit_Rounded(num, den) == (num * 20 + den) \div (2 * den)
NextDigit(num, den) == (num * 10) \div den

RECURSIVE Behind(_, _, _)
Behind(num, den, seen) ==
  LET digit == NextDigit(num, den)
      rest == num * 10 - digit * den
      repeats == seen \cup {num}
  IN  <<digit % 256>> \o (IF rest \in repeats \cup {0} THEN <<>> ELSE Behind(rest, den, repeats))

Digits(num, den) ==
  LET whole == IF num < 0 THEN -((-num) \div den) ELSE num \div den
      rest == num - whole * den
      digits == Numeral(whole % WordRange) \o (IF rest = 0 THEN <<>> ELSE Behind(rest, den, {}))
  IN  Array([i \in DOMAIN digits |-> Num(digits[i])])

(* The sieve of Eratosthenes. *)
Crossed(size) ==
  {j \in 0 .. size - 1 : \E i \in 2 .. j : i * i < size /\ i * i <= j /\ j % i = 0}

Primes(n) ==
  LET size == SieveSize[n]
      primes == SetToSortSeq((2 .. size - 1) \ Crossed(size), LAMBDA a, b : a < b)
      first == SubSeq(primes, 1, IF n < Len(primes) THEN n ELSE Len(primes))
  IN  CASE n < 0 -> Crashed
        [] n \in {0, 1} -> Array([i \in 1 .. n |-> Num(2)])
        [] n > 1 -> Array([i \in DOMAIN first |-> Num(first[i])])

---------------------------------------------------------------------------
(* Calls with the variable and an operand.                                 *)

Small(v) ==
  \/ IsNumber(v) /\ v.num \in 0 .. MaxNumber
  \/ /\ IsCollection(v) /\ Size(v) <= MaxSize
     /\ \A i \in 1 .. Size(v) : \/ v.elements[i].type = "bool"
                                \/ IsNumber(v.elements[i]) /\ v.elements[i].num \in 0 .. MaxNumber

NoCall == [function |-> "", args |-> <<>>, result |-> Nil]

Call(function, args, outcomes) ==
  /\ call = NoCall
  /\ \E result \in outcomes : call' = [function |-> function, args |-> args, result |-> result]
  /\ UNCHANGED value

(* The variable alone, or with an operand on either side or on both. *)
Arguments ==
  {<<value>>} \cup UNION {{<<value, x>>, <<x, value>>, <<x, value, x>>} : x \in Operands}

CollectionsInit == value \in Operands /\ call = NoCall

Operator ==
  \/ \E op \in {"+", "-", "*"}, args \in Arguments : Call(op, args, {FoldUp(op, args)})
  \/ \E op \in Comparisons, args \in Arguments : Call(op, args, {Compare(op, args)})
  \/ \E args \in Arguments : Call("&", args, {Join(args)})
  \/ \E args \in Arguments : Len(args) = 2 /\ Call("[", args, {Subscript(args[1], args[2])})

(* A[A op x], and A[x op A] *)
Filter ==
  \E op \in Comparisons, x \in Operands :
    \E args \in {<<value, x>>, <<x, value>>} :
      Call("[" \o op, <<value>> \o args, {Subscript(value, Compare(op, args))})

Apply ==
  \/ IsCollection(value) /\ Call("for", <<value>>, {ForEach(value.elements)})
  \/ \E args \in Arguments :
       \/ Call("map", args, {Map(args)})
       \/ Call("partition", args, {Partition(args)})
       \/ \E op \in {"+", "-"} : \/ Call("fold", args, {Fold(op, args)})
                                 \/ Call("scan", args, {Scan(op, args)})

Rearrange ==
  \E args \in Arguments :
    \/ Call("sort", args, Sorts(args))
    \/ Call("permute", args, {Permute(args)})
    \/ Call("flat", args, {Array(Flatten(args))})
    \/ Call("reverse", args, {Reversed(args)})
    \/ Call("unique", args, {Unique(args)})
    \/ Call("uniq", args, {Uniq(args)})
    \/ Call("mix", args, {Mix(args)})
    \/ Call("min", args, {Minimum(args)})
    \/ Call("max", args, {Maximum(args)})
    \/ \E n \in -MaxNumber .. MaxNumber : Call("rotate", <<Num(n)>> \o args, {Rotate(n, args)})

Change ==
  \/ \E at \in -1 .. MaxSize, new \in Operands :
       Call("update", <<value, Num(at), new>>, {Update(value, Num(at), new)})
  \/ IsCollection(value) /\ Call("len", <<value>>, {LengthOf(value)})
  \/ \E x \in Operands, to \in {y \in Operands : IsCollection(y)} :
       /\ IsCollection(value)
       /\ Call("remap", <<x, value, to>>, {Remap(x, value.elements, to.elements)})

Make ==
  \/ \E direction \in {"up", "down"}, start, stop \in 0 .. MaxNumber, step \in -1 .. 2 :
       Call(direction, <<Num(start), Num(stop), Num(step)>>, {RangeOf(direction, start, stop, step)})
  \/ \E n \in {-1, 0, 1} \cup DOMAIN SieveSize : Call("nprimes", <<Num(n)>>, {Primes(n)})
  \/ \E num \in -2 * MaxSize .. WordRange - 1, den \in 1 .. 2 * MaxSize :
       Call("digits", <<Num(num), Num(den)>>, {Digits(num, den)})

(* The variable keeps its value when the call ends in an error. *)
Assign ==
  /\ call # NoCall /\ ~Final(call.result)
  /\ value' = IF Small(call.result) THEN call.result ELSE value
  /\ call' = NoCall

CollectionsNext == Operator \/ Filter \/ Apply \/ Rearrange \/ Change \/ Make \/ Assign

CollectionsSpec == CollectionsInit /\ [][CollectionsNext]_collectionsVars

---------------------------------------------------------------------------
(* Properties.                                                             *)

Of(v) == IF IsCollection(v) THEN v.elements ELSE <<v>>

(* rotate n moves every element n places to the front, round the end, for n  *)
(* of either sign and any size.                                            *)
RotateMovesPlaces ==
  LET n == Head(call.args).num
      old == Flatten(Tail(call.args))
  IN  call.function = "rotate" /\ old # <<>> =>
        /\ Size(call.result) = Len(old)
        /\ \A i \in DOMAIN old : call.result.elements[((i - 1 - n) % Len(old)) + 1] = old[i]

(* mix takes the next element of each argument in turn, starting an argument *)
(* again when it ends, until the longest is through.                       *)
MixTakesInTurn ==
  LET from == [i \in DOMAIN call.args |-> Of(call.args[i])]
      sizes == {Len(from[i]) : i \in DOMAIN from}
      rounds == CHOOSE n \in sizes : \A m \in sizes : m <= n
      width == Len(from)
  IN  call.function = "mix" /\ 0 \notin sizes =>
        /\ Size(call.result) = rounds * width
        /\ \A r \in 0 .. rounds - 1, i \in 1 .. width :
             call.result.elements[r * width + i] = from[i][(r % Len(from[i])) + 1]

(* A[A < 2] and its like have those elements of A for which the comparison   *)
(* holds, in their order, for numbers of either kind.                      *)
MaskSelects ==
  \A op \in Comparisons :
    /\ call.function = "[" \o op
    /\ call.args[2] = call.args[1]
    /\ IsCollection(call.args[1]) /\ ~IsCollection(call.args[3])
    => call.result = Array(SelectSeq(call.args[1].elements, LAMBDA e : Holds(op, e, call.args[3])))

(* The digits of num / den: as many as the integer part has, and those of    *)
(* long division up to the first remainder that is zero or was there.       *)
DigitsExpand ==
  LET num == call.args[1].num
      den == call.args[2].num
      remainder[k \in Nat] == IF k = 0 THEN num % den ELSE (10 * remainder[k - 1]) % den
      behind == CHOOSE k \in 0 .. den :
                  /\ remainder[k] = 0 \/ \E j \in 0 .. k - 1 : remainder[j] = remainder[k]
                  /\ \A j, m \in 0 .. k - 1 : remainder[j] # 0 /\ (j # m => remainder[j] # remainder[m])
      whole == CHOOSE k \in 1 .. num + 1 : num \div den < 10 ^ k /\ (k > 1 => num \div den >= 10 ^ (k - 1))
  IN  call.function = "digits" /\ num >= 0 =>
        call.result = Array([i \in 1 .. whole + behind |->
                  Num(IF i <= whole THEN (num \div (den * 10 ^ (whole - i))) % 10
                      ELSE (10 * remainder[i - whole - 1]) \div den)])

(* Refuted (README, section 6).  "Equavilent of                               *)
(* std::lexicographical_compare_three_way" (algo.hh:39): an array that      *)
(* begins another one is not less.                                         *)
OrderIsLexicographic ==
  \A x \in Operands :
    x.type = "array" /\ value.type = "array" /\ Order(x, value) = "equal" => Size(x) = Size(value)

(* Refuted (README, section 6).  "When user tries to get element from        *)
(* collection with index higher then collection size" (errors.hh:127): a    *)
(* position outside of an array is an error.                               *)
PositionsAreChecked ==
  call.function \in {"[", "update"} => call.result # Undefined

(* Refuted (README, section 6).  "try (nprimes -1) (say 0)" says 0            *)
(* (builtin_functions.cc:861): a call that fails is an error.  It ends the   *)
(* program, as rotate and mix of an empty array do.                        *)
FailuresAreErrors ==
  call.function \in {"nprimes", "rotate", "mix"} => call.result # Crashed

(* Refuted (README, section 6).  A comparison means the same as its mirror    *)
(* image: 2 < A is A < 2.                                                  *)
ComparisonsMirror ==
  \A x \in Operands : Compare("<", <<x, value>>) = Compare(">", <<value, x>>)
=============================================================================
