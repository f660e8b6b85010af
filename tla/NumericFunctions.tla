--------------------------- MODULE NumericFunctions ---------------------------
(***************************************************************************)
(* The functions on numbers: rounding, the numerals of fn:format-integer,  *)
(* and the random number generator.                                        *)
(*                                                                         *)
(* A numeral is a text whose parts are the writing system, the sign and    *)
(* the symbols; a symbol is its number in its alphabet, or what it counts. *)
(***************************************************************************)
EXTENDS CollectionFunctions

CONSTANTS
  WordBits,                 \* the width of the bitwise operators of JavaScript
  Multiplier, Modulus       \* of the random number generator

ASSUME RandomAssumption == {WordBits, Multiplier, Modulus} \subseteq Nat \ {0}

(***************************************************************************)
(* Rounding.  The type of the result is the first of four that the type of *)
(* the argument is below; xs:numeric counts as being below all of them.    *)
(***************************************************************************)
NumericType(type, types) == types[Min({i \in DOMAIN types : isSubtypeOf(type, types[i])})]
createValidNumericType(type, x) ==
  Value(NumericType(type, <<"xs:integer", "xs:float", "xs:double", "xs:decimal">>), x)

\* A number of halves that is not finite stays what it is.
OfHalves(x, F(_)) == IF IsFinite(x) THEN Number(F(x.n)) ELSE x
MapNumbers(seq, F(_)) ==
  Ok([i \in DOMAIN seq |-> createValidNumericType(seq[i].type, OfHalves(seq[i].value, F))])

fnAbs(seq) ==
  Ok([i \in DOMAIN seq |->
        createValidNumericType(seq[i].type, IF seq[i].value = MinusINF THEN INF
                                            ELSE OfHalves(seq[i].value, Magnitude))])
fnCeiling(seq) == MapNumbers(seq, LAMBDA n : -(2 * ((-n) \div 2)))
fnFloor(seq) == MapNumbers(seq, LAMBDA n : 2 * (n \div 2))

isHalf(n, unit) == (2 * n) % unit = 0
getNumberOfDecimalDigits(n) == n % 2

\* Mutant: a half is always rounded up.
RoundedUp(n, halfToEven, unit) == ((2 * n + unit) \div (2 * unit)) * unit

\* To a multiple of a unit of so many halves.
determineRoundedNumber(n, halfToEven, unit) ==
  LET floor == n \div unit
  IN IF halfToEven /\ isHalf(n, unit)
     THEN (IF floor % 2 = 0 THEN floor ELSE -((-n) \div unit)) * unit
     ELSE ((2 * n + unit) \div (2 * unit)) * unit

\* A precision beyond the digits there are changes nothing; halves have one digit.
RoundedTo(digits, halfToEven, type, decimal) ==
  IF ~IsOk(decimal) THEN decimal
  ELSE Ok(<<Value(NumericType(type, <<"xs:integer", "xs:decimal", "xs:double", "xs:float">>),
                  IF digits = 1 THEN decimal.value.value
                  ELSE Number(determineRoundedNumber(decimal.value.value.n, halfToEven, 2 * 10 ^ (-digits))))>>)
fnRound(halfToEven, seq, precision) ==
  IF seq = <<>> THEN Ok(<<>>)
  ELSE LET item == seq[1]
           digits == IF precision = <<>> THEN 0 ELSE ToInt(precision[1])
           isReal == isSubtypeOf(item.type, "xs:float") \/ isSubtypeOf(item.type, "xs:double")
       IN IF isReal /\ item.value \in {Number(0), NaN, INF, MinusINF} THEN Ok(<<item>>)
          ELSE IF getNumberOfDecimalDigits(item.value.n) < digits THEN Ok(<<item>>)
          ELSE RoundedTo(digits, halfToEven, item.type, castToType(item, "xs:decimal"))

NumberOrNaN(result) ==
  CASE IsOk(result) -> Ok(<<result.value>>)
    [] DOMAIN result = {"throws"} -> result
    [] OTHER -> Ok(<<Value("xs:double", NaN)>>)
NumberOf(atoms) ==
  CASE ~IsOk(atoms)            -> atoms
    [] atoms.value = <<>>      -> Ok(<<Value("xs:double", NaN)>>)
    [] Len(atoms.value) > 1    -> Throws("one value")
    [] OTHER -> NumberOrNaN(tryCastToType(atoms.value[1], "xs:double"))
fnNumber(seq) == NumberOf(atomize(seq))

(***************************************************************************)
(* Numerals.                                                               *)
(***************************************************************************)
Repeated(symbol, n) == [i \in 1 .. n |-> symbol]

\* As many of every symbol as there still is, from the largest down.
Additive(table, n) ==
  FoldLeft(LAMBDA s, value : [left |-> s.left % value,
                              out |-> s.out \o Repeated(value, s.left \div value)],
           [left |-> n, out |-> <<>>], table).out

ROMAN_NUMBERS == <<1000, 900, 500, 400, 100, 90, 50, 40, 10, 9, 5, 4, 1>>
DECIMAL_TO_ARABIC_ABJAD_NUMBER_TABLE ==
  [i \in 1 .. 28 |-> IF i = 1 THEN 1000 ELSE IF i < 11 THEN (11 - i) * 100
                     ELSE IF i < 20 THEN (20 - i) * 10 ELSE 29 - i]
DECIMAL_TO_HEBREW_ALEFBET_NUMBER_TABLE ==
  [i \in 1 .. 22 |-> IF i < 5 THEN (5 - i) * 100 ELSE IF i < 14 THEN (14 - i) * 10 ELSE 23 - i]

convertIntegerToRoman(n) == Additive(ROMAN_NUMBERS, n)

\* The bitwise or of JavaScript, which wraps around.
ToWord(n) == ((n + 2 ^ (WordBits - 1)) % 2 ^ WordBits) - 2 ^ (WordBits - 1)

\* Twenty-six digits without a zero.
RECURSIVE convertIntegerToAlphabet(_)
convertIntegerToAlphabet(n) ==
  IF n <= 0 THEN <<>>
  ELSE LET digit == (n - 1) % 26
       IN Append(convertIntegerToAlphabet(ToWord((n - digit) \div 26)), digit)

\* An alphabet without the characters that are to be skipped.
getUnicodeSubset(first, count, skip) ==
  SelectSeq([i \in 1 .. count |-> first + i - 1], LAMBDA c : c \notin skip)
HEBREW_ALPHABET_UNICODE == getUnicodeSubset(1488, 27, {1498, 1501, 1503, 1507, 1509})
ARABIC_ALPHABET_UNICODE ==
  getUnicodeSubset(1575, 36, {1577, 1595, 1596, 1597, 1598, 1599, 1600, 1609})

\* The same, for a range of characters: Greek has one that is skipped.
RECURSIVE formatAsNumberInUnicodeRange(_, _, _, _)
formatAsNumberInUnicodeRange(n, first, count, skip) ==
  IF n = 0 THEN <<>>
  ELSE LET size == count - Len(skip)
           code == FoldLeft(LAMBDA c, skipped : IF c >= skipped THEN c + 1 ELSE c,
                            first + ((n - 1) % size), skip)
       IN Append(formatAsNumberInUnicodeRange((n - 1) \div size, first, count, skip), code)

\* When the alphabet is used up its last letter is put in front, or the letter
\* itself is repeated.
convertIntegerToHebrewAlefBet(n) ==
  LET size == Len(HEBREW_ALPHABET_UNICODE)
  IN Append(Repeated(1514, (n - 1) \div size), HEBREW_ALPHABET_UNICODE[((n - 1) % size) + 1])
RepeatedLetter(n, alphabet) ==
  Repeated(alphabet[((n - 1) % Len(alphabet)) + 1], (n - 1) \div Len(alphabet) + 1)
ARABIC_ABJADI_ALPHABET == [i \in 1 .. 28 |-> i]
convertIntegerToArabicAlifBaTa(n) == RepeatedLetter(n, ARABIC_ALPHABET_UNICODE)
convertIntegerToArabicAbjadi(n) == RepeatedLetter(n, ARABIC_ABJADI_ALPHABET)

\* The thousands are multiplied by the sign for one thousand.
convertIntegerToAbjadNumeral(n) ==
  LET table == DECIMAL_TO_ARABIC_ABJAD_NUMBER_TABLE
      thousands == n \div 1000
  IN (IF thousands > 1 THEN Additive(table, thousands) ELSE <<>>)
     \o Repeated(1000, Min({thousands, 1})) \o Additive(table, (n % 1000))

\* Fifteen and sixteen are nine and six, and nine and seven.
convertIntegerToHebrewNumeral(n) ==
  LET parts == Repeated(400, n \div 400) \o Additive(DECIMAL_TO_HEBREW_ALEFBET_NUMBER_TABLE, (n % 400))
      front == SubSeq(parts, 1, Len(parts) - 2)
      end == SubSeq(parts, Max({1, Len(parts) - 1}), Len(parts))
  IN CASE end = <<10, 5>> -> front \o <<9, 6>>
       [] end = <<10, 6>> -> front \o <<9, 7>>
       [] OTHER           -> parts

\* The systems written with symbols; the others are digits by position.
integerConverters ==
  {"A", "a", "I", "i", "lowerGreek", "upperGreek", "arabicAbjadi", "arabicAbjadNumeral",
   "arabicAlifBaTa", "hebrewAlefBet", "hebrewNumeral", "arabicIndicNumeral", "persianNumeral"}
IsPositional(picture) == picture \in {"arabicIndicNumeral", "persianNumeral"}

Symbols(picture, n) ==
  CASE picture \in {"A", "a"}           -> convertIntegerToAlphabet(n)
    [] picture \in {"I", "i"}           -> convertIntegerToRoman(n)
    [] picture = "lowerGreek"           -> formatAsNumberInUnicodeRange(n, 945, 25, <<962>>)
    [] picture = "upperGreek"           -> formatAsNumberInUnicodeRange(n, 913, 25, <<930>>)
    [] picture = "arabicAbjadi"         -> convertIntegerToArabicAbjadi(n)
    [] picture = "arabicAbjadNumeral"   -> convertIntegerToAbjadNumeral(n)
    [] picture = "arabicAlifBaTa"       -> convertIntegerToArabicAlifBaTa(n)
    [] picture = "hebrewAlefBet"        -> convertIntegerToHebrewAlefBet(n)
    [] picture = "hebrewNumeral"        -> convertIntegerToHebrewNumeral(n)

\* A picture that is not known gives the number as JavaScript writes it; there
\* is no numeral for zero.
fnFormatInteger(seq, picture) ==
  LET n == ToInt(seq[1])
      kind == picture.value.kind
      text == CASE seq = <<>>                     -> EmptyText
                [] kind \notin integerConverters  -> NumberText(seq[1].value)
                [] IsPositional(kind)             -> Numeral(kind, 2 * n)
                [] n = 0                          -> Word("-")
                [] OTHER -> Text(kind, 0, <<n < 0, Symbols(kind, Magnitude(n))>>, "none")
  IN Ok(<<Value("xs:string", text)>>)

(***************************************************************************)
(* Random numbers: each is a multiple of the one before, modulo a power of *)
(* two.  A generator is its current number.                                *)
(***************************************************************************)
getRandomNumber(seed) == (Multiplier * seed) % Modulus
fnRandomNumberGenerator(seed) == getRandomNumber(seed)
NextGenerator(current) == getRandomNumber(current)

\* From the last item down to the third, each is swapped with a random one before it.
permute(current, seq) ==
  FoldLeft(LAMBDA s, i : LET number == getRandomNumber(s.current)
                             j == (number % (i - 1)) + 1
                         IN [current |-> number,
                             items |-> [s.items EXCEPT ![j] = s.items[i], ![i] = s.items[j]]],
           [current |-> current, items |-> seq],
           Reverse([k \in 1 .. Max({0, Len(seq) - 2}) |-> k + 2])).items

(***************************************************************************)
(* What is declared, and what each declaration does.                       *)
(***************************************************************************)
AnyNumber == ZeroOrOne("xs:numeric")
NumericDeclarations ==
  <<Declaration("abs", <<AnyNumber>>, AnyNumber),
    Declaration("format-integer", <<ZeroOrOne("xs:integer"), ExactlyOne("xs:string")>>,
                ExactlyOne("xs:string")),
    Declaration("ceiling", <<AnyNumber>>, AnyNumber), Declaration("floor", <<AnyNumber>>, AnyNumber),
    Declaration("round", <<AnyNumber>>, AnyNumber),
    Declaration("round", <<AnyNumber, OneInteger>>, AnyNumber),
    Declaration("round-half-to-even", <<AnyNumber>>, AnyNumber),
    Declaration("round-half-to-even", <<AnyNumber, OneInteger>>, AnyNumber),
    Declaration("number", <<ZeroOrOne("xs:anyAtomicType")>>, ExactlyOne("xs:double"))>>

NumericFunction(name, a) ==
  LET precision == IF Len(a) = 1 THEN <<>> ELSE a[2]
  IN CASE name = "abs"                -> fnAbs(a[1])
       [] name = "format-integer"     -> fnFormatInteger(a[1], a[2][1])
       [] name = "ceiling"            -> fnCeiling(a[1])
       [] name = "floor"              -> fnFloor(a[1])
       [] name \in {"round", "round-half-to-even"} -> fnRound(name = "round-half-to-even", a[1], precision)
       [] name = "number"             -> fnNumber(a[1])
=============================================================================
