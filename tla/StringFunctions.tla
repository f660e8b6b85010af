--------------------------- MODULE StringFunctions ---------------------------
(***************************************************************************)
(* The functions on strings.                                               *)
(*                                                                         *)
(* A string is a text with its characters: code points, each of which is   *)
(* one or two of the UTF-16 units of JavaScript.  A pattern that is a      *)
(* string of characters matches those; the others are known by what they   *)
(* do: "invalid", "optional" (it also matches the empty string) and "ahead" *)
(* (it matches no characters, in front of the ones it has).                *)
(***************************************************************************)
EXTENDS NumericFunctions

\* character |-> its units, the characters it is in upper and in lower case,
\* whether it is white space, and how it may occur in a URI
CONSTANT Characters

ASSUME CharactersAssumption ==
  \A c \in DOMAIN Characters :
    /\ Len(Characters[c].units) \in 1 .. 2
    /\ Characters[c].uri \in {"unreserved", "reserved", "escaped"}

Chars(s) == IF s = <<>> THEN EmptyText ELSE Text("chars", 0, s, "none")
String(s) == Value("xs:string", Chars(s))
OkString(s) == Ok(<<String(s)>>)
OkBoolean(b) == Ok(<<Boolean(b)>>)
CharsOf(item) == item.value.at
StringIn(seq) == IF seq = <<>> THEN <<>> ELSE CharsOf(seq[1])

(***************************************************************************)
(* Strings of values.                                                      *)
(***************************************************************************)
\* The string value of a node stays untyped, unless it is an attribute.
fnString(seq) ==
  IF seq = <<>> THEN OkString(<<>>)
  ELSE LET TextOf(item) == IF IsNode(item) THEN atomizeSingleValue(item).value[1] ELSE item
           StaysUntyped(item) == IsNode(item) /\ item.type # "attribute()"
       IN Collected([i \in DOMAIN seq |->
                       IF StaysUntyped(seq[i]) THEN Ok(TextOf(seq[i])) ELSE castToType(TextOf(seq[i]), "xs:string")])

CharactersOf(strings) ==
  IF IsOk(strings) THEN Ok([i \in DOMAIN strings.value |-> CharsOf(strings.value[i])]) ELSE strings
AtomsAsStrings(atoms) ==
  IF ~IsOk(atoms) THEN atoms
  ELSE LET strings == Collected([i \in DOMAIN atoms.value |-> castToType(atoms.value[i], "xs:string")])
       IN CharactersOf(strings)
StringsOf(seq) == AtomsAsStrings(atomize(seq))

Joined(strings, separator) ==
  FlattenSeq([i \in DOMAIN strings |-> IF i = 1 THEN strings[i] ELSE separator \o strings[i]])

JoinedBy(separator, strings) == IF IsOk(strings) THEN OkString(Joined(strings.value, separator)) ELSE strings
fnConcat(sequences) == JoinedBy(<<>>, Concatenated([i \in DOMAIN sequences |-> StringsOf(sequences[i])]))
fnStringJoin(seq, separator) == JoinedBy(separator, StringsOf(seq))
fnStringLength(seq) == Ok(<<Integer(Len(StringIn(seq)))>>)

fnCompare(seq1, seq2) ==
  IF seq1 = <<>> \/ seq2 = <<>> THEN Ok(<<>>)
  ELSE Ok(<<Integer(CASE TextLess(seq2[1].value, seq1[1].value) -> 1
                      [] TextLess(seq1[1].value, seq2[1].value) -> -1
                      [] OTHER                                  -> 0)>>)

fnCodepointEqual(seq1, seq2) ==
  IF seq1 = <<>> \/ seq2 = <<>> THEN Ok(<<>>) ELSE OkBoolean(StringIn(seq1) = StringIn(seq2))

(***************************************************************************)
(* Parts of strings.                                                       *)
(***************************************************************************)
OccursAt(s, part, i) == SubSeq(s, i, i + Len(part) - 1) = part
Occurrences(s, part) == {i \in 1 .. Len(s) - Len(part) + 1 : OccursAt(s, part, i)}

fnContains(seq, part) ==
  OkBoolean(StringIn(part) = <<>> \/ Occurrences(StringIn(seq), StringIn(part)) # {})
fnStartsWith(seq, part) == OkBoolean(IsPrefix(StringIn(part), StringIn(seq)))
fnEndsWith(seq, part) == OkBoolean(IsSuffix(StringIn(part), StringIn(seq)))

fnSubstringBefore(seq, part) ==
  LET found == Occurrences(StringIn(seq), StringIn(part))
  IN OkString(IF StringIn(part) = <<>> \/ found = {} THEN <<>>
              ELSE SubSeq(StringIn(seq), 1, Min(found) - 1))

fnSubstringAfter(seq, part) ==
  LET found == Occurrences(StringIn(seq), StringIn(part))
  IN OkString(CASE StringIn(part) = <<>> -> StringIn(seq)
                [] found = {}            -> <<>>
                [] OTHER -> SubSeq(StringIn(seq), Min(found) + Len(StringIn(part)), Len(StringIn(seq))))

\* The slice of a JavaScript array: an end below zero counts from the back.
Slice(s, from, to) ==
  LET Index(x) == CASE x = INF              -> Len(s)
                    [] x \in {NaN, MinusINF} -> 0
                    [] OTHER -> LET i == ToInt([value |-> x])
                                IN Min({Len(s), IF i < 0 THEN Max({0, Len(s) + i}) ELSE i})
  IN SubSeq(s, Index(from) + 1, Index(to))

\* Mutant: a start before the first character does not shorten the part.
SubstringFromTheFirst(seq, start, length) ==
  LET from == IF start = MinusINF \/ (IsFinite(start) /\ start.n < 2) THEN Number(0)
              ELSE SumOf(start, Number(-2))
  IN Slice(StringIn(seq), from, IF length = <<>> THEN INF ELSE SumOf(from, length[1]))

\* Start and length are rounded before.
Substring(seq, start, length) ==
  LET from == IF start = MinusINF \/ (IsFinite(start) /\ start.n < 2) THEN Number(0)
              ELSE SumOf(start, Number(-2))
      to == IF length = <<>> THEN INF ELSE SumOf(SumOf(start, length[1]), Number(-2))
  IN Slice(StringIn(seq), from, to)

SubstringAt(seq, rounded) ==
  IF ~IsOk(rounded) THEN rounded
  ELSE OkString(Substring(seq, rounded.value[1][1].value,
                          [i \in DOMAIN rounded.value[2] |-> rounded.value[2][i].value]))
fnSubstring(seq, range) == SubstringAt(seq, Collected([i \in 1 .. 2 |-> fnRound(FALSE, range[i], <<>>)]))

(***************************************************************************)
(* Characters, one by one.                                                 *)
(***************************************************************************)
Mapped(s, F(_)) == FlattenSeq([i \in DOMAIN s |-> F(s[i])])

fnUpperCase(seq) == OkString(Mapped(StringIn(seq), LAMBDA c : Characters[c].upper))
fnLowerCase(seq) == OkString(Mapped(StringIn(seq), LAMBDA c : Characters[c].lower))

\* A character that is to be replaced by one that is not there is left out.
fnTranslate(seq, from, to) ==
  OkString(Mapped(StringIn(seq), LAMBDA c :
    LET found == Occurrences(from, <<c>>)
    IN IF found = {} THEN <<c>> ELSE SubSeq(to, Min(found), Min({Min(found), Len(to)}))))

\* White space around is removed, within it becomes one space.
fnNormalizeSpace(seq) ==
  LET s == StringIn(seq)
      IsSpace(i) == Characters[s[i]].space
      Kept(i) == ~IsSpace(i - 1) /\ \E j \in i + 1 .. Len(s) : ~IsSpace(j)
  IN OkString(FlattenSeq([i \in DOMAIN s |->
       IF ~IsSpace(i) THEN <<s[i]>> ELSE IF i > 1 /\ Kept(i) THEN <<" ">> ELSE <<>>]))

CodePoint(c) ==
  LET u == Characters[c].units
  IN IF Len(u) = 1 THEN u[1] ELSE 65536 + (u[1] - 55296) * 1024 + (u[2] - 56320)

IsXmlCharacter(n) ==
  n \in {9, 10, 13} \/ (\E range \in {<<32, 55295>>, <<57344, 65533>>, <<65536, 1114111>>} :
                         range[1] <= n /\ n <= range[2])

fnCodepointsToString(numbers) ==
  IF \E i \in DOMAIN numbers : ~IsXmlCharacter(ToInt(numbers[i])) THEN Err("FOCH0001")
  ELSE OkString([i \in DOMAIN numbers |->
                   CHOOSE c \in DOMAIN Characters : CodePoint(c) = ToInt(numbers[i])])

\* Unit by unit: a character of two units gives two numbers.
fnStringToCodepoints(seq) ==
  LET units == Mapped(StringIn(seq), LAMBDA c : Characters[c].units)
  IN Ok([i \in DOMAIN units |-> Integer(units[i])])

\* A character that is escaped, as the character it stands for.
PercentEncoded(c) == <<"%", c>>
fnEncodeForUri(seq) ==
  OkString(Mapped(StringIn(seq), LAMBDA c :
    IF Characters[c].uri = "unreserved" THEN <<c>> ELSE PercentEncoded(c)))
fnIriToUri(seq) ==
  OkString(Mapped(StringIn(seq), LAMBDA c :
    IF Characters[c].uri = "escaped" THEN PercentEncoded(c) ELSE <<c>>))

(***************************************************************************)
(* Patterns.                                                               *)
(***************************************************************************)
compileJSRegex(pattern) ==
  CASE pattern.value.kind = "invalid"             -> Err("FORX0002")
    [] pattern.value.kind \in {"optional", "empty"} -> Err("FORX0003")
    [] OTHER                                      -> Ok(pattern.value)

RECURSIVE Tokens(_, _)
Tokens(s, separator) ==
  LET found == Occurrences(s, separator)
  IN IF found = {} THEN <<s>>
     ELSE <<SubSeq(s, 1, Min(found) - 1)>>
          \o Tokens(SubSeq(s, Min(found) + Len(separator), Len(s)), separator)

\* A match of no characters is found again in the same place, for ever.
fnTokenize(seq, pattern) ==
  IF StringIn(seq) = <<>> THEN Ok(<<>>)
  ELSE Then(compileJSRegex(pattern), LAMBDA regex :
         IF regex.kind = "ahead" /\ Occurrences(StringIn(seq), regex.at) # {} THEN Throws("no end")
         ELSE LET tokens == Tokens(StringIn(seq), regex.at)
              IN Ok([i \in DOMAIN tokens |-> String(tokens[i])]))

\* By another library, which knows fewer patterns and has no objection to one
\* that matches the empty string.
fnMatches(seq, pattern) ==
  CASE pattern.value.kind \in {"invalid", "ahead"} -> Err("FORX0002")
    [] pattern.value.kind = "chars" -> OkBoolean(Occurrences(StringIn(seq), CharsOf(pattern)) # {})
    [] OTHER                        -> OkBoolean(TRUE)

\* The parts of a replacement other than characters.
ReplacementPart(part) ==
  CASE part = "escaped dollar" -> "$" [] part = "escaped backslash" -> "\\" [] OTHER -> part

fnReplace(seq, pattern, replacement) ==
  CASE Contains(replacement, "$0") -> Throws("not supported")
    [] Contains(replacement, "$$") -> Err("FORX0004")
    [] OTHER -> Then(compileJSRegex(pattern), LAMBDA regex :
         LET text == StringIn(seq)
             new == [i \in DOMAIN replacement |-> ReplacementPart(replacement[i])]
         IN OkString(IF regex.kind = "chars" THEN Joined(Tokens(text, regex.at), new)
                     ELSE FlattenSeq([i \in DOMAIN text |->
                            IF OccursAt(text, regex.at, i) THEN Append(new, text[i]) ELSE <<text[i]>>])))

(***************************************************************************)
(* What is declared, and what each declaration does.                       *)
(***************************************************************************)
MaybeString == ZeroOrOne("xs:string")
TwoStrings == <<MaybeString, MaybeString>>
OneStringOrNone == <<MaybeString>>

ComparingDeclarations ==
  <<Declaration("compare", TwoStrings, ZeroOrOne("xs:integer")),
    Declaration("compare", Append(TwoStrings, OneString), ZeroOrOne("xs:integer")),
    Declaration("concat", <<MaybeAtom, MaybeAtom, Ellipsis>>, OneString),
    Declaration("contains", Append(TwoStrings, MaybeString), OneBoolean),
    Declaration("contains", TwoStrings, OneBoolean), Declaration("ends-with", TwoStrings, OneBoolean),
    Declaration("ends-with", Append(TwoStrings, OneString), OneBoolean),
    Declaration("normalize-space", OneStringOrNone, OneString),
    Declaration("starts-with", TwoStrings, OneBoolean),
    Declaration("starts-with", Append(TwoStrings, OneString), OneBoolean),
    Declaration("string", <<ZeroOrOne("item()")>>, OneString)>>

PartOfStringDeclarations ==
  <<Declaration("substring-before", TwoStrings, OneString),
    Declaration("substring-after", TwoStrings, OneString),
    Declaration("substring", <<MaybeString, OneDouble>>, OneString),
    Declaration("substring", <<MaybeString, OneDouble, OneDouble>>, OneString),
    Declaration("upper-case", OneStringOrNone, OneString),
    Declaration("lower-case", OneStringOrNone, OneString),
    Declaration("string-join", <<Atoms, OneString>>, OneString),
    Declaration("string-join", <<Atoms>>, OneString),
    Declaration("string-length", OneStringOrNone, ExactlyOne("xs:integer"))>>

PatternDeclarations ==
  <<Declaration("tokenize", <<MaybeString, OneString, OneString>>, ZeroOrMore("xs:string")),
    Declaration("tokenize", <<MaybeString, OneString>>, ZeroOrMore("xs:string")),
    Declaration("tokenize", OneStringOrNone, ZeroOrMore("xs:string")),
    Declaration("translate", <<MaybeString, OneString, OneString>>, OneString),
    Declaration("codepoints-to-string", <<ZeroOrMore("xs:integer")>>, OneString),
    Declaration("string-to-codepoints", OneStringOrNone, ZeroOrMore("xs:integer")),
    Declaration("encode-for-uri", OneStringOrNone, OneString),
    Declaration("iri-to-uri", OneStringOrNone, OneString),
    Declaration("codepoint-equal", TwoStrings, ZeroOrOne("xs:boolean")),
    Declaration("matches", <<MaybeString, OneString>>, OneBoolean),
    Declaration("replace", <<MaybeString, OneString, OneString>>, OneString),
    Declaration("replace", <<MaybeString, OneString, OneString, OneString>>, OneString)>>

StringDeclarations == ComparingDeclarations \o PartOfStringDeclarations \o PatternDeclarations

ComparingFunction(name, a) ==
  CASE name \in {"compare", "contains", "ends-with", "starts-with"} /\ Len(a) = 3 -> collationError
    [] name = "compare"         -> fnCompare(a[1], a[2])
    [] name = "concat"          -> fnConcat(a)
    [] name = "contains"        -> fnContains(a[1], a[2])
    [] name = "ends-with"       -> fnEndsWith(a[1], a[2])
    [] name = "normalize-space" -> fnNormalizeSpace(a[1])
    [] name = "starts-with"     -> fnStartsWith(a[1], a[2])
    [] name = "string"          -> fnString(a[1])

PartOfStringFunction(name, a) ==
  CASE name = "substring-before" -> fnSubstringBefore(a[1], a[2])
    [] name = "substring-after"  -> fnSubstringAfter(a[1], a[2])
    [] name = "substring"        -> fnSubstring(a[1], <<a[2], IF Len(a) = 3 THEN a[3] ELSE <<>>>>)
    [] name = "upper-case"       -> fnUpperCase(a[1])
    [] name = "lower-case"       -> fnLowerCase(a[1])
    [] name = "string-join"      -> fnStringJoin(a[1], IF Len(a) = 2 THEN StringIn(a[2]) ELSE <<>>)
    [] name = "string-length"    -> fnStringLength(a[1])

\* Without a pattern the string is normalized and divided at its spaces.
PatternFunction(name, a) ==
  CASE name \in {"tokenize", "replace"} /\ (Len(a) = 4 \/ (Len(a) = 3 /\ name = "tokenize")) ->
         Throws("not supported")
    [] name = "tokenize" /\ Len(a) = 2  -> fnTokenize(a[1], a[2][1])
    [] name = "tokenize"             -> fnTokenize(fnNormalizeSpace(a[1]).value, String(<<" ">>))
    [] name = "translate"            -> fnTranslate(a[1], CharsOf(a[2][1]), CharsOf(a[3][1]))
    [] name = "codepoints-to-string" -> fnCodepointsToString(a[1])
    [] name = "string-to-codepoints" -> fnStringToCodepoints(a[1])
    [] name = "encode-for-uri"       -> fnEncodeForUri(a[1])
    [] name = "iri-to-uri"           -> fnIriToUri(a[1])
    [] name = "codepoint-equal"      -> fnCodepointEqual(a[1], a[2])
    [] name = "matches"              -> fnMatches(a[1], a[2][1])
    [] name = "replace"              -> fnReplace(a[1], a[2][1], CharsOf(a[3][1]))
=============================================================================
