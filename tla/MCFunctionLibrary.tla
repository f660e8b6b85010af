-------------------------- MODULE MCFunctionLibrary ---------------------------
(***************************************************************************)
(* A small document, and values of every kind that the functions tell      *)
(* apart.                                                                  *)
(***************************************************************************)
EXTENDS FunctionLibrary

\* (kind and type are the first names here: values are compared by them first)
Kinds == [kind |-> 0, type |-> 0]

(***************************************************************************)
(* The document: four elements with texts next to each other, an empty     *)
(* text or a comment between them; one more tree that is only an element.  *)
(***************************************************************************)
Made(type, name, data, children, attributes) ==
  [type |-> type, name |-> name, namespace |-> "none", prefix |-> "", data |-> Chars(data),
   children |-> children, attributes |-> attributes]
Element(name, children, attributes) == Made("element()", name, <<>>, children, attributes)
TextNode(data) == Made("text()", "", data, <<>>, <<>>)
AttributeNode(name, data) == Made("attribute()", name, data, <<>>, <<>>)

MCDom ==
  "doc" :> Made("document-node()", "", <<>>, <<"r">>, <<>>)
  @@ "r" :> Element("r", <<"a1", "a2", "a3", "a4", "pi">>, <<"rid", "rlang">>)
  @@ "rid" :> AttributeNode("id", <<"b">>) @@ "rlang" :> AttributeNode("xml:lang", <<"a", "b", "-", "B", "b">>)
  @@ "a1" :> Element("a", <<"x1", "y1">>, <<>>) @@ "x1" :> TextNode(<<"a">>) @@ "y1" :> TextNode(<<"b">>)
  @@ "a2" :> Element("a", <<"x2", "e2", "y2">>, <<>>) @@ "x2" :> TextNode(<<"a">>)
  @@ "e2" :> TextNode(<<>>) @@ "y2" :> TextNode(<<"b">>)
  @@ "a3" :> Element("a", <<"x3", "c3", "y3">>, <<"id3", "ref3">>) @@ "x3" :> TextNode(<<"a">>)
  @@ "c3" :> Made("comment()", "", <<"b">>, <<>>, <<>>) @@ "y3" :> TextNode(<<"b">>)
  @@ "a4" :> Element("a", <<"x5", "c5", "y5">>, <<>>) @@ "x5" :> TextNode(<<"a">>)
  @@ "c5" :> Made("comment()", "", <<"b">>, <<>>, <<>>) @@ "y5" :> TextNode(<<"b">>)
  @@ "id3" :> AttributeNode("id", <<"a">>) @@ "ref3" :> AttributeNode("idref", <<"a", " ", "b">>)
  @@ "pi" :> Made("processing-instruction()", "a", <<"a">>, <<>>, <<>>)
  @@ "lone" :> [Element("a", <<"c4", "x4">>, <<>>) EXCEPT !.namespace = "n", !.prefix = "p"]
  @@ "c4" :> Made("comment()", "", <<"a">>, <<>>, <<>>) @@ "x4" :> TextNode(<<"a", "b">>)

MCNodePositions ==
  <<"doc", "r", "rid", "rlang", "a1", "x1", "y1", "a2", "x2", "e2", "y2", "a3", "id3", "ref3", "x3", "c3",
    "y3", "a4", "x5", "c5", "y5", "pi", "lone", "c4", "x4">>

(***************************************************************************)
(* Characters: letters, one that becomes two in upper case, and one that   *)
(* JavaScript counts as two.                                               *)
(***************************************************************************)
Letter(unit, upper, lower, uri) ==
  [units |-> <<unit>>, upper |-> upper, lower |-> lower, space |-> FALSE, uri |-> uri]
Mark(unit, c, uri) == Letter(unit, <<c>>, <<c>>, uri)
MCCharacters ==
  "a" :> Letter(97, <<"A">>, <<"a">>, "unreserved") @@ "A" :> Letter(65, <<"A">>, <<"a">>, "unreserved")
  @@ "b" :> Letter(98, <<"B">>, <<"b">>, "unreserved") @@ "B" :> Letter(66, <<"B">>, <<"b">>, "unreserved")
  @@ "s" :> Letter(115, <<"S">>, <<"s">>, "unreserved") @@ "S" :> Letter(83, <<"S">>, <<"s">>, "unreserved")
  @@ "sz" :> Letter(223, <<"S", "S">>, <<"sz">>, "escaped")
  @@ "clef" :> [Mark(0, "clef", "escaped") EXCEPT !.units = <<55348, 56606>>]
  @@ "-" :> Mark(45, "-", "unreserved") @@ "%" :> Mark(37, "%", "escaped") @@ "$" :> Mark(36, "$", "reserved")
  @@ "r" :> Letter(114, <<"R">>, <<"r">>, "unreserved") @@ "R" :> Letter(82, <<"R">>, <<"r">>, "unreserved")
  @@ " " :> [Mark(32, " ", "escaped") EXCEPT !.space = TRUE]
CharacterOrder == <<" ", "$", "%", "-", "A", "B", "R", "S", "a", "b", "r", "s", "sz", "clef">>
Rank(c) == IF c \in Range(CharacterOrder) THEN IndexIn(CharacterOrder, c) ELSE 0

\* By characters; other texts are in the order of what they count.
MCTextLess(s, t) ==
  LET differ == {i \in 1 .. Min({Len(s.at), Len(t.at)}) : s.at[i] # t.at[i]}
      Spelled(u) == u.kind \in {"chars", "empty"}
  IN IF ~Spelled(s) \/ ~Spelled(t) THEN ~Spelled(s) /\ ~Spelled(t) /\ s.n < t.n
     ELSE IF differ = {} THEN Len(s.at) < Len(t.at)
     ELSE Rank(s.at[Min(differ)]) < Rank(t.at[Min(differ)])

(***************************************************************************)
(* Where a query starts.                                                   *)
(***************************************************************************)
Double(x) == Value("xs:double", x)
Decimal(halves) == Value("xs:decimal", Number(halves))
Untyped(text) == Value("xs:untypedAtomic", text)
Pattern(kind, s) == Value("xs:string", Text(kind, 0, s, "none"))
Option(name) == Map(<<keyValuePair(DuplicatesKey, <<Value("xs:string", Word(name))>>)>>)
QName(local) == QNameOf("", "fn", local)
MCCurrentDateTime == convertToType(ParseDate(Text("xs:dateTime", 0, <<2024, 2, 29, 23, 59, Second, {0}>>, "none")).value,
                                   "xs:dateTime")

NumberStarts ==
  {<<Integer(n)>> : n \in {0, 3, 16, -15, 27, 702, 1500, 3400}}
  \cup {<<Decimal(3)>>, <<Decimal(-5)>>, <<Double(Number(5))>>, <<Double(NaN)>>, <<Double(MinusINF)>>,
        <<Integer(1), Decimal(2), Double(NaN)>>, <<Integer(2), Integer(1), Integer(2), Integer(3)>>,
        <<Untyped(Numeral("decimal", 3))>>, <<Untyped(Numeral("integer", 4)), Integer(1), Boolean(TRUE)>>}
StringStarts ==
  {<<String(s)>> : s \in {<<"a", "b", "a">>, <<" ", "a", " ", " ", "b", " ">>, <<"clef", "sz", "%">>, <<>>}}
  \cup {<<String(<<"b">>), String(<<"a">>)>>, <<Untyped(Chars(<<"a", "b">>)), String(<<"a", "b">>)>>,
        <<Value("xs:anyURI", Chars(<<"$", " ">>))>>}
DateStarts ==
  {<<Value("xs:duration", Duration(-14, -Day - Minute))>>, <<Value("xs:dayTimeDuration", DayTimeDuration(3 * Hour + Second))>>,
   <<Value("xs:date", ParseDate(Text("xs:date", 0, <<2024, 1, 31, {}>>, "none")).value)>>,
   <<Value("xs:dateTime", MCCurrentDateTime)>>,
   <<Value("xs:duration", Duration(1, 0)), Value("xs:yearMonthDuration", YearMonthDuration(1)),
     Value("xs:duration", Duration(1, 0))>>}
NodeStarts ==
  {<<Node(n)>> : n \in {"doc", "r", "rlang", "a2", "e2", "a3", "a4", "y3", "c3", "pi", "lone", "x4"}}
  \cup {<<Node("y3"), Node("a3"), Node("r"), Node("id3")>>}
ArrayStarts ==
  {<<Array(<<<<Integer(3)>>, <<Integer(1), Integer(2)>>, <<>>, <<Integer(1)>>>>)>>,
   <<Array(<<<<String(<<"b">>)>>, <<String(<<"a">>)>>>>)>>,
   <<Array(<<<<Array(<<<<Integer(1)>>>>)>>, <<Boolean(FALSE)>>>>), Integer(2)>>}
MapStarts ==
  {<<Map(<<keyValuePair(Integer(1), <<Boolean(TRUE)>>), keyValuePair(String(<<"a">>), <<>>)>>),
     Map(<<keyValuePair(Untyped(Chars(<<"a">>)), <<Integer(2)>>), keyValuePair(Decimal(2), <<Boolean(FALSE)>>)>>)>>}
Inline(name, params, result) == FunctionItem(name, params, result, [i \in DOMAIN params |-> Gap], FALSE)
Twice == Inline("twice", <<ExactlyOne("xs:integer")>>, Items)
Pair == Inline("pair", <<Items, Items>>, Items)
Triple == Inline("triple", <<Items, Items, Items>>, Items)
IsOne == Inline("is one", <<ExactlyOne("item()")>>, OneBoolean)
MCInlineFunctions == {"twice", "pair", "triple", "is one"}
MCInlineBody(name, a) ==
  CASE name = "twice"  -> Ok(a[1] \o a[1])
    [] name \in {"pair", "triple"} -> ArrayOk(a)
    [] name = "is one" -> Ok(<<Boolean(a[1][1] = Integer(1))>>)
FunctionStarts ==
  {<<Twice>>, <<Pair>>, <<Triple>>, <<QName("subsequence")>>, <<QName("unknown")>>}
MCStarts == {<<>>} \cup NumberStarts \cup StringStarts \cup DateStarts \cup NodeStarts \cup ArrayStarts
            \cup MapStarts \cup FunctionStarts

(***************************************************************************)
(* What is passed for the other parameters.                                *)
(***************************************************************************)
Integers(name) == {<<Integer(1)>>, <<Integer(2)>>, <<Integer(-1)>>}
Doubles == {<<Double(Number(n))>> : n \in {-2, 3, 4}} \cup {<<Double(INF)>>, <<Double(MinusINF)>>, <<Double(NaN)>>}
Pictures == {<<Value("xs:string", Word(p))>> :
               p \in {"A", "I", "lowerGreek", "arabicAbjadi", "arabicAbjadNumeral", "arabicAlifBaTa",
                      "hebrewAlefBet", "hebrewNumeral", "persianNumeral", "other"}}
Patterns == {<<String(<<"a">>)>>, <<String(<<" ">>)>>, <<Pattern("invalid", <<>>)>>, <<Pattern("optional", <<"a">>)>>,
             <<Pattern("ahead", <<"b">>)>>}
Replacements == {<<String(<<"b", "escaped dollar">>)>>, <<String(<<"$0">>)>>}
StringsFor(name) ==
  CASE name = "format-integer" -> Pictures
    [] name \in {"tokenize", "matches"} -> Patterns
    [] name = "replace" -> Patterns \cup Replacements
    [] name \in {"lang", "id", "idref", "error"} -> {<<String(<<"a", "b">>)>>, <<String(<<"a">>)>>}
    [] OTHER -> {<<String(<<"b">>)>>, <<String(<<"a", "b">>)>>}
FunctionsFor(name) ==
  CASE name \in {"fold-left", "fold-right", "array:fold-left", "array:fold-right", "array:for-each-pair"} -> {<<Pair>>}
    [] name \in {"filter", "array:filter"} -> {<<IsOne>>}
    [] OTHER -> {<<Twice>>, <<Pair>>}

OfOne(name, type) ==
  CASE type = "xs:integer"      -> Integers(name)
    [] type = "xs:double"       -> Doubles
    [] type = "xs:string"       -> StringsFor(name)
    [] type = "function(*)"     -> FunctionsFor(name)
    [] type = "xs:time"         -> {<<Value("xs:time", convertToType(MCCurrentDateTime, "xs:time"))>>}
    [] type = "array(*)"        -> {<<Array(<<<<Integer(1)>>, <<Integer(2)>>>>)>>}
    [] type = "map(*)"          -> {<<Option(s)>> : s \in {"use-first", "use-last", "combine", "reject"}}
    [] type = "node()"          -> {<<Node("a1")>>, <<Node("x3")>>}
    [] type = "xs:anyAtomicType" -> {<<Integer(1)>>, <<String(<<"a">>)>>}
    [] name = "map:for-each"    -> {<<Pair>>, <<Twice>>, <<Integer(1)>>}
    [] type = "item()"          -> {<<Node("a1")>>, <<Integer(1), String(<<"b">>)>>}
    [] OTHER                    -> {<<Integer(1)>>}

MCArguments(name, type) ==
  OfOne(name, type.type)
  \cup (IF doesTypeAllowEmpty(type.mult) /\ name \notin {"tokenize"} THEN {<<>>} ELSE {})
  \cup (IF name = "array:remove" THEN {<<Integer(1), Integer(3)>>} ELSE {})

MCSeeds == {1, 3}
=============================================================================
