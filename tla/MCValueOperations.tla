--------------------------- MODULE MCValueOperations ---------------------------
(***************************************************************************)
(* Values of every kind, at the bounds of the integer types and of the     *)
(* calendar.                                                               *)
(***************************************************************************)
EXTENDS ValueOperations

\* (kind and type are the first names here: values are compared by them first)
Kinds == [kind |-> 0, type |-> 0]
MCNodePositions == <<"x">>
MCDom == "x" :> [type |-> "text()", name |-> "none", namespace |-> "none", data |-> Word("x"),
               children |-> <<>>, attributes |-> <<>>]

Untyped(text) == Value("xs:untypedAtomic", text)
String(text) == Value("xs:string", text)
Double(x) == Value("xs:double", x)
Whole(n) == Value("xs:integer", Number(2 * n))

\* Dates as they are written: the last day of the year up to its midnight, a
\* leap day, one instant in two time zones, and a day that February has not.
Written1(at) == Text("xs:dateTime", 0, at, "none")
NewYear == Written1(<<2023, 12, 31, 24, 0, 0, {}>>)
LeapDay == Written1(<<2024, 2, 29, 23, 59, Second, {0}>>)
Noon == Written1(<<2024, 3, 31, 12, 0, 1, {0}>>)
NoonEast == Written1(<<2024, 3, 31, 13, 0, 0, {Hour}>>)
LateInMonth == Text("xs:date", 0, <<2023, 1, 30, {}>>, "none")
ADay == Text("xs:date", 0, <<2024, 1, 31, {}>>, "none")

DateItem(text) == Value(text.kind, ParseDate(text).value)

NumericLiterals ==
  {Untyped(Numeral("integer", 6)), Untyped(Numeral("integer", -8)), Untyped(Numeral("decimal", 3)),
   Untyped(Numeral("scientific", 200)), Untyped(Word("NaN")), Whole(9), Whole(-1), Whole(0),
   Double(Number(100)), Double(Number(-3)), Double(INF), Double(NaN)}
TextLiterals ==
  {String(Text("name", 0, <<>>, "around")), String(Text("name", 0, <<>>, "tab")),
   String(Word("true")), String(Word("other")), Value("xs:anyURI", Word("name")),
   Untyped(Text("hex", 0, <<1, 15>>, "around")), Untyped(Text("base64", 0, <<200, 17>>, "none"))}
DateLiterals ==
  {Untyped(NewYear), Untyped(LeapDay), String(Noon), Untyped(ADay), Untyped(LateInMonth),
   Value("xs:duration", Duration(-14, -Day - Minute)), Value("xs:yearMonthDuration", YearMonthDuration(-1)),
   Untyped(Text("xs:duration", 0, <<FALSE, 1, 2, 3, 4, 5, 6>>, "none"))}
MCLiterals == NumericLiterals \cup TextLiterals \cup DateLiterals

\* Texts by what they look like, then by what they count.
KindOrder == <<"empty", "integer", "decimal", "hex", "base64", "name", "other", "true", "x", "y">>
MCTextLess(a, b) ==
  LET Rank(text) == IF text.kind \in Range(KindOrder) THEN IndexIn(KindOrder, text.kind) ELSE 0
  IN Rank(a) < Rank(b) \/ (Rank(a) = Rank(b) /\ a.n < b.n)

\* Types that are like one of the others are left out.
MCConstructed == Constructors \ {"xs:NMTOKENS", "xs:ENTITIES", "xs:ENTITY", "xs:IDREF", "xs:language", "xs:Name",
                                  "xs:long", "xs:short", "xs:unsignedInt", "xs:unsignedLong", "xs:gMonth"}
MCTargets == {"xs:string", "xs:byte", "xs:dateTime"}

MCOperands ==
  {Whole(2), Value("xs:decimal", Number(-1)), Double(INF), Untyped(Numeral("integer", 2)),
   String(Word("true")), Value("xs:yearMonthDuration", YearMonthDuration(13)),
   Value("xs:dayTimeDuration", DayTimeDuration(Day)), DateItem(Noon), DateItem(NoonEast),
   DateItem(ADay), Value("xs:time", convertToType(ParseDate(LeapDay).value, "xs:time"))}

MCOtherSequences ==
  {<<Whole(3), Double(Number(3))>>, <<String(Word("true")), Whole(3)>>,
   <<Double(Number(100)), String(Word("true"))>>,
   <<Untyped(Numeral("integer", 6)), Value("xs:boolean", TRUE)>>, <<DateItem(Noon), DateItem(NoonEast)>>}
=============================================================================
