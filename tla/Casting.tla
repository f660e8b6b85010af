------------------------------ MODULE Casting -------------------------------
(***************************************************************************)
(* Casting an atomic value to another type.                                *)
(*                                                                         *)
(* A number is a count of halves, or one of NaN, INF and -INF.  A string   *)
(* is a text: what it looks like (kind), what a numeral counts (n), the    *)
(* parts of a date, a duration or a binary (at), and its white space.  A   *)
(* hexBinary is a sequence of hexadecimal digits, a base64Binary one of    *)
(* bytes.                                                                  *)
(***************************************************************************)
EXTENDS XdmTypes, Calendar, SequencesExt

CONSTANTS
  MaxSafeInteger,  \* the largest integer a JavaScript number counts up to
  Exponential      \* from this number on JavaScript writes an exponent

ASSUME NumbersAssumption ==
  /\ {MaxSafeInteger, Exponential} \subseteq Nat
  /\ 2 ^ IntBits < MaxSafeInteger /\ MaxSafeInteger < Exponential

Value(type, value) == [type |-> type, value |-> value]
Throws(code) == [throws |-> code]    \* an exception, where a refusal is expected
IsOk(result) == DOMAIN result = {"value"}

Number(n) == [n |-> n]
NaN == [special |-> "NaN"]
INF == [special |-> "INF"]
MinusINF == [special |-> "-INF"]
IsFinite(x) == DOMAIN x = {"n"}

Text(kind, n, at, spaces) == [kind |-> kind, n |-> n, at |-> at, spaces |-> spaces]
Numeral(kind, n) == Text(kind, n, <<>>, "none")
Word(kind) == Text(kind, 0, <<>>, "none")

(***************************************************************************)
(* White space and patterns.                                               *)
(***************************************************************************)
Normalized(text, whiteSpace) ==
  CASE whiteSpace \in {"preserve", None} -> text
    [] whiteSpace = "replace" -> [text EXCEPT !.spaces = IF @ = "tab" THEN "around" ELSE @]
    [] OTHER -> [text EXCEPT !.spaces = "none"]
normalizeWhitespace(text, to) == Normalized(text, WhiteSpaceOf(to))

\* The types that have a pattern of their own.
HasValidator(t) ==
  /\ t \notin {"xs:untypedAtomic", "xs:dateTimeStamp"} \cup ListTypes
  /\ IsBelow(t, "xs:integer") => t = "xs:integer"
  /\ IsBelow(t, "xs:anyAtomicType")

FloatForms == {"integer", "decimal", "scientific", "cut exponent", "no digits", "INF", "-INF", "NaN"}
NameForms == {"name", "INF", "NaN", "true", "false", "Infinity"}

\* The written time zone, at the end of every date, is at most 14 hours.
ZoneIsWritable(zones) == \A z \in zones : Magnitude(z) <= 14 * Hour /\ z % Minute = 0

\* A date has the right number of digits for months, days, hours and so on;
\* whether the month has that many days is not looked at.
DateIsWritable(text) ==
  LET fields == Written(text.kind)
      Within(f) == CASE f = "years"   -> Int
                     [] f = "months"  -> 1 .. 12
                     [] f = "days"    -> 1 .. 31
                     [] f = "hours"   -> 0 .. 23
                     [] f = "minutes" -> 0 .. 59
                     [] f = "seconds" -> 0 .. Minute - 1
      EndOfDay == \E i \in DOMAIN fields : fields[i] = "hours" /\ text.at[i] = 24
                    /\ text.at[i + 1] = 0 /\ text.at[i + 2] = 0
  IN /\ \A i \in DOMAIN fields :
          text.at[i] \in Within(fields[i]) \/ (EndOfDay /\ fields[i] = "hours")
     /\ ZoneIsWritable(text.at[Len(text.at)])

DateTypes == {"xs:dateTime", "xs:time", "xs:date", "xs:gYearMonth", "xs:gYear", "xs:gMonthDay",
              "xs:gDay", "xs:gMonth"}
DurationTypes == {"xs:duration", "xs:yearMonthDuration", "xs:dayTimeDuration"}

\* The texts each pattern accepts.
AcceptsBinaryOrNumber(t, text) ==
  CASE t = "xs:boolean"      -> \/ text.kind \in {"true", "false"}
                                \/ text \in {Numeral("integer", 0), Numeral("integer", 2)}
    [] t \in {"xs:float", "xs:double"} -> text.kind \in FloatForms
    [] t = "xs:decimal"      -> text.kind \in {"integer", "decimal", "no digits"}
    [] t = "xs:integer"      -> text.kind = "integer"
    [] t = "xs:hexBinary"    -> text.kind = "hex" /\ Len(text.at) % 2 = 0
    [] t = "xs:base64Binary" -> text.kind = "base64"
    [] t = "xs:duration"     -> text.kind \in DurationTypes
    [] t \in DurationTypes   -> text.kind = t
    [] t \in DateTypes       -> text.kind = t /\ DateIsWritable(text)

AcceptsStringLike(t, text) ==
  CASE t \in {"xs:string", "xs:anyAtomicType", "xs:anyURI"} -> TRUE
    [] t = "xs:normalizedString"     -> text.spaces # "tab"
    [] t = "xs:token"                -> text.spaces = "none"
    [] t \in {"xs:language", "xs:NCName", "xs:ID", "xs:IDREF", "xs:ENTITY"} -> text.kind \in NameForms
    [] t = "xs:Name"                 -> text.kind \in NameForms \cup {"qualified"}
    [] t = "xs:NMTOKEN"              ->
         text.kind \in NameForms \cup {"qualified", "nmtoken", "integer", "decimal", "-INF", "-Infinity"}

StringLike(t) == IsBelow(t, "xs:string") \/ t \in {"xs:anyAtomicType", "xs:anyURI"}

\* The pattern of the nearest type that has one, if any has.  A list type has
\* none and looks no further.
MatchesPatternOf(typeModel, text) ==
  CASE typeModel = None      -> TRUE
    [] StringLike(typeModel) -> AcceptsStringLike(typeModel, text)
    [] OTHER                 -> AcceptsBinaryOrNumber(typeModel, text) /\ text.spaces = "none"
validatePattern(text, t) == IsList(t) \/ MatchesPatternOf(Nearest(t, HasValidator), text)

(***************************************************************************)
(* Facets.  A number is checked as JavaScript writes it.                   *)
(***************************************************************************)
NumberText(x) ==
  IF ~IsFinite(x) THEN Word(CASE x = NaN -> "NaN" [] x = INF -> "Infinity" [] OTHER -> "-Infinity")
  ELSE Numeral(IF Magnitude(x.n) >= 2 * Exponential THEN "scientific"
               ELSE IF x.n % 2 = 0 THEN "integer" ELSE "decimal", x.n)

\* A number that is not written in plain digits is no match for the pattern,
\* and the match is used without being looked at.
validateFractionDigits(x) ==
  CASE NumberText(x).kind = "decimal" -> Ok(FALSE)
    [] NumberText(x).kind = "integer" -> Ok(TRUE)
    [] OTHER                          -> Throws("TypeError")

\* Mutant: the bounds are not checked.
WithinNoBounds(x, bounds) == TRUE

WithinBounds(x, bounds) ==
  /\ "minInclusive" \in DOMAIN bounds => x.n >= 2 * bounds.minInclusive
  /\ "maxInclusive" \in DOMAIN bounds => x.n <= 2 * bounds.maxInclusive

validateExplicitTimeZone(d) == d.timezone # NoTimezone

\* Every type from the target upwards checks its own restrictions.
validateRestrictions(v, to) ==
  CASE IsBelow(to, "xs:integer") ->
         IF ~IsOk(validateFractionDigits(v)) THEN validateFractionDigits(v)
         ELSE Ok(/\ validateFractionDigits(v).value
                 /\ \A t \in Ancestry[to] : WithinBounds(v, restrictionsByName(t)))
    [] to = "xs:dateTimeStamp" -> Ok(validateExplicitTimeZone(v))
    [] OTHER                   -> Ok(TRUE)

(***************************************************************************)
(* From one primitive type to another: each gives the bare value.          *)
(***************************************************************************)
parseFloat(text) ==
  IF text.kind \in {"integer", "decimal", "scientific", "cut exponent"} THEN Number(text.n) ELSE NaN

IsTextual(t) == t \in {"xs:string", "xs:untypedAtomic"}
NotSupported == Err("XPTY0004")

castToStringLikeType(from, v) ==
  CASE IsTextual(from) \/ from = "xs:anyURI"   -> Ok(v)
    [] isSubtypeOf(from, "xs:decimal")         -> Ok(NumberText(v))
    [] isSubtypeOf(from, "xs:numeric")         ->
         Ok(IF v \in {INF, MinusINF} THEN Word(v.special) ELSE NumberText(v))
    [] from \in DateTypes                      -> Ok(DateText(v))
    [] from \in DurationTypes                  -> Ok(DurationText(v, from))
    [] from = "xs:hexBinary"                   -> Ok(Text("hex", 0, v, "none"))
    [] from = "xs:base64Binary"                -> Ok(Text("base64", 0, v, "none"))
    [] from = "xs:boolean"                     -> Ok(Word(IF v THEN "true" ELSE "false"))
    [] from = "xs:QName"                       ->
         Ok(Text(IF v.prefix = "" THEN "name" ELSE "qualified", 0, <<v.prefix, v.local>>, "none"))

castToFloatLikeType(from, v) ==
  CASE isSubtypeOf(from, "xs:numeric") -> Ok(v)
    [] from = "xs:boolean"             -> Ok(Number(IF v THEN 2 ELSE 0))
    [] IsTextual(from) ->
         CASE v.kind = "NaN" -> Ok(NaN)
           [] v.kind = "INF" -> Ok(INF)
           [] v.kind = "-INF" -> Ok(MinusINF)
           [] OTHER -> IF parseFloat(v) = NaN THEN Err("FORG0001") ELSE Ok(parseFloat(v))
    [] OTHER -> NotSupported

castToDecimal(from, v) ==
  CASE isSubtypeOf(from, "xs:integer") -> Ok(v)
    [] isSubtypeOf(from, "xs:numeric") -> IF IsFinite(v) THEN Ok(v) ELSE Err("FOCA0002")
    [] from = "xs:boolean" -> Ok(Number(IF v THEN 2 ELSE 0))
    [] IsTextual(from) -> IF parseFloat(v) = NaN THEN Err("FORG0001") ELSE Ok(parseFloat(v))
    [] OTHER -> NotSupported

ToSafeInteger(x, code) ==
  LET integer == Trunc(x.n, 2)
  IN IF Magnitude(integer) > MaxSafeInteger THEN Err(code) ELSE Ok(Number(2 * integer))

castToInteger(from, v) ==
  CASE from = "xs:boolean" -> Ok(Number(IF v THEN 2 ELSE 0))
    [] isSubtypeOf(from, "xs:numeric") ->
         IF IsFinite(v) THEN ToSafeInteger(v, "FOAR0002") ELSE Err("FOCA0002")
    [] IsTextual(from) ->
         IF parseFloat(v) = NaN THEN Err("FORG0001") ELSE ToSafeInteger(parseFloat(v), "FOCA0003")
    [] OTHER -> NotSupported

castToBoolean(from, v) ==
  CASE isSubtypeOf(from, "xs:numeric") -> Ok(v \notin {Number(0), NaN})
    [] IsTextual(from) /\ (v.kind = "true" \/ v = Numeral("integer", 2))  -> Ok(TRUE)
    [] IsTextual(from) /\ (v.kind = "false" \/ v = Numeral("integer", 0)) -> Ok(FALSE)
    [] OTHER -> NotSupported

\* The part a type does not have is zero.
DurationRead(from, v) ==
  CASE IsTextual(from)          -> Ok(ParseDuration(v))
    [] from \in DurationTypes   -> Ok(v)
    [] OTHER                    -> NotSupported
castToDuration(from, v) == DurationRead(from, v)
castToYearMonthDuration(d) == IF IsOk(d) THEN Ok(YearMonthDuration(d.value.months)) ELSE d
castToDayTimeDuration(d) == IF IsOk(d) THEN Ok(DayTimeDuration(d.value.ticks)) ELSE d

\* A year out of bounds is an exception.
ReadDate(parsed) == IF IsOk(parsed) THEN parsed ELSE Throws("FODT0001")
castToDateLike(from, sources, to, v) ==
  CASE IsTextual(from)   -> ReadDate(ParseDate(v))
    [] from \in sources  -> Ok(convertToType(v, to))
    [] OTHER             -> NotSupported

\* The types each can be made from.
DatesAndTimes == {"xs:date", "xs:dateTime"}
castToDateTime == {"xs:date"}
castToTime == {"xs:dateTime"}
castToDate == {"xs:dateTime"}
castToGYearMonth == DatesAndTimes
castToGYear == DatesAndTimes
castToGMonthDay == DatesAndTimes
castToGDay == DatesAndTimes
castToGMonth == DatesAndTimes

\* A byte is written with as many hexadecimal digits as it needs.
HexDigits(byte) == IF byte < 16 THEN <<byte>> ELSE <<byte \div 16, byte % 16>>
stringToHex(bytes) == FlattenSeq([i \in DOMAIN bytes |-> HexDigits(bytes[i])])

\* Two digits to a byte; the last digit of an odd number of them is one by itself.
hexToString(digits) ==
  [i \in 1 .. (Len(digits) + 1) \div 2 |->
     IF 2 * i > Len(digits) THEN digits[2 * i - 1] ELSE digits[2 * i - 1] * 16 + digits[2 * i]]

castToHexBinary(from, v) ==
  CASE IsTextual(from) -> Ok(v.at) [] from = "xs:base64Binary" -> Ok(stringToHex(v)) [] OTHER -> NotSupported
castToBase64Binary(from, v) ==
  CASE IsTextual(from) -> Ok(v.at) [] from = "xs:hexBinary" -> Ok(hexToString(v)) [] OTHER -> NotSupported

castToAnyURI(from, v) == IF IsTextual(from) THEN Ok(v) ELSE NotSupported

\* The first numeric type the value can be cast to; the value comes out as an
\* xs:numeric, which is a union and counts as every one of its members.
OrNotSupported(result) == IF IsOk(result) THEN result ELSE NotSupported
castToNumeric(from, v) == OrNotSupported(castToFloatLikeType(from, v))

DateSources(to) ==
  CASE to = "xs:dateTime"   -> castToDateTime   [] to = "xs:time"      -> castToTime
    [] to = "xs:date"       -> castToDate       [] to = "xs:gYear"     -> castToGYear
    [] to = "xs:gYearMonth" -> castToGYearMonth [] to = "xs:gMonthDay" -> castToGMonthDay
    [] to = "xs:gDay"       -> castToGDay       [] to = "xs:gMonth"    -> castToGMonth

castToPrimitiveType(from, to, v) ==
  CASE IsTextual(to)               -> castToStringLikeType(from, v)
    [] to \in {"xs:float", "xs:double"} -> castToFloatLikeType(from, v)
    [] to = "xs:decimal"           -> castToDecimal(from, v)
    [] to = "xs:integer"           -> castToInteger(from, v)
    [] to = "xs:numeric"           -> castToNumeric(from, v)
    [] to = "xs:duration"          -> castToDuration(from, v)
    [] to = "xs:yearMonthDuration" -> castToYearMonthDuration(DurationRead(from, v))
    [] to = "xs:dayTimeDuration"   -> castToDayTimeDuration(DurationRead(from, v))
    [] to \in DateTypes            -> castToDateLike(from, DateSources(to), to, v)
    [] to = "xs:boolean"           -> castToBoolean(from, v)
    [] to = "xs:hexBinary"         -> castToHexBinary(from, v)
    [] to = "xs:base64Binary"      -> castToBase64Binary(from, v)
    [] to = "xs:anyURI"            -> castToAnyURI(from, v)
    [] OTHER                       -> NotSupported

(***************************************************************************)
(* The whole cast: white space and pattern of the target when the source   *)
(* is text, then the cast between the primitive types, then the pattern    *)
(* again when the target is text, then the restrictions.                   *)
(***************************************************************************)
TREAT_AS_PRIMITIVE == {"xs:numeric", "xs:integer", "xs:dayTimeDuration", "xs:yearMonthDuration"}
PrimitiveOf(t) == IF t \in TREAT_AS_PRIMITIVE THEN t ELSE getPrimitiveTypeName(t)

\* Go on with the value of a result, when it has one.
Then(result, F(_)) == IF IsOk(result) THEN F(result.value) ELSE result
Check(holds, v) == IF holds THEN Ok(v) ELSE Err("FORG0001")

Validated(text, to) == Check(validatePattern(text, to), text)
castFromText(v, to) == Validated(normalizeWhitespace(v, to), to)

\* The four steps: each takes what the one before came to.
Read(from, to, v) == IF IsTextual(from) THEN castFromText(v, to) ELSE Ok(v)
Converted(from, to, u) ==
  IF IsOk(u) /\ from # to THEN castToPrimitiveType(from, to, u.value) ELSE u
Matched(primitive, to, u) ==
  IF IsOk(u) /\ IsTextual(primitive) THEN Validated(u.value, to) ELSE u
Restricted(to, u) ==
  IF ~IsOk(u) THEN u
  ELSE Then(validateRestrictions(u.value, to), LAMBDA holds : Check(holds, Value(to, u.value)))

\* Casting with the two primitive types already found.
CastVia(from, primitiveTo, to, v) ==
  Restricted(to, Matched(primitiveTo, to, Converted(from, primitiveTo, Read(from, to, v))))
createCastingFunction(from, to, v) == CastVia(PrimitiveOf(from), PrimitiveOf(to), to, v)

tryCastToType(item, to) ==
  CASE item.type = "xs:untypedAtomic" /\ to = "xs:string" -> Ok(Value(to, item.value))
    [] to \in {"xs:NOTATION", "xs:anySimpleType", "xs:anyAtomicType"} -> Err("XPST0080")
    [] to = "xs:error"  -> Err("FORG0001")
    [] item.type = to   -> Ok(item)
    [] to = "xs:QName"  -> Throws("not implemented")
    [] OTHER            -> createCastingFunction(item.type, to, item.value)

castToType(item, to) == tryCastToType(item, to)

\* castable as: what the cast returns; an exception passes through.
WhetherOk(result) == IF DOMAIN result = {"throws"} THEN result ELSE Ok(IsOk(result))
CanCastToType(item, to) == WhetherOk(tryCastToType(item, to))

\* Numeric promotion, without a cast.
promoteToType(item, to) ==
  IF \/ isSubtypeOf(item.type, "xs:float") /\ to = "xs:double"
     \/ isSubtypeOf(item.type, "xs:decimal") /\ to \in {"xs:float", "xs:double"}
     \/ isSubtypeOf(item.type, "xs:anyURI") /\ to = "xs:string"
  THEN Ok(Value(to, item.value)) ELSE Err("no promotion")
=============================================================================
