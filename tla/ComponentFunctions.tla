-------------------------- MODULE ComponentFunctions --------------------------
(***************************************************************************)
(* The parts of dates, times and durations, the functions on booleans and  *)
(* the ones that read the dynamic context.                                 *)
(*                                                                         *)
(* A number of seconds is exact to a half.                                 *)
(***************************************************************************)
EXTENDS NodeFunctions

CONSTANT CurrentDateTime     \* as the dynamic context keeps it

NumberOfSeconds(ticks) == Value("xs:decimal", Number((2 * ticks) \div Second))

\* Nothing of nothing, and otherwise one part of the one value.
PartOf(seq, F(_)) == Ok([i \in DOMAIN seq |-> F(seq[i].value)])

(***************************************************************************)
(* Durations.  Each part has the sign of the duration.                     *)
(***************************************************************************)
fnYearsFromDuration(seq) == PartOf(seq, LAMBDA d : Integer(getYears(d)))
fnMonthsFromDuration(seq) == PartOf(seq, LAMBDA d : Integer(getMonths(d)))
fnDaysFromDuration(seq) == PartOf(seq, LAMBDA d : Integer(getDays(d)))
fnMinutesFromDuration(seq) == PartOf(seq, LAMBDA d : Integer(getMinutes(d)))
fnSecondsFromDuration(seq) == PartOf(seq, LAMBDA d : NumberOfSeconds(getSeconds(d)))

fnHoursFromDuration(seq) == PartOf(seq, LAMBDA d : Integer(getHours(d)))

(***************************************************************************)
(* Dates and times.                                                        *)
(***************************************************************************)
fnYearFromDateTime(seq) == PartOf(seq, LAMBDA d : Integer(d.years))
fnMonthFromDateTime(seq) == PartOf(seq, LAMBDA d : Integer(d.months))
fnDayFromDateTime(seq) == PartOf(seq, LAMBDA d : Integer(d.days))
fnHoursFromDateTime(seq) == PartOf(seq, LAMBDA d : Integer(d.hours))
fnMinutesFromDateTime(seq) == PartOf(seq, LAMBDA d : Integer(d.minutes))
fnSecondsFromDateTime(seq) == PartOf(seq, LAMBDA d : NumberOfSeconds(getFullSeconds(d)))

\* A date without a time zone has none, and none is filled in.
fnTimezoneFromDateTime(seq) ==
  LET zones == SetToSeq(UNION {seq[i].value.timezone : i \in DOMAIN seq})
  IN Ok([i \in DOMAIN zones |-> Value("xs:dayTimeDuration", DayTimeDuration(zones[i]))])

fnDateTime(date, time) ==
  IF date = <<>> \/ time = <<>> THEN Ok(<<>>)
  ELSE Then(CombineDateAndTime(date[1].value, time[1].value),
            LAMBDA d : Ok(<<Value("xs:dateTime", d)>>))

(***************************************************************************)
(* Booleans, and the context.                                              *)
(***************************************************************************)
fnNot(seq) == Then(EffectiveBooleanValueOf(seq), LAMBDA holds : OkBoolean(~holds))
fnBoolean(seq) == Then(EffectiveBooleanValueOf(seq), LAMBDA holds : OkBoolean(holds))
fnTrue == OkBoolean(TRUE)
fnFalse == OkBoolean(FALSE)

\* The context: an item, its place (from zero) and the sequence it is one of,
\* or no item.
fnLast(context) == IF context = <<>> THEN Err("XPDY0002") ELSE Ok(<<Integer(Len(context[1].seq))>>)
fnPosition(context) == IF context = <<>> THEN Err("XPDY0002") ELSE Ok(<<Integer(context[1].index + 1)>>)
fnCurrentDateTime == Ok(<<Value("xs:dateTimeStamp", CurrentDateTime)>>)
fnCurrentDate == Ok(<<Value("xs:date", convertToType(CurrentDateTime, "xs:date"))>>)
fnCurrentTime == Ok(<<Value("xs:time", convertToType(CurrentDateTime, "xs:time"))>>)
fnImplicitTimezone == Ok(<<Value("xs:dayTimeDuration", DayTimeDuration(ImplicitTimezone))>>)

\* An error has the name it is given, or the default one.
fnError(name) == Err(IF name = <<>> THEN "FOER0000" ELSE name[1].value.local)

(***************************************************************************)
(* What is declared, and what each declaration does.                       *)
(***************************************************************************)
MaybeInteger == ZeroOrOne("xs:integer")
MaybeDecimal == ZeroOrOne("xs:decimal")
MaybeZone == ZeroOrOne("xs:dayTimeDuration")
ADuration == <<ZeroOrOne("xs:duration")>>
ADate == <<ZeroOrOne("xs:date")>>
ATime == <<ZeroOrOne("xs:time")>>
ADateTime == <<ZeroOrOne("xs:dateTime")>>

DurationDeclarations ==
  <<Declaration("years-from-duration", ADuration, MaybeInteger),
    Declaration("months-from-duration", ADuration, MaybeInteger),
    Declaration("days-from-duration", ADuration, MaybeInteger),
    Declaration("hours-from-duration", ADuration, MaybeInteger),
    Declaration("minutes-from-duration", ADuration, MaybeInteger),
    Declaration("seconds-from-duration", ADuration, MaybeDecimal)>>

DateDeclarations ==
  <<Declaration("dateTime", ADate \o ATime, ZeroOrOne("xs:dateTime")),
    Declaration("year-from-dateTime", ADateTime, MaybeInteger),
    Declaration("month-from-dateTime", ADateTime, MaybeInteger),
    Declaration("day-from-dateTime", ADateTime, MaybeInteger),
    Declaration("hours-from-dateTime", ADateTime, MaybeInteger),
    Declaration("minutes-from-dateTime", ADateTime, MaybeInteger),
    Declaration("seconds-from-dateTime", ADateTime, MaybeDecimal),
    Declaration("timezone-from-dateTime", ADateTime, MaybeZone),
    Declaration("year-from-date", ADate, MaybeInteger), Declaration("month-from-date", ADate, MaybeInteger),
    Declaration("day-from-date", ADate, MaybeInteger), Declaration("timezone-from-date", ADate, MaybeZone),
    Declaration("hours-from-time", ATime, MaybeInteger),
    Declaration("minutes-from-time", ATime, MaybeInteger),
    Declaration("seconds-from-time", ATime, MaybeDecimal), Declaration("timezone-from-time", ATime, MaybeZone)>>

BooleanDeclarations ==
  <<Declaration("boolean", <<Items>>, OneBoolean), Declaration("true", <<>>, OneBoolean),
    Declaration("not", <<Items>>, OneBoolean), Declaration("false", <<>>, OneBoolean)>>

DynamicContextDeclarations ==
  <<Declaration("last", <<>>, OneInteger), Declaration("position", <<>>, OneInteger),
    Declaration("current-dateTime", <<>>, ExactlyOne("xs:dateTimeStamp")),
    Declaration("current-date", <<>>, ExactlyOne("xs:date")),
    Declaration("current-time", <<>>, ExactlyOne("xs:time")),
    Declaration("implicit-timezone", <<>>, ExactlyOne("xs:dayTimeDuration"))>>

ErrorDeclarations ==
  <<Declaration("error", <<>>, ExactlyOne("none")), Declaration("error", <<MaybeName>>, ExactlyOne("none")),
    Declaration("error", <<MaybeName, OneString>>, ExactlyOne("none"))>>

DurationFunction(name, a) ==
  CASE name = "years-from-duration"   -> fnYearsFromDuration(a[1])
    [] name = "months-from-duration"  -> fnMonthsFromDuration(a[1])
    [] name = "days-from-duration"    -> fnDaysFromDuration(a[1])
    [] name = "hours-from-duration"   -> fnHoursFromDuration(a[1])
    [] name = "minutes-from-duration" -> fnMinutesFromDuration(a[1])
    [] name = "seconds-from-duration" -> fnSecondsFromDuration(a[1])

DateFunction(name, a) ==
  CASE name = "dateTime" -> fnDateTime(a[1], a[2])
    [] name \in {"year-from-dateTime", "year-from-date"}         -> fnYearFromDateTime(a[1])
    [] name \in {"month-from-dateTime", "month-from-date"}       -> fnMonthFromDateTime(a[1])
    [] name \in {"day-from-dateTime", "day-from-date"}           -> fnDayFromDateTime(a[1])
    [] name \in {"hours-from-dateTime", "hours-from-time"}       -> fnHoursFromDateTime(a[1])
    [] name \in {"minutes-from-dateTime", "minutes-from-time"}   -> fnMinutesFromDateTime(a[1])
    [] name \in {"seconds-from-dateTime", "seconds-from-time"}   -> fnSecondsFromDateTime(a[1])
    [] OTHER                                                     -> fnTimezoneFromDateTime(a[1])

BooleanFunction(name, a) ==
  CASE name = "boolean" -> fnBoolean(a[1])
    [] name = "not"     -> fnNot(a[1])
    [] name = "true"    -> fnTrue
    [] name = "false"   -> fnFalse

DynamicContextFunction(name, context) ==
  CASE name = "last"              -> fnLast(context)
    [] name = "position"          -> fnPosition(context)
    [] name = "current-dateTime"  -> fnCurrentDateTime
    [] name = "current-date"      -> fnCurrentDate
    [] name = "current-time"      -> fnCurrentTime
    [] name = "implicit-timezone" -> fnImplicitTimezone

ErrorFunction(name, a) == fnError(IF a = <<>> THEN <<>> ELSE a[1])
=============================================================================
