------------------------------ MODULE Calendar ------------------------------
(***************************************************************************)
(* Dates, times and durations as the program keeps them.  A date-like      *)
(* value always has all the fields of a dateTime, whatever its type; what  *)
(* the type leaves out is filled in from 1972.  The comparison goes        *)
(* through JavaScript dates, which count milliseconds.                     *)
(*                                                                         *)
(* Time is counted in ticks.  A second has MsPerSecond milliseconds of     *)
(* TicksPerMs ticks each, so that a fraction can be finer than a           *)
(* millisecond.  The sign of a zero duration is left out.                  *)
(***************************************************************************)
EXTENDS Integers, Sequences, FiniteSets

CONSTANTS
  MsPerSecond, TicksPerMs,
  MaxSafe             \* the largest integer a duration may count

ASSUME CalendarAssumption == {MsPerSecond, TicksPerMs, MaxSafe} \subseteq Nat \ {0}

\* The years a JavaScript date can hold.
MinYear == -271821
MaxYear == 273860

Second == MsPerSecond * TicksPerMs
Minute == 60 * Second
Hour == 60 * Minute
Day == 24 * Hour

NoTimezone == {}    \* a time zone is the set of its offset
Ok(v) == [value |-> v]
Err(code) == [error |-> code]

\* Division and remainder of JavaScript, towards zero.
Trunc(a, b) == IF (a < 0) = (b < 0) THEN a \div b ELSE -((-a) \div b)
Rem(a, b) == a - b * Trunc(a, b)
Magnitude(a) == IF a < 0 THEN -a ELSE a

(***************************************************************************)
(* Durations.                                                              *)
(***************************************************************************)
Duration(months, ticks) == [months |-> months, ticks |-> ticks]
YearMonthDuration(months) == Duration(months, 0)
DayTimeDuration(ticks) == Duration(0, ticks)

getYears(d) == Trunc(d.months, 12)
getMonths(d) == Rem(d.months, 12)
getDays(d) == Trunc(d.ticks, Day)
getHours(d) == Trunc(Rem(d.ticks, Day), Hour)
getMinutes(d) == Trunc(Rem(d.ticks, Hour), Minute)
getSeconds(d) == Rem(d.ticks, Minute)
isPositive(d) == d.months >= 0 /\ d.ticks >= 0
negate(d) == Duration(-d.months, -d.ticks)

InRange(months, ticks) == Magnitude(months) <= MaxSafe /\ Magnitude(ticks) <= MaxSafe * Second
Checked(d) == IF InRange(d.months, d.ticks) THEN Ok(d) ELSE Err("FODT0002")

AddDurations(d, e) == Checked(Duration(d.months + e.months, d.ticks + e.ticks))
SubtractDurations(d, e) == Checked(Duration(d.months - e.months, d.ticks - e.ticks))

\* Half a month rounds up, as Math.round does.
RoundHalfUp(a, b) == LET n == IF b < 0 THEN -a ELSE a
                         m == Magnitude(b)
                     IN (2 * n + m) \div (2 * m)

\* By the fraction p / q.  A result that is too negative becomes zero.
Scaled(d, p, q) ==
  LET months == RoundHalfUp(d.months * p, q)
      ticks == Trunc(d.ticks * p, q)
  IN IF months > MaxSafe \/ ticks > MaxSafe * Second THEN Err("FODT0002")
     ELSE Ok(Duration(IF months < -MaxSafe THEN 0 ELSE months,
                      IF ticks < -MaxSafe * Second THEN 0 ELSE ticks))

\* What a duration is written as: its parts, with a sign in front of all of
\* them.  Without months it is written as a dayTimeDuration, without days and
\* smaller as a yearMonthDuration.
DurationText(d, type) ==
  [kind |-> IF type = "xs:yearMonthDuration" THEN type
            ELSE IF d.months = 0 THEN "xs:dayTimeDuration"
            ELSE IF d.ticks = 0 THEN "xs:yearMonthDuration" ELSE "xs:duration",
   n |-> 0, spaces |-> "none",
   at |-> <<isPositive(d), Magnitude(getYears(d)), Magnitude(getMonths(d)), Magnitude(getDays(d)),
            Magnitude(getHours(d)), Magnitude(getMinutes(d)), Magnitude(getSeconds(d))>>]

\* Read back: one pattern gives the months, one the days and smaller.

ReadMonths(text) ==
  LET p == text.at IN (IF p[1] THEN 1 ELSE -1) * (p[2] * 12 + p[3])
ReadTicks(text) ==
  LET p == text.at
  IN (IF p[1] THEN 1 ELSE -1) * (p[4] * Day + p[5] * Hour + p[6] * Minute + p[7])
ParseDuration(text) == Duration(ReadMonths(text), ReadTicks(text))

(***************************************************************************)
(* Dates and times.                                                        *)
(***************************************************************************)
\* Mutant: the midnight at the end of a day is the one at its start.
DateTimeWithoutDayEnd(years, months, days, hours, minutes, seconds, fraction, timezone, type) ==
  [years |-> years, months |-> months, days |-> days,
   hours |-> IF hours = 24 THEN 0 ELSE hours, minutes |-> minutes, seconds |-> seconds,
   fraction |-> fraction, timezone |-> timezone, type |-> type]

DateTime(years, months, days, hours, minutes, seconds, fraction, timezone, type) ==
  [years |-> years, months |-> months, days |-> days + (IF hours = 24 THEN 1 ELSE 0),
   hours |-> IF hours = 24 THEN 0 ELSE hours, minutes |-> minutes, seconds |-> seconds,
   fraction |-> fraction, timezone |-> timezone, type |-> type]

\* The fields a type keeps; the others come from 1972.
convertToType(d, type) ==
  LET At(y, m, day) == DateTime(y, m, day, 0, 0, 0, 0, d.timezone, type)
  IN CASE type = "xs:gDay"       -> At(1972, 12, d.days)
       [] type = "xs:gMonth"     -> At(1972, d.months, 1)
       [] type = "xs:gYear"      -> At(d.years, 1, 1)
       [] type = "xs:gMonthDay"  -> At(1972, d.months, d.days)
       [] type = "xs:gYearMonth" -> At(d.years, d.months, 1)
       [] type = "xs:time"       -> [d EXCEPT !.years = 1972, !.months = 12, !.days = 31,
                                              !.type = type]
       [] type = "xs:date"       -> At(d.years, d.months, d.days)
       [] OTHER                  -> [d EXCEPT !.type = "xs:dateTime"]

\* Which fields the written form of each type has, in order.
Written(type) ==
  CASE type = "xs:gDay"       -> <<"days">>
    [] type = "xs:gMonth"     -> <<"months">>
    [] type = "xs:gYear"      -> <<"years">>
    [] type = "xs:gMonthDay"  -> <<"months", "days">>
    [] type = "xs:gYearMonth" -> <<"years", "months">>
    [] type = "xs:time"       -> <<"hours", "minutes", "seconds">>
    [] type = "xs:date"       -> <<"years", "months", "days">>
    [] type = "xs:dateTime"   -> <<"years", "months", "days", "hours", "minutes", "seconds">>

\* Seconds are written as one number, fraction included.
getFullSeconds(d) == d.seconds + d.fraction
DateText(d) ==
  LET Shown(f) == IF f = "seconds" THEN getFullSeconds(d) ELSE d[f]
  IN [kind |-> d.type, n |-> 0, spaces |-> "none",
      at |-> [i \in DOMAIN Written(d.type) |-> Shown(Written(d.type)[i])]
             \o <<d.timezone>>]

\* Read back.  Which type it is follows from the parts that are there.
ParseDate(text) ==
  LET fields == Written(text.kind)
      Part(f, default) == IF \E i \in DOMAIN fields : fields[i] = f
                            THEN text.at[CHOOSE i \in DOMAIN fields : fields[i] = f] ELSE default
      zone == text.at[Len(text.at)]
      y == Part("years", 1972)
      seconds == Part("seconds", 0)
  IN IF y \notin MinYear .. MaxYear THEN Err("FODT0001")
     ELSE Ok(DateTime(y,
               Part("months", IF text.kind \in {"xs:gDay", "xs:time"} THEN 12 ELSE 1),
               Part("days", IF text.kind = "xs:time" THEN 31 ELSE 1),
               Part("hours", 0), Part("minutes", 0), (seconds \div Second) * Second,
               seconds % Second,
               zone, text.kind))

(***************************************************************************)
(* The clock of JavaScript: Date.UTC, in milliseconds.  A year below 100   *)
(* counts from 1900, months and days carry over, fractions are dropped.    *)
(***************************************************************************)
IsLeapYear(y) == (y % 4 = 0 /\ y % 100 # 0) \/ y % 400 = 0
LastDayOfMonth(y, m) == IF m = 2 THEN IF IsLeapYear(y) THEN 29 ELSE 28
                        ELSE IF m \in {4, 6, 9, 11} THEN 30 ELSE 31

LeapDaysBefore(y) == LET z == y - 1 IN z \div 4 - z \div 100 + z \div 400
DaysBeforeMonth == <<0, 31, 59, 90, 120, 151, 181, 212, 243, 273, 304, 334>>
DayNumber(y, m, d) ==
  (y - 1970) * 365 + LeapDaysBefore(y) - LeapDaysBefore(1970) + DaysBeforeMonth[m]
  + (IF m > 2 /\ IsLeapYear(y) THEN 1 ELSE 0) + d - 1

\* The instant as a day, and the ticks of the milliseconds past its start.
DateUTC(y, m, d, ticks) ==
  LET year == IF y \in 0 .. 99 THEN 1900 + y ELSE y
      ms == Trunc(ticks, TicksPerMs)
      perDay == Day \div TicksPerMs
  IN <<DayNumber(year + (m - 1) \div 12, ((m - 1) % 12) + 1, d) + ms \div perDay, ms % perDay>>

toJavaScriptDate(d, implicitTimezone) ==
  LET zone == Duration(0, IF d.timezone = NoTimezone THEN implicitTimezone
                          ELSE CHOOSE offset \in d.timezone : TRUE)
  IN DateUTC(d.years, d.months, d.days,
             (d.hours - getHours(zone)) * Hour + (d.minutes - getMinutes(zone)) * Minute
             + Trunc(d.seconds, Second) * Second + Trunc(d.fraction, TicksPerMs) * TicksPerMs)

Earlier(t, u) == t[1] < u[1] \/ (t[1] = u[1] /\ t[2] < u[2])
Sign(a, b) == IF a = b THEN 0 ELSE IF a > b THEN 1 ELSE -1

\* Equal milliseconds: the fractions decide.
compareDates(d, e, implicitTimezone) ==
  LET t == toJavaScriptDate(d, implicitTimezone)
      u == toJavaScriptDate(e, implicitTimezone)
  IN IF t = u THEN Sign(d.fraction, e.fraction) ELSE IF Earlier(u, t) THEN 1 ELSE -1

subtractDates(d, e, implicitTimezone) ==
  LET t == toJavaScriptDate(d, implicitTimezone)
      u == toJavaScriptDate(e, implicitTimezone)
  IN Duration(0, (t[1] - u[1]) * Day + (t[2] - u[2]) * TicksPerMs)

(***************************************************************************)
(* Adding a duration: months first, then days and smaller, each carried    *)
(* into the next.                                                          *)
(***************************************************************************)
\* Months beyond December are not yet counted as a new year while days are
\* carried into them.
RECURSIVE CarryDays(_, _, _)
CarryDays(y, m, d) ==
  IF d > LastDayOfMonth(y, m) THEN CarryDays(y, m + 1, d - LastDayOfMonth(y, m))
  ELSE IF d < 1 THEN CarryDays(y, m - 1, d + LastDayOfMonth(y, m - 1))
  ELSE <<y + (m - 1) \div 12, ((m - 1) % 12) + 1, d>>

\* Mutant: the end of the month stays where it was.
KeepDay(d, y, m) == d.days

\* The last day of a month becomes the last day of the new one.
DayAfterMonths(d, y, m) ==
  IF d.days = LastDayOfMonth(d.years, d.months) THEN LastDayOfMonth(y, m) ELSE d.days

evalDuration(d, duration) ==
  LET total == d.months + getMonths(duration)
      y == d.years + getYears(duration) + (total - 1) \div 12
      m == ((total - 1) % 12) + 1
      seconds == d.seconds + getSeconds(duration)
      minutes == d.minutes + getMinutes(duration) + seconds \div Minute
      hours == d.hours + getHours(duration) + minutes \div 60
      days == DayAfterMonths(d, y, m) + getDays(duration) + hours \div 24
      date == CarryDays(y, m, days)
  IN DateTime(date[1], date[2], date[3], hours % 24, minutes % 60, seconds % Minute,
              d.fraction, d.timezone, d.type)

addDuration(d, duration) == evalDuration(d, duration)
subtractDuration(d, duration) == evalDuration(d, negate(duration))

\* fn:dateTime: a date and a time whose time zones do not contradict.
CombineDateAndTime(date, time) ==
  LET zone == date.timezone \cup time.timezone
  IN IF Cardinality(zone) = 2 THEN Err("FORG0008")
     ELSE Ok(DateTime(date.years, date.months, date.days, time.hours, time.minutes, time.seconds,
                      time.fraction, zone, "xs:dateTime"))
=============================================================================
