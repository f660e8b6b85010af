--------------------------- MODULE ValueOperations ----------------------------
(***************************************************************************)
(* One atomic value in the hands of a query: it is cast from type to type, *)
(* and at any time compared, added to, or asked what it is.  Where a cast  *)
(* fails the value stays what it was.  The last call is kept with what it  *)
(* was given and what it returned.                                         *)
(***************************************************************************)
EXTENDS Arithmetic

CONSTANTS
  Literals,        \* the values a query starts from
  Constructed,     \* the types whose constructors are called
  Targets,         \* the types that are named by an operator
  Operands,        \* the values it is compared to and calculated with
  OtherSequences   \* the sequences it is compared to in a general comparison

VARIABLES item, call
vars == <<item, call>>

(***************************************************************************)
(* The functions that have the name of a type.                             *)
(***************************************************************************)
PrimitiveConstructors ==
  {"xs:untypedAtomic", "xs:error", "xs:string", "xs:boolean", "xs:decimal", "xs:float",
   "xs:double", "xs:duration", "xs:dateTime", "xs:dateTimeStamp"}
DateConstructors ==
  {"xs:time", "xs:date", "xs:gYearMonth", "xs:gYear", "xs:gMonthDay", "xs:gDay", "xs:gMonth",
   "xs:hexBinary", "xs:base64Binary"}
StringConstructors ==
  {"xs:anyURI", "xs:normalizedString", "xs:token", "xs:language", "xs:NMTOKEN", "xs:NMTOKENS",
   "xs:Name", "xs:NCName", "xs:ID", "xs:IDREF", "xs:IDREFS", "xs:ENTITY", "xs:ENTITIES"}
IntegerConstructors ==
  {"xs:integer", "xs:nonPositiveInteger", "xs:negativeInteger", "xs:long", "xs:int", "xs:short",
   "xs:byte", "xs:nonNegativeInteger", "xs:unsignedLong", "xs:unsignedInt", "xs:unsignedShort"}
OtherConstructors ==
  {"xs:unsignedByte", "xs:positiveInteger", "xs:yearMonthDuration", "xs:dayTimeDuration"}
Constructors == PrimitiveConstructors \cup DateConstructors \cup StringConstructors
                \cup IntegerConstructors \cup OtherConstructors

ASSUME ConstructedAssumption == Constructed \subseteq Constructors

genericDataTypeConstructor(seq, to) ==
  IF seq = <<>> THEN Ok(seq) ELSE Then(castToType(seq[1], to), LAMBDA v : Ok(<<v>>))

(***************************************************************************)
(* The operators that name a type.                                         *)
(***************************************************************************)
CastAsOperator(seq, to, allowsEmpty) ==
  Then(atomize(seq), LAMBDA atoms :
    CASE atoms = <<>>   -> IF allowsEmpty THEN Ok(<<>>) ELSE Err("XPTY0004")
      [] Len(atoms) > 1 -> Err("XPTY0004")
      [] OTHER          -> Then(castToType(atoms[1], to), LAMBDA v : Ok(<<v>>)))

CastableAsOperator(seq, to, allowsEmpty) ==
  Then(atomize(seq), LAMBDA atoms :
    CASE atoms = <<>>   -> Ok(allowsEmpty)
      [] Len(atoms) > 1 -> Ok(FALSE)
      [] OTHER          -> CanCastToType(atoms[1], to))

InstanceOfOperator(seq, type, mult) ==
  AllowsLength(mult, Len(seq)) /\ \A i \in DOMAIN seq : isSubtypeOf(seq[i].type, type)

(***************************************************************************)
(* The actions.                                                            *)
(***************************************************************************)
Idle == [name |-> "idle"]
Init == item \in Literals /\ call = Idle

\* The sequences a query can hand on: the value, nothing, or one value more.
Arguments == {<<>>, <<item>>, <<item, item>>}

Answer(name, given, result) == call' = [name |-> name, given |-> given, result |-> result]

Construct(to) ==
  LET result == genericDataTypeConstructor(<<item>>, to)
  IN /\ item' = IF IsOk(result) THEN result.value[1] ELSE item
     /\ Answer("construct", <<item, to>>, result)

CastAs(to) ==
  \E seq \in Arguments, allowsEmpty \in BOOLEAN :
    LET result == CastAsOperator(seq, to, allowsEmpty)
    IN /\ item' = IF IsOk(result) /\ result.value # <<>> THEN result.value[1] ELSE item
       /\ Answer("cast", <<seq, to>>, result)

CastableAs(to) ==
  /\ \E seq \in Arguments : Answer("castable", <<seq, to>>, CastableAsOperator(seq, to, TRUE))
  /\ UNCHANGED item

InstanceOf(to) ==
  /\ \E seq \in Arguments, mult \in SequenceMultiplicity :
       Answer("instance", <<seq, to, mult>>, Ok(InstanceOfOperator(seq, to, mult)))
  /\ UNCHANGED item

\* The types of the operands are known before, or not.
Calculate(op, known) ==
  /\ \E right \in Operands :
       LET Inferred(x) == IF known THEN x.type ELSE None
       IN /\ JsKind(item.type) = "number" /\ JsKind(right.type) = "number"
               => IsExact(op, item.value, right.value)
          /\ Answer("calculate", <<op, item, right>>,
                    BinaryOperator(op, Inferred(item), Inferred(right), <<item>>, <<right>>))
  /\ UNCHANGED item

Negate(kind, annotated) ==
  /\ \E seq \in Arguments :
       Answer("unary", <<kind, seq>>, Unary(kind, annotated, item.type, seq))
  /\ UNCHANGED item

CompareValues(op) ==
  /\ \E right \in Operands : Answer("compare", <<op, item, right>>, ValueCompare(op, <<item>>, <<right>>))
  /\ UNCHANGED item

CompareInGeneral(op) ==
  /\ \E firsts \in {<<>>, <<item>>} \cup {<<item>> \o seq : seq \in OtherSequences}, seconds \in OtherSequences :
       Answer("general", <<op, firsts, seconds>>, GeneralCompare(op, firsts, seconds))
  /\ UNCHANGED item

\* A condition is asked for its effective boolean value, a date for its time.
Condition ==
  /\ \E seq \in Arguments : Answer("condition", seq, EffectiveBooleanValueOf(seq))
  /\ UNCHANGED item

CombineWithTime ==
  /\ item.type = "xs:date"
  /\ \E time \in Operands :
       /\ time.type = "xs:time"
       /\ LET result == CombineDateAndTime(item.value, time.value)
          IN /\ item' = IF IsOk(result) THEN Value("xs:dateTime", result.value) ELSE item
             /\ Answer("dateTime", <<item, time>>, result)

Proceed == call # Idle /\ call' = Idle /\ UNCHANGED item

TypeOperations ==
  \/ \E to \in Constructed : Construct(to)
  \/ \E to \in Targets : CastAs(to) \/ CastableAs(to)
  \/ \E type \in Targets \cup {"xs:anyAtomicType"} : InstanceOf(type)
Calculations ==
  \/ \E op \in Arithmetics, known \in BOOLEAN : Calculate(op, known)
  \/ \E kind \in {"+", "-"}, annotated \in BOOLEAN : Negate(kind, annotated)
Questions ==
  \/ \E op \in Operators : CompareValues(op) \/ CompareInGeneral(op)
  \/ Condition \/ CombineWithTime

Next ==
  \/ call = Idle /\ (TypeOperations \/ Calculations \/ Questions)
  \/ Proceed

Spec == Init /\ [][Next]_vars

(***************************************************************************)
(* Properties.                                                             *)
(***************************************************************************)
AnsweredOk(name) == call.name = name /\ IsOk(call.result)

IsBetween(n, type) ==
  LET bounds == restrictionsByName(type)
  IN \A end \in DOMAIN bounds : IF end = "minInclusive" THEN bounds[end] <= n ELSE n <= bounds[end]

\* Whatever the chain of casts, the value keeps every restriction of its type
\* and of the types that one is derived from: createCastingFunction checks the
\* restrictions of the target after it converted, and text is only checked
\* where it is read or written.  The names in a list are not looked at.
WellTyped ==
  LET Is(type) == isSubtypeOf(item.type, type)
      v == item.value
  IN call = Idle =>
     /\ Is("xs:decimal") => IsFinite(v)
     /\ Is("xs:integer") =>
          v.n % 2 = 0 /\ \A t \in Ancestry[item.type] : IsBetween(v.n \div 2, t)
     /\ Is("xs:string") => normalizeWhitespace(v, item.type) = v
     /\ Is("xs:NCName") /\ ~IsList(item.type) => v.kind \in NameForms
     /\ Is("xs:yearMonthDuration") => v.ticks = 0
     /\ Is("xs:dayTimeDuration") => v.months = 0
     /\ SomeDate(item.type) => v.type = getPrimitiveTypeName(item.type)
     /\ Is("xs:dateTimeStamp") => v.timezone # NoTimezone

\* What a value is written as reads back as the same value, where it is written
\* in a form that its type reads: a decimal that JavaScript writes with an
\* exponent is not, nor a date that has one day more than any month.
HasReadableForm(x) ==
  /\ isSubtypeOf(x.type, "xs:decimal") => Magnitude(x.value.n) < 2 * Exponential
  /\ SomeDate(x.type) => x.value.days <= 31
ReadsBack ==
  LET written == castToType(item, "xs:string")
  IN call = Idle /\ ~IsTextual(item.type) /\ ~StringLike(item.type) /\ HasReadableForm(item)
       => castToType(written.value, item.type) = Ok(item)

\* A dateTime is the instant its text says, midnight at the end of a day
\* included: the constructor of DateTime moves hour 24 to the next day and
\* leaves the day of the month for JavaScript to carry.
InstantOfText(at) ==
  LET day == DayNumber(at[1], at[2], at[3])
      offset == IF at[7] = {} THEN ImplicitTimezone ELSE CHOOSE z \in at[7] : TRUE
      ticks == at[4] * Hour + at[5] * Minute + at[6] - offset
  IN <<day + ticks \div Day, (ticks % Day) \div TicksPerMs>>
ReadsTheInstant ==
  AnsweredOk("construct") /\ IsTextual(call.given[1].type) /\ call.given[2] = "xs:dateTime"
    => toJavaScriptDate(item.value, ImplicitTimezone) = InstantOfText(call.given[1].value.at)

\* Adding months to the last day of a month gives the last day of the month that
\* is so much later.  Any other day stays the same day of that month; when it has
\* no such day, the days it lacks are carried into the month after it.
MonthsOf(d) == d.years * 12 + d.months - 1
FirstOfMonth(n) == DayNumber(n \div 12, (n % 12) + 1, 1)
DayOf(d) == DayNumber(d.years, d.months, d.days)
IsLastDay(d) == d.days = LastDayOfMonth(d.years, d.months)
MonthsLater ==
  AnsweredOk("calculate") /\ call.given[1] = "addOp"
    /\ SomeDate(call.given[2].type) /\ call.given[3].type = "xs:yearMonthDuration"
    => LET before == call.given[2].value
           after == call.result.value[1].value
           reached == MonthsOf(before) + call.given[3].value.months
       IN IF IsLastDay(before) THEN MonthsOf(after) = reached /\ IsLastDay(after)
          ELSE DayOf(after) = FirstOfMonth(reached) + before.days - 1

\* The type inferred for an operation is above the type of what it returns:
\* the code generator and the annotations of the expressions around rely on it.
InferredTypeCovers ==
  AnsweredOk("calculate") /\ call.result.value # <<>>
    => LET inferred == generateBinaryOperatorType(call.given[1], call.given[2].type, call.given[3].type)
       IN inferred # None /\ isSubtypeOf(call.result.value[1].type, inferred)

\* Of two values that can be ordered exactly one is less, or they are equal,
\* and the six operators say the same about it.
OneOrderOnly ==
  AnsweredOk("compare") /\ call.given[1] = "eq" =>
    LET x == call.given[2]
        y == call.given[3]
        Says(op) == ValueCompare(op, <<x>>, <<y>>) = Ok(<<Value("xs:boolean", TRUE)>>)
        hasNaN == \E z \in {x, y} : castToType(z, "xs:double") = Ok(Value("xs:double", NaN))
    IN /\ Says("ne") = ~Says("eq")
       /\ IsOk(ValueCompare("lt", <<x>>, <<y>>)) /\ ~hasNaN
            => /\ Cardinality({op \in {"lt", "eq", "gt"} : Says(op)}) = 1
               /\ Says("le") = ~Says("gt") /\ Says("ge") = ~Says("lt")

\* No untyped item of the one has to be cast to two types for the items of the other.
UntypedMeetsOneType(firsts, seconds) ==
  (\E i \in DOMAIN firsts : IsUntyped(firsts[i])) =>
     \A j, k \in DOMAIN seconds : TargetFor(seconds[j].type) = TargetFor(seconds[k].type)

\* A general comparison that answers says whether some item of the one compares
\* to some item of the other, wherever they are in their sequences; not when an
\* untyped item meets items that it is to be cast to different types for, as it is
\* cast for the first of them and stays what it was cast to.
GeneralIsSome ==
  AnsweredOk("general") /\ UntypedMeetsOneType(call.given[2], call.given[3])
    => call.result.value =
         \E i \in DOMAIN call.given[2], j \in DOMAIN call.given[3] :
           GeneralCompare(call.given[1], <<call.given[2][i]>>, <<call.given[3][j]>>) = Ok(TRUE)

-----------------------------------------------------------------------------
(* The same, by what they are about. *)

\* Types tell the truth: a value keeps every restriction of its type through casts
\* and arithmetic, and has the type inferred for the operation that made it.
TypesAreTrue == WellTyped /\ InferredTypeCovers

\* A value and its text are one: written it reads back, and a dateTime is the
\* instant that its text says.
TextIsTheValue == ReadsBack /\ ReadsTheInstant

\* The comparisons agree: the six value comparisons with each other, the general
\* ones with the value comparisons.
ComparisonsAgree == OneOrderOnly /\ GeneralIsSome
=============================================================================
