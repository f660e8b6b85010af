----------------------------- MODULE Arithmetic ------------------------------
(***************************************************************************)
(* The arithmetic operators: on numbers, durations, dates and times.       *)
(*                                                                         *)
(* An operation is found by a key packed from the codes of the two types   *)
(* and the first letters of the operator; it is chosen from the types of   *)
(* the two values, or from the types inferred before anything is           *)
(* evaluated.  There is one zero.                                          *)
(***************************************************************************)
EXTENDS Comparisons

Arithmetics == {"addOp", "subtractOp", "multiplyOp", "divOp", "idivOp", "modOp"}

\* The types an operation can be for, in the order they are tried.
allTypes == <<"xs:numeric", "xs:yearMonthDuration", "xs:dayTimeDuration", "xs:dateTime", "xs:date",
              "xs:time">>

\* Their numbers in the enumeration of types, and the first two letters of an operator.
CodeOf == "xs:numeric" :> 2 @@ "xs:date" :> 7 @@ "xs:time" :> 8 @@ "xs:dateTime" :> 9
          @@ "xs:yearMonthDuration" :> 16 @@ "xs:dayTimeDuration" :> 17
Letters == [addOp |-> <<97, 100>>, subtractOp |-> <<115, 117>>, multiplyOp |-> <<109, 117>>,
            divOp |-> <<100, 105>>, idivOp |-> <<105, 100>>, modOp |-> <<109, 111>>]

hash(left, right, op) ==
  CodeOf[left] * 2 ^ 20 + CodeOf[right] * 2 ^ 12 + Letters[op][1] * 2 ^ 8 + Letters[op][2]

\* The operations there are, with the type of their result; none for numbers,
\* whose result depends on the operands.
Entry(left, op, right, result) == [left |-> left, op |-> op, right |-> right, result |-> result]
DurationEntries(t) ==
  {Entry(t, "addOp", t, t), Entry(t, "subtractOp", t, t), Entry(t, "divOp", t, "xs:decimal"),
   Entry(t, "multiplyOp", "xs:numeric", t), Entry(t, "divOp", "xs:numeric", t),
   Entry("xs:numeric", "multiplyOp", t, t)}
DateEntries ==
  {Entry(t, "subtractOp", t, "xs:dayTimeDuration") : t \in {"xs:dateTime", "xs:date", "xs:time"}}
  \cup {Entry(t, op, "xs:dayTimeDuration", t) :
          t \in {"xs:dateTime", "xs:date", "xs:time"}, op \in {"addOp", "subtractOp"}}
  \cup {Entry(t, op, "xs:yearMonthDuration", t) :
          t \in {"xs:dateTime", "xs:date"}, op \in {"addOp", "subtractOp"}}
operationMap ==
  {Entry("xs:numeric", op, "xs:numeric", IF op = "idivOp" THEN "xs:integer" ELSE None) : op \in Arithmetics}
  \cup DurationEntries("xs:yearMonthDuration") \cup DurationEntries("xs:dayTimeDuration")
  \cup DateEntries

OperationsAt(key) == {e \in operationMap : hash(e.left, e.right, e.op) = key}

(***************************************************************************)
(* Numbers.                                                                *)
(***************************************************************************)
determineReturnType(A, B) ==
  LET Both(t) == isSubtypeOf(A, t) /\ isSubtypeOf(B, t)
  IN CASE Both("xs:integer") -> "xs:integer"
       [] Both("xs:decimal") -> "xs:decimal"
       [] Both("xs:float")   -> "xs:float"
       [] OTHER              -> "xs:double"

SignOf(x) == CASE x = INF -> 1 [] x = MinusINF -> -1 [] OTHER -> Sign(x.n, 0)
Infinite(sign) == CASE sign = 1 -> INF [] sign = -1 -> MinusINF [] OTHER -> NaN

NegatedNumber(x) == CASE x = NaN -> NaN [] x = INF -> MinusINF [] x = MinusINF -> INF
                      [] OTHER   -> Number(-x.n)

\* The result on JavaScript numbers.  Products and quotients that are no whole
\* number of halves are not represented: the operands are chosen without them.
SumOf(x, y) ==
  CASE NaN \in {x, y} -> NaN
    [] IsFinite(x) /\ IsFinite(y) -> Number(x.n + y.n)
    [] IsFinite(x) -> y
    [] IsFinite(y) -> x
    [] OTHER -> IF x = y THEN x ELSE NaN

ProductOf(x, y) ==
  CASE NaN \in {x, y} -> NaN
    [] IsFinite(x) /\ IsFinite(y) -> Number(Trunc(x.n * y.n, 2))
    [] OTHER -> Infinite(SignOf(x) * SignOf(y))

QuotientOf(x, y) ==
  CASE NaN \in {x, y} \/ ~(IsFinite(x) \/ IsFinite(y)) -> NaN
    [] ~IsFinite(x) -> Infinite(SignOf(x) * (IF y.n < 0 THEN -1 ELSE 1))
    [] ~IsFinite(y) -> Number(0)
    [] y.n = 0 -> Infinite(SignOf(x))
    [] OTHER -> Number(Trunc(2 * x.n, y.n))

RemainderOf(x, y) ==
  CASE NaN \in {x, y} \/ ~IsFinite(x) \/ y = Number(0) -> NaN
    [] ~IsFinite(y) -> x
    [] OTHER -> Number(Rem(x.n, y.n))

IsExact(op, x, y) ==
  IsFinite(x) /\ IsFinite(y) =>
    CASE op = "multiplyOp" -> x.n * y.n % 2 = 0
      [] op = "divOp" -> y.n # 0 => (2 * x.n) % Magnitude(y.n) = 0
      [] OTHER -> TRUE

Calculated(op, x, y) ==
  CASE op = "addOp"      -> SumOf(x, y)
    [] op = "subtractOp" -> SumOf(x, NegatedNumber(y))
    [] op = "multiplyOp" -> ProductOf(x, y)
    [] op = "divOp"      -> QuotientOf(x, y)
    [] op = "modOp"      -> RemainderOf(x, y)

iDivOpChecksFunction(x, y) ==
  CASE y = Number(0) -> Err("FOAR0001")
    [] NaN \in {x, y} \/ ~IsFinite(x) -> Err("FOAR0002")
    [] ~IsFinite(y) -> Ok(Value("xs:integer", Number(0)))
    [] OTHER -> Ok(Value("xs:integer", Number(2 * Trunc(x.n, y.n))))

\* Dividing integers gives a decimal.
DivisionType(op, type) == IF op = "divOp" /\ type = "xs:integer" THEN "xs:decimal" ELSE type

NumericOperation(op, A, B, x, y) ==
  LET type == determineReturnType(A, B)
  IN IF op = "idivOp" THEN iDivOpChecksFunction(x, y)
     ELSE Ok(Value(DivisionType(op, type), Calculated(op, x, y)))

(***************************************************************************)
(* Durations and dates.                                                    *)
(***************************************************************************)
ScaledBy(op, d, x) ==
  CASE x = NaN      -> Err("FOCA0005")
    [] ~IsFinite(x) -> IF op = "divOp" THEN Ok(Duration(0, 0)) ELSE Err("FODT0002")
    [] op = "multiplyOp" -> Scaled(d, x.n, 2)
    [] OTHER -> IF x.n = 0 THEN Err("FODT0002") ELSE Scaled(d, 2, x.n)

\* How many times one duration is in another, when that is a number of halves.
RatioOf(type, d, e) ==
  LET p == IF type = "xs:yearMonthDuration" THEN d.months ELSE d.ticks
      q == IF type = "xs:yearMonthDuration" THEN e.months ELSE e.ticks
  IN IF q = 0 /\ type = "xs:dayTimeDuration" THEN Err("FOAR0001")
     ELSE Ok(QuotientOf(Number(p), Number(q)))

\* Subtracting dates does not look at the time zone of the context.
OtherOperation(e, x, y) ==
  CASE e.left = "xs:numeric"  -> ScaledBy("multiplyOp", y, x)
    [] e.right = "xs:numeric" -> ScaledBy(e.op, x, y)
    [] e.op = "divOp"         -> RatioOf(e.left, x, y)
    [] e.left = e.right /\ e.result = e.left ->
         IF e.op = "addOp" THEN AddDurations(x, y) ELSE SubtractDurations(x, y)
    [] e.left = e.right       -> Ok(subtractDates(x, y, 0))
    [] e.op = "addOp"         -> Ok(addDuration(x, y))
    [] OTHER                  -> Ok(subtractDuration(x, y))

(***************************************************************************)
(* Choosing the operation from two types.                                  *)
(***************************************************************************)
AsNumber(A) == IF A = "xs:untypedAtomic" THEN "xs:double" ELSE A
ParentTypes(A) == SelectSeq(allTypes, LAMBDA t : isSubtypeOf(A, t))

\* The operations the parents of two types have a key for, the first to be
\* tried first.
FirstOperation(op, lefts, rights) ==
  LET OfFirst(rows) == IF rows = <<>> THEN {} ELSE rows[1]
      Found(keys) == SelectSeq([k \in DOMAIN keys |-> OperationsAt(keys[k])], LAMBDA row : row # {})
  IN OfFirst(Found(FlattenSeq([i \in DOMAIN lefts |->
                                 [j \in DOMAIN rights |-> hash(lefts[i], rights[j], op)]])))
OperationsFor(op, A, B) == FirstOperation(op, ParentTypes(A), ParentTypes(B))

\* What an operation does with two values, already cast.  A result is given the
\* type of the operation, whatever the values.
Perform(e, A, B, x, y) ==
  IF e.left = "xs:numeric" /\ e.right = "xs:numeric" THEN NumericOperation(e.op, AsNumber(A), AsNumber(B), x, y)
  ELSE Then(OtherOperation(e, x, y), LAMBDA v : Ok(Value(e.result, v)))
PerformCast(operations, A, B, castA, castB) ==
  CASE operations = {} -> Err("XPTY0004")
    [] ~IsOk(castA)    -> castA
    [] ~IsOk(castB)    -> castB
    [] OTHER -> Perform(CHOOSE x \in operations : TRUE, A, B, castA.value.value, castB.value.value)

\* What the operator does for two types, applied to two values.
ApplyOperator(op, A, B, a, b) ==
  LET Cast(item, T) == IF T = "xs:untypedAtomic" THEN castToType(item, "xs:double") ELSE Ok(item)
  IN PerformCast(OperationsFor(op, AsNumber(A), AsNumber(B)), A, B, Cast(a, A), Cast(b, B))

GenericTypes == {"xs:numeric", "node()", "item()", "xs:anyAtomicType", "attribute()"}

\* The type inferred for an operator: xs:numeric when an operand could be
\* anything, none when there is no operation.
generateBinaryOperatorType(op, A, B) ==
  IF {A, B} \cap GenericTypes # {} THEN "xs:numeric"
  ELSE LET ResultOf(results) ==
             CASE results = {}     -> None
               [] None \in results -> DivisionType(op, determineReturnType(AsNumber(A), AsNumber(B)))
               [] OTHER            -> CHOOSE result \in results : TRUE
       IN ResultOf({e.result : e \in OperationsFor(op, AsNumber(A), AsNumber(B))})

\* An inferred type that is of use has its operation chosen before the operands
\* are evaluated.
IsChosenStatically(type) == type \notin {None, "xs:numeric"}

\* A binary operator on two sequences of atoms; type is the type inferred for it.
CalculateAtoms(op, A, B, type, as, bs) ==
  CASE type = None -> Err("XPTY0004")
    [] ~IsOk(as) \/ as.value = <<>> -> as
    [] ~IsOk(bs) \/ bs.value = <<>> -> bs
    [] Len(as.value) > 1 \/ Len(bs.value) > 1 -> Err("XPTY0004")
    [] OTHER -> LET Chosen(T, atoms) == IF IsChosenStatically(type) THEN T ELSE atoms[1].type
                IN Then(ApplyOperator(op, Chosen(A, as.value), Chosen(B, bs.value), as.value[1], bs.value[1]),
                        LAMBDA item : Ok(<<item>>))

\* A binary operator on two sequences, the types inferred for them given.
BinaryOperator(op, A, B, first, second) ==
  CalculateAtoms(op, A, B, IF None \in {A, B} THEN "xs:numeric" ELSE generateBinaryOperatorType(op, A, B),
                 atomize(first), atomize(second))

(***************************************************************************)
(* The unary operators.  Where a type was inferred the first item is taken *)
(* as a JavaScript number and given that type.                             *)
(***************************************************************************)
\* What + of JavaScript makes of a value.
ToJsNumber(item) ==
  CASE JsKind(item.type) = "number" -> item.value
    [] JsKind(item.type) = "string" ->
         CASE AsText(item) = EmptyText             -> Number(0)
           [] AsText(item).kind = "cut exponent"   -> NaN
           [] AsText(item).kind = "Infinity"       -> INF
           [] OTHER                                -> parseFloat(AsText(item))
    [] OTHER -> NaN

Signed(kind, x) == IF kind = "+" THEN x ELSE NegatedNumber(x)

\* The type inferred from that of the operand, if that is known.
annotateUnary(A) ==
  IF A = None THEN "xs:numeric" ELSE IF isSubtypeOf(A, "xs:numeric") THEN A ELSE "xs:double"

\* The type of a negated number.
UNARY_LOOKUP(type) == IF IsBelow(type, "xs:integer") THEN "xs:integer" ELSE type

UnaryOfItem(kind, item) ==
  CASE IsUntyped(item) ->
         Then(castToType(item, "xs:double"),
              LAMBDA x : Ok(<<Value("xs:double", Signed(kind, x.value))>>))
    [] isSubtypeOf(item.type, "xs:numeric") ->
         Ok(<<IF kind = "+" THEN item
              ELSE Value(UNARY_LOOKUP(item.type), NegatedNumber(item.value))>>)
    [] OTHER -> Ok(<<Value("xs:double", NaN)>>)

\* Below an expression that is not looked into no type is inferred.
Unary(kind, annotated, A, seq) ==
  Then(atomize(seq), LAMBDA atoms :
    CASE atoms = <<>>    -> Ok(<<>>)
      [] annotated       -> Ok(<<Value(annotateUnary(A), Signed(kind, ToJsNumber(atoms[1])))>>)
      [] Len(atoms) > 1  -> Err("XPTY0004")
      [] OTHER           -> UnaryOfItem(kind, atoms[1]))
=============================================================================
