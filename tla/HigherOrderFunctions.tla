------------------------- MODULE HigherOrderFunctions -------------------------
(***************************************************************************)
(* Calling a function item, and the functions that do so.                  *)
(*                                                                         *)
(* What a function of the query does is the constant InlineBody; a         *)
(* function of the library may call any function again.  Arguments are     *)
(* evaluated before the call, where the program may never read them.       *)
(***************************************************************************)
EXTENDS ComponentFunctions

CONSTANTS
  InlineFunctions,    \* names of the functions of the query itself
  InlineBody(_, _)    \* name, arguments |-> the result

(***************************************************************************)
(* All declarations, in the order they are registered, and the functions on *)
(* functions.                                                              *)
(***************************************************************************)
FunctionsDeclarations ==
  <<Declaration("function-lookup", <<ExactlyOne("xs:QName"), OneInteger>>, ZeroOrOne("function(*)")),
    Declaration("function-name", <<OneFunction>>, MaybeName),
    Declaration("function-arity", <<OneFunction>>, OneInteger)>>

builtInFunctions ==
  ArrayDeclarations \o MoreArrayDeclarations \o BooleanDeclarations \o DynamicContextDeclarations
  \o DateDeclarations \o DurationDeclarations \o ErrorDeclarations \o MapDeclarations
  \o NodeFunctionDeclarations \o NumericDeclarations \o OpToDeclaration \o PartDeclarations
  \o AggregateDeclarations \o CollationDeclarations \o StringDeclarations \o FunctionsDeclarations

fnFunctionLookup(name, arity) ==
  LET found == NamedFunctionRef(builtInFunctions, name.value.local, ToInt(arity))
  IN Ok(IF IsOk(found) THEN found.value ELSE <<>>)

\* Neither a partial application nor a function of the query has a name; a map
\* and an array have the name of the function that looks up in them.
fnFunctionName(f) ==
  CASE f.type # "function(*)" -> Ok(<<QNameOf("", f.type, "get")>>)
    [] f.value.name \in InlineFunctions \/ f.value.applied -> Ok(<<>>)
    [] OTHER -> Ok(<<QNameOf("", "fn", f.value.name)>>)
fnFunctionArity(f) == Ok(<<Integer(getArity(f))>>)

FunctionOnFunctions(name, a) ==
  CASE name = "function-lookup" -> fnFunctionLookup(a[1][1], a[2][1])
    [] name = "function-name"   -> fnFunctionName(a[1][1])
    [] name = "function-arity"  -> fnFunctionArity(a[1][1])

NamesOf(declarations) == {declarations[i].name : i \in DOMAIN declarations}
ArrayNames == NamesOf(ArrayDeclarations \o MoreArrayDeclarations)
MapNames == NamesOf(MapDeclarations)
PartNames == NamesOf(PartDeclarations)
AggregateNames == NamesOf(AggregateDeclarations \o OpToDeclaration)
NumericNames == NamesOf(NumericDeclarations)
ComparingNames == NamesOf(ComparingDeclarations)
PartOfStringNames == NamesOf(PartOfStringDeclarations)
PatternNames == NamesOf(PatternDeclarations)
NameNames == NamesOf(NameDeclarations)
PlaceNames == NamesOf(PlaceDeclarations)
DurationNames == NamesOf(DurationDeclarations)
DateNames == NamesOf(DateDeclarations)
BooleanNames == NamesOf(BooleanDeclarations)
FunctionsNames == NamesOf(FunctionsDeclarations)
StringNames == ComparingNames \cup PartOfStringNames \cup PatternNames \cup {"lang", "id", "idref"}

RECURSIVE CallWith(_, _), CallValue(_, _)

(***************************************************************************)
(* Functions that call a function for the items of a sequence.  Without    *)
(* items it is not looked at; its arguments are converted, its result is   *)
(* not.                                                                    *)
(***************************************************************************)
IfTrue(item, result) ==
  CASE ~IsOk(result) -> result
    [] Len(result.value) # 1 -> Err("XPTY0004")
    [] ~isSubtypeOf(result.value[1].type, "xs:boolean") -> Err("XPTY0004")
    [] OTHER -> Ok(IF result.value[1].value THEN <<item>> ELSE <<>>)

fnFilter(seq, f) ==
  IF seq = <<>> THEN Ok(<<>>)
  ELSE IF ~HasArity(f, 1) THEN Err("XPTY0004")
  ELSE Concatenated([i \in DOMAIN seq |-> IfTrue(seq[i], CallWith(f, <<Given(<<seq[i]>>)>>))])

fnForEach(seq, f) ==
  IF seq = <<>> THEN Ok(<<>>)
  ELSE IF ~HasArity(f, 1) THEN Err("XPTY0004")
  ELSE Concatenated([i \in DOMAIN seq |-> CallWith(f, <<Given(<<seq[i]>>)>>)])

\* Of no items the fold is empty, and not the value it starts from.  From the
\* right too, what there is so far is converted to the first argument and the item
\* to the second; they are passed the other way around.
InOrder(pair, fromRight) == IF fromRight THEN Reverse(pair) ELSE pair
CallFolded(f, converted, fromRight) ==
  Then(converted, LAMBDA pair :
         LET passed == InOrder(pair, fromRight) IN CallValue(f, <<passed[1].value, passed[2].value>>))
Folded(seq, zero, f, fromRight) ==
  IF seq = <<>> THEN Ok(<<>>)
  ELSE IF ~HasArity(f, 2) THEN Err("XPTY0004")
  ELSE FoldLeft(LAMBDA previous, current :
                  IF ~IsOk(previous) THEN previous
                  ELSE CallFolded(f, transformArgumentList(getArgumentTypes(f),
                                                           <<Given(previous.value), Given(<<current>>)>>),
                                  fromRight),
                Ok(zero), seq)
fnFoldLeft(seq, zero, f) == Folded(seq, zero, f, FALSE)
fnFoldRight(seq, zero, f) == Folded(Reverse(seq), zero, f, TRUE)

(***************************************************************************)
(* For the members of an array, and the entries of a map.                  *)
(***************************************************************************)
AsArray(members) == IF IsOk(members) THEN ArrayOk(members.value) ELSE members

arrayForEach(array, f) ==
  IF ~HasArity(f, 1) THEN Err("XPTY0004")
  ELSE AsArray(Collected([i \in DOMAIN array.value |-> CallWith(f, <<Given(array.value[i])>>)]))

\* Every result counts by its effective boolean value.
TruthOf(result) == IF IsOk(result) THEN EffectiveBooleanValueOf(result.value) ELSE result
MembersWhere(members, holds) ==
  IF IsOk(holds) THEN ArrayOk(ItemsAt(members, IndicesOf(holds.value))) ELSE holds
arrayFilter(array, f) ==
  IF ~HasArity(f, 1) THEN Err("XPTY0004")
  ELSE MembersWhere(array.value,
                    Collected([i \in DOMAIN array.value |-> TruthOf(CallWith(f, <<Given(array.value[i])>>))]))

\* Only the member is converted; a fold from the right also passes what it has
\* so far as the first argument.
FoldMember(f, accum, member) ==
  IF IsOk(member) THEN CallValue(f, <<accum, member.value>>) ELSE member
ArrayFold(members, start, f) ==
  IF ~HasArity(f, 2) THEN Err("XPTY0004")
  ELSE FoldLeft(LAMBDA accum, member :
                  IF ~IsOk(accum) THEN accum
                  ELSE FoldMember(f, accum.value, performFunctionConversion(getArgumentTypes(f)[1], member)),
                Ok(start), members)
arrayFoldLeft(array, start, f) == ArrayFold(array.value, start, f)
arrayFoldRight(array, start, f) == ArrayFold(Reverse(array.value), start, f)

arrayForEachPair(a, b, f) ==
  IF ~HasArity(f, 2) THEN Err("XPTY0004")
  ELSE AsArray(Collected([i \in 1 .. Min({Len(a.value), Len(b.value)}) |->
                            CallWith(f, <<Given(a.value[i]), Given(b.value[i])>>)]))

\* The arguments are not converted, nor is the arity looked at, nor whether it
\* is a function at all.
mapForEach(map, action) ==
  IF map.value # <<>> /\ (action = <<>> \/ ~IsFunction(action[1])) THEN Throws("TypeError")
  ELSE Concatenated([i \in DOMAIN map.value |->
                       CallValue(action[1], <<<<map.value[i].key>>, map.value[i].value>>)])

HigherOrderFunction(name, a) ==
  CASE name = "filter"      -> fnFilter(a[1], a[2][1])
    [] name = "for-each"    -> fnForEach(a[1], a[2][1])
    [] name = "fold-left"   -> fnFoldLeft(a[1], a[2], a[3][1])
    [] name = "fold-right"  -> fnFoldRight(a[1], a[2], a[3][1])
    [] name = "array:for-each" -> arrayForEach(a[1][1], a[2][1])
    [] name = "array:filter"   -> arrayFilter(a[1][1], a[2][1])
    [] name = "array:fold-left"  -> arrayFoldLeft(a[1][1], a[2], a[3][1])
    [] name = "array:fold-right" -> arrayFoldRight(a[1][1], a[2], a[3][1])
    [] name = "array:for-each-pair" -> arrayForEachPair(a[1][1], a[2][1], a[3][1])
    [] name = "map:for-each" -> mapForEach(a[1][1], a[2])
HigherOrderNames ==
  {"filter", "for-each", "fold-left", "fold-right", "array:for-each", "array:filter", "array:fold-left",
   "array:fold-right", "array:for-each-pair", "map:for-each"}

(***************************************************************************)
(* What a function does, by its name.                                      *)
(***************************************************************************)
LibraryFunction(name, a) ==
  CASE name \in InlineFunctions   -> InlineBody(name, a)
    [] name = "get"               -> ValueIn(a[1][1], a[2][1])
    [] name \in HigherOrderNames  -> HigherOrderFunction(name, a)
    [] name \in PartNames         -> PartFunction(name, a)
    [] name \in AggregateNames    -> AggregateFunction(name, a)
    [] name \in ArrayNames        -> ArrayFunction(name, a)
    [] name \in MapNames          -> MapFunction(name, a)
    [] name \in NumericNames      -> NumericFunction(name, a)
    [] name \in ComparingNames    -> ComparingFunction(name, a)
    [] name \in PartOfStringNames -> PartOfStringFunction(name, a)
    [] name \in PatternNames      -> PatternFunction(name, a)
    [] name \in NameNames         -> NameFunction(name, a)
    [] name \in PlaceNames        -> PlaceFunction(name, a)
    [] name \in DurationNames     -> DurationFunction(name, a)
    [] name \in DateNames         -> DateFunction(name, a)
    [] name \in BooleanNames      -> BooleanFunction(name, a)
    [] name \in FunctionsNames    -> FunctionOnFunctions(name, a)
    [] OTHER                      -> ErrorFunction(name, a)

(***************************************************************************)
(* Calling a function item: with arguments that are converted already,     *)
(* with arguments as they are, and as an expression of the query does,     *)
(* which converts the result too.                                          *)
(***************************************************************************)
CallValue(f, arguments) == LibraryFunction(CalledBy(f), AllArguments(f, arguments))

CallConverted(f, converted) ==
  CASE ~IsOk(converted) -> converted
    [] \E i \in DOMAIN converted.value : converted.value[i].gap -> Ok(<<applyArguments(f, converted.value)>>)
    [] OTHER -> CallValue(f, [i \in DOMAIN converted.value |-> converted.value[i].value])
CallWith(f, arguments) == CallConverted(f, transformArgumentList(getArgumentTypes(f), arguments))

Returned(type, arguments, result) ==
  IF \E i \in DOMAIN arguments : arguments[i].gap THEN result ELSE ConvertResult(type, result)
callFunction(f, arguments) == Returned(getReturnType(f), arguments, CallWith(f, arguments))

FunctionCall(reference, arguments) ==
  IF Len(reference) # 1 THEN Err("XPTY0004")
  ELSE IF ~validateFunctionItem(reference[1], Len(arguments)) THEN Err("XPTY0004")
  ELSE callFunction(reference[1], arguments)
=============================================================================
