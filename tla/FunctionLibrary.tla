---------------------------- MODULE FunctionLibrary ----------------------------
(***************************************************************************)
(* The library of functions in the hands of a query: what one call returns *)
(* is the first argument of the next.  The last call is kept with what it  *)
(* was given and what it returned; a call that fails leaves the sequence   *)
(* the query holds as it was.                                              *)
(***************************************************************************)
EXTENDS HigherOrderFunctions

CONSTANTS
  Starts,          \* the sequences a query starts from
  Arguments(_, _), \* function name, declared sequence type |-> the sequences passed
  Seeds,           \* of random number generators
  MaxItems,        \* the length of a sequence that is held
  MaxCalls         \* how many calls in a row a query makes

ASSUME LibraryAssumption == MaxItems \in Nat /\ MaxCalls \in Nat \ {0}

VARIABLES held, call, calls
vars == <<held, call, calls>>

(***************************************************************************)
(* The actions.                                                            *)
(***************************************************************************)
Idle == [name |-> "idle"]
Init == held \in Starts /\ call = Idle /\ calls = 0

Returns(name, given, result) ==
  /\ call' = [name |-> name, given |-> given, result |-> result]
  /\ held' = IF IsOk(result) /\ Len(result.value) <= MaxItems THEN result.value ELSE held
  /\ calls' = calls + 1

\* The characters of numerals, dates and names are not told apart: the functions
\* on strings are given strings of characters, and patterns.
IsSpelled(item) ==
  IF IsNode(item) THEN Range(StringValue[item.value].at) \subseteq DOMAIN Characters
  ELSE /\ item.type \in {"xs:string", "xs:untypedAtomic", "xs:anyURI"}
       /\ item.value.kind \in {"chars", "empty", "ahead", "optional", "invalid"}
       /\ Range(item.value.at) \subseteq DOMAIN Characters
IsCodePoint(item) ==
  /\ isSubtypeOf(item.type, "xs:integer")
  /\ ToInt(item) \in {CodePoint(c) : c \in DOMAIN Characters} \/ ~IsXmlCharacter(ToInt(item))

\* Nor is the order of JavaScript for values of two kinds: what is sorted is of one kind.
OfOneKind(array) ==
  \A m, n \in {array.value[i][1].type : i \in {j \in DOMAIN array.value : array.value[j] # <<>>}} :
    isSubtypeOf(m, "xs:anyAtomicType") /\ JsKind(m) = JsKind(n)

CanBePassedTo(name, seq) ==
  /\ name \in StringNames =>
       \A i \in DOMAIN seq : IsSpelled(seq[i]) \/ (name = "codepoints-to-string" /\ IsCodePoint(seq[i]))
  /\ name = "array:sort" => \A i \in DOMAIN seq : seq[i].type = "array(*)" => OfOneKind(seq[i])

\* Of an argument that will not convert nothing but the error is seen.
Converts(type, seq) == IsOk(performFunctionConversion(type, seq))

Parameters(d) ==
  IF Ellipsis \in Range(d.params) THEN expandParameterTypeToArity(d.params, Len(d.params)) ELSE d.params

References == [d \in Range(builtInFunctions) |-> NamedFunctionRef(builtInFunctions, d.name, Len(Parameters(d)))]

\* The calls of a function with the sequence that is held and what else there
\* is to pass; a function of no parameters, or one that takes the context item.
AskFor(name, reference, given, arguments) ==
  [name |-> name, reference |-> reference, given |-> given, arguments |-> arguments]
GivenAll(sequences) == [i \in DOMAIN sequences |-> Given(sequences[i])]

\* What may be passed after the first argument; for four of them only one choice.
OtherArguments(d, params) ==
  CASE Len(params) <= 1 -> {<<>>}
    [] Len(params) = 2  -> {<<second>> : second \in Arguments(d.name, params[2])}
    [] Len(params) = 3  -> Arguments(d.name, params[2]) \X Arguments(d.name, params[3])
    [] OTHER            -> {[i \in 1 .. 3 |-> CHOOSE seq \in Arguments(d.name, params[i + 1]) : TRUE]}

ReadsContext(d) ==
  d.name \in NamesOf(DynamicContextDeclarations) \/ (d.params = <<>> /\ d.name \in NamesOf(ContextDeclarations))
CallsOfDeclared(d) ==
  LET params == Parameters(d)
  IN IF ReadsContext(d) THEN {}
     ELSE IF params = <<>> THEN {AskFor(d.name, References[d].value, <<>>, <<>>)}
     ELSE IF ~CanBePassedTo(d.name, held) \/ ~Converts(params[1], held) THEN {}
     ELSE {AskFor(d.name, References[d].value, <<held>> \o rest, GivenAll(<<held>> \o rest)) :
             rest \in OtherArguments(d, params)}

\* An item of the sequence is called, some of its arguments left open.
Possible(f, type) == {Gap} \cup {Given(seq) : seq \in Arguments(CalledBy(f), type)}
OpenArguments(f, types) ==
  CASE types = <<>>     -> {<<>>}
    [] Len(types) = 1   -> {<<first>> : first \in Possible(f, types[1])}
    [] Len(types) = 2   -> Possible(f, types[1]) \X Possible(f, types[2])
    [] OTHER            -> Possible(f, types[1]) \X Possible(f, types[2])
                           \X {Gap, CHOOSE x \in Possible(f, types[3]) : ~x.gap}
CallsOfItem ==
  IF held = <<>> \/ ~IsFunction(held[1]) \/ Len(getArgumentTypes(held[1])) > 3 THEN {}
  ELSE {AskFor("call", held, <<held>> \o arguments, arguments) :
          arguments \in OpenArguments(held[1], getArgumentTypes(held[1]))}

CallFunction ==
  \E c \in (UNION {CallsOfDeclared(d) : d \in Range(builtInFunctions)}) \cup CallsOfItem :
    Returns(c.name, c.given, FunctionCall(c.reference, c.arguments))

\* The functions that read the context: its item is the last of those held.
CallInContext(d) ==
  /\ ReadsContext(d)
  /\ LET context == IF held = <<>> THEN <<>> ELSE <<[seq |-> held, index |-> Len(held) - 1]>>
         item == IF held = <<>> THEN <<>> ELSE <<Last(held)>>
     IN /\ CanBePassedTo(d.name, item)
        /\ Returns(d.name, <<item>>,
                   IF d.name \in NamesOf(DynamicContextDeclarations) THEN DynamicContextFunction(d.name, context)
                   ELSE contextItemAsFirstArgument(d.name, item))

Refer(d) == d.params # <<>> /\ Returns("reference", <<d.name>>, References[d])

Construct ==
  \/ Returns("square", <<held>>, SquareArrayConstructor(<<held, <<>>, held>>))
  \/ Returns("curly", <<held>>, CurlyArrayConstructor(held))
  \/ \E key \in Arguments("map", OneAtom) :
       Returns("map", <<held, key>>, MapConstructor(<<held, key>>, <<key, held>>))

LookUp(all) ==
  \E keys \in Arguments("lookup", OneInteger) \cup Arguments("lookup", OneString) :
    Returns("lookup", <<held, keys>>, Lookup(held, all, keys))

CompareNodes(op) ==
  \E other \in Arguments("is", ExactlyOne("node()")) :
    Returns("compare nodes", <<held, other>>, NodeCompare(op, held, other))

\* The generator is asked once, or once more for the number after.
Random(seed) ==
  \/ Returns("permute", <<held>>, Ok(permute(fnRandomNumberGenerator(seed), held)))
  \/ Returns("permute", <<held>>, Ok(permute(NextGenerator(fnRandomNumberGenerator(seed)), held)))

Proceed == call' = Idle /\ UNCHANGED <<held, calls>>
QueryEnds == UNCHANGED vars

Call ==
  \/ CallFunction
  \/ \E i \in DOMAIN builtInFunctions : CallInContext(builtInFunctions[i])
  \/ \E i \in DOMAIN builtInFunctions : held = <<>> /\ calls = 0 /\ Refer(builtInFunctions[i])
  \/ Construct
  \/ \E all \in BOOLEAN : LookUp(all)
  \/ \E op \in {"is", "before", "after"} : CompareNodes(op)
  \/ \E seed \in Seeds : Random(seed)

Next ==
  \/ call = Idle /\ calls < MaxCalls /\ Call
  \/ call = Idle /\ calls = MaxCalls /\ QueryEnds
  \/ call # Idle /\ Proceed

Spec == Init /\ [][Next]_vars

(***************************************************************************)
(* Properties.                                                             *)
(***************************************************************************)
AnsweredOk(name) == call.name = name /\ IsOk(call.result)
Given1 == call.given[1]
Result == call.result.value

IsWhole(x) == IsFinite(x) /\ x.n % 2 = 0
NoFraction(seq) ==
  \A i \in DOMAIN seq : isSubtypeOf(seq[i].type, "xs:integer") => IsWhole(seq[i].value)

\* A value that is called an integer is whole, whatever was calculated with: the
\* type of a result is worked out apart from its value.  Untyped numbers are
\* left out: fn:abs, fn:ceiling and fn:floor call them integers as they are.
IntegersAreWhole ==
  call.name \in NamesOf(builtInFunctions) /\ IsOk(call.result)
    /\ (\A k \in DOMAIN call.given : NoFraction(call.given[k])
          /\ \A i \in DOMAIN call.given[k] : ~IsUntyped(call.given[k][i]))
    => NoFraction(Result)

\* A node that is passed where a value is wanted counts as its text, whichever
\* function it is passed to.
AtomicParameters ==
  {type \in UNION {Range(Parameters(d)) : d \in Range(builtInFunctions)} : isSubtypeOf(type.type, "xs:anyAtomicType")}
NodesCountAsTheirText ==
  call = Idle /\ (\E i \in DOMAIN held : IsNode(held[i])) /\ (\A i \in DOMAIN held : held[i].type # "array(*)")
    /\ IsOk(atomize(held)) =>
    \A type \in AtomicParameters :
      performFunctionConversion(type, held) = performFunctionConversion(type, atomize(held).value)

\* A function with some of its arguments is the function of the others: called
\* with them, now or later, it returns the same.
PartialApplication ==
  LET arguments == Tail(call.given)
      gaps == SelectSeq([i \in DOMAIN arguments |-> i], LAMBDA i : arguments[i].gap)
      types == getArgumentTypes(Given1[1])
      Late(i, later) == IF arguments[i].gap THEN later[i] ELSE arguments[i]
  IN AnsweredOk("call") /\ gaps # <<>> =>
       \A later \in [Range(gaps) ->
                      UNION {{Given(seq) : seq \in Arguments(CalledBy(Given1[1]), types[i])} : i \in Range(gaps)}] :
         LET ways == {<<Result, [k \in DOMAIN gaps |-> later[gaps[k]]]>>,
                      <<Given1, [i \in DOMAIN arguments |-> Late(i, later)]>>}
         IN Cardinality({FunctionCall(way[1], way[2]) : way \in ways}) = 1

\* fn:subsequence returns the items whose position is in the rounded range, and
\* predicts how many: the length is known before an item is read.
LengthAsPredicted ==
  AnsweredOk("subsequence") /\ (\A k \in 2 .. Len(call.given) : IsFinite(call.given[k][1].value)) =>
    LET start == RoundedInt(call.given[2][1].value)
        length == [k \in 1 .. Len(call.given) - 2 |-> RoundedInt(call.given[3][1].value)]
        positions == SelectSeq([p \in DOMAIN Given1 |-> p],
                               LAMBDA p : start <= p /\ \A k \in DOMAIN length : p < start + length[k])
    IN /\ Result = [i \in DOMAIN positions |-> Given1[positions[i]]]
       /\ Len(Result) = PredictedLength(Len(Given1), start, length)

\* No two of the values returned are equal, and every value is equal to one of
\* them: equality of values is not transitive for durations.
DistinctAndComplete ==
  AnsweredOk("distinct-values") =>
    /\ \A i, j \in DOMAIN Result : j < i => ~anyAtomicTypeDeepEqual(Result[i], Result[j])
    /\ \A x \in Range(atomize(Given1).value) :
         \E y \in Range(Result) : x = y \/ anyAtomicTypeDeepEqual(x, y)

\* The members that stay are those at the other positions, however the positions
\* are given.
RemovesThosePositions ==
  AnsweredOk("array:remove") =>
    LET members == Given1[1].value
        positions == {ToInt(call.given[2][i]) : i \in DOMAIN call.given[2]}
        rest == SelectSeq([i \in DOMAIN members |-> i], LAMBDA i : i \notin positions)
    IN Result[1].value = [k \in DOMAIN rest |-> members[rest[k]]]

\* Sorting keeps all members and puts none before one that is less; not where an
\* empty member meets NaN, each of which is less than the other.
SortedPermutation ==
  AnsweredOk("array:sort") =>
    LET before == Given1[1].value
        after == Result[1].value
        Count(members, m) == Cardinality({i \in DOMAIN members : members[i] = m})
    IN /\ \A m \in Range(before) \cup Range(after) : Count(before, m) = Count(after, m)
       /\ <<>> \notin Range(before) \/ (\A m \in Range(before) : ~HasNaN(m)) =>
            \A i, j \in DOMAIN after : i < j =>
              sequenceDeepEqual(after[i], after[j]) \/ ~deepLessThan(after[j], after[i])

\* Merging keeps one entry for a key, where the key came first, with the value
\* the option says; not for durations and dates, of which no two are one key.
MergedByKey ==
  LET all == FlattenSeq([i \in DOMAIN Given1 |-> Given1[i].value])
  IN AnsweredOk("map:merge") /\ (\A i \in DOMAIN all : isSameMapKey(all[i].key, all[i].key)) =>
    LET merged == Result[1].value
        With(strategy, same) ==
          CASE strategy = "combine"  -> FlattenSeq([k \in DOMAIN same |-> all[same[k]].value])
            [] strategy = "use-last" -> all[Last(same)].value
            [] OTHER                 -> all[same[1]].value
        RightFor(places) ==
          /\ \A i, j \in DOMAIN merged : i < j => places[i][1] < places[j][1]
          /\ \A i \in DOMAIN merged :
               merged[i].value = With(IF Len(call.given) = 1 THEN "use-first"
                                      ELSE StrategyIn(mapGet(call.given[2][1], DuplicatesKey).value), places[i])
          /\ UNION {Range(places[i]) : i \in DOMAIN places} = DOMAIN all
    IN RightFor([i \in DOMAIN merged |-> SetToSortSeq(EntriesFor(all, merged[i].key), <)])

InBase(digits, base) == FoldLeft(LAMBDA n, digit : n * base + digit, 0, digits)
SumOfSeq(values) == FoldLeft(LAMBDA n, value : n + value, 0, values)

\* A numeral counts the number it was made from; letters do up to where the
\* bitwise or of JavaScript wraps around.
NumeralsReadBack ==
  AnsweredOk("format-integer") /\ Given1 # <<>> /\ ToInt(Given1[1]) # 0 =>
    LET n == Magnitude(ToInt(Given1[1]))
        picture == call.given[2][1].value.kind
        symbols == Result[1].value.at[2]
        greek == [i \in DOMAIN symbols |-> symbols[i] - 944 - (IF symbols[i] > 962 THEN 1 ELSE 0)]
    IN CASE picture = "A" -> n < 26 * 2 ^ (WordBits - 1) => InBase([i \in DOMAIN symbols |-> symbols[i] + 1], 26) = n
         [] picture = "lowerGreek" -> InBase(greek, 24) = n
         [] picture \in {"I", "hebrewNumeral"} -> SumOfSeq(symbols) = n
         [] picture = "arabicAbjadNumeral" -> n < 2000 => SumOfSeq(symbols) = n
         [] OTHER -> TRUE

\* Rounding gives the nearest multiple; of two that are as near the higher one,
\* or the even one.
RoundsToNearest ==
  \A name \in {"round", "round-half-to-even"} :
    AnsweredOk(name) /\ Given1 # <<>> /\ ~IsNode(Given1[1]) /\ IsFinite(Result[1].value) =>
      LET digits == IF Len(call.given) = 1 THEN 0 ELSE ToInt(call.given[2][1])
          unit == 2 * 10 ^ (-digits)
          rounded == Result[1].value.n
          IsNearest(x) ==
            IF digits > 0 THEN rounded = x
            ELSE LET off == 2 * (rounded - x)
                 IN /\ rounded % unit = 0 /\ Magnitude(off) <= unit
                    /\ Magnitude(off) = unit => IF name = "round" THEN off > 0 ELSE (rounded \div unit) % 2 = 0
      IN IsNearest(castToType(Given1[1], "xs:double").value.value.n)

\* A permutation has every item as often as it was given.
PermutesItems ==
  AnsweredOk("permute") =>
    \A x \in Range(Given1) \cup Range(Result) :
      Cardinality({i \in DOMAIN Given1 : Given1[i] = x}) = Cardinality({i \in DOMAIN Result : Result[i] = x})

\* What two elements have in common when they are deeply equal: their names,
\* their attributes, and the elements and texts in them, where texts next to
\* each other are one text and a comment parts them.
RECURSIVE Canonical(_)
Canonical(node) ==
  LET children == Dom[node].children
      IsTextAt(i) == i \in DOMAIN children /\ Dom[children[i]].type = "text()"
      Run(i) == SubSeq(children, i, Max({j \in i .. Len(children) : \A k \in i .. j : IsTextAt(k)}))
      Part(i) == CASE IsTextAt(i) /\ ~IsTextAt(i - 1) -> <<JoinedText(Run(i)).at>>
                   [] Dom[children[i]].type = "element()" -> <<Canonical(children[i])>>
                   [] OTHER -> <<>>
  IN [name |-> <<Dom[node].name, Dom[node].namespace>>,
      attributes |-> {<<Dom[a].name, Dom[a].namespace, Dom[a].data.at>> : a \in AttributesOf(node)},
      content |-> FlattenSeq([i \in DOMAIN children |-> Part(i)])]
DeepEqualIsCanonical ==
  AnsweredOk("deep-equal") /\ (\A k \in 1 .. 2 : Len(call.given[k]) = 1 /\ call.given[k][1].type = "element()") =>
    Result[1].value = (Canonical(Given1[1].value) = Canonical(call.given[2][1].value))

SpelledOut(seq) == IF seq = <<>> THEN <<>> ELSE atomize(seq).value[1].value.at

\* The tokens of a string, joined by what they were separated by, are the string.
TokensJoinAgain ==
  AnsweredOk("tokenize") /\ Len(call.given) = 2 /\ call.given[2][1].value.kind = "chars" =>
    Joined([i \in DOMAIN Result |-> CharsOf(Result[i])], SpelledOut(call.given[2])) = SpelledOut(Given1)

\* fn:substring returns the characters whose position is in the rounded range,
\* a character of two UTF-16 units as one; not where the range ends before the
\* first character by more than one, when it counts from the back.
SubstringByPosition ==
  AnsweredOk("substring") /\ (\A k \in 2 .. Len(call.given) : IsFinite(call.given[k][1].value)) =>
    LET s == SpelledOut(Given1)
        start == RoundedInt(call.given[2][1].value)
        length == [k \in 1 .. Len(call.given) - 2 |-> RoundedInt(call.given[3][1].value)]
        positions == SelectSeq([p \in DOMAIN s |-> p],
                               LAMBDA p : start <= p /\ \A k \in DOMAIN length : p < start + length[k])
    IN (\A k \in DOMAIN length : start + length[k] >= 1) =>
         CharsOf(Result[1]) = [i \in DOMAIN positions |-> s[positions[i]]]

\* The path of a node, followed from its root, leads to that node and no other.
StepFrom(node, step) ==
  LET Matches(n) == /\ Dom[n].type = step.type
                    /\ HasName(n) => Dom[n].name = step.name
                    /\ step.type \in {"element()", "attribute()"} => Dom[n].namespace = step.namespace
      siblings == SelectSeq(IF step.type = "attribute()" THEN Dom[node].attributes ELSE Dom[node].children, Matches)
  IN IF step.index \in DOMAIN siblings THEN {siblings[step.index]} ELSE {}
PathLeadsBack ==
  AnsweredOk("path") /\ call.given # <<>> /\ Given1 # <<>> =>
    LET node == Given1[1].value
        path == Result[1].value.at
    IN /\ path.document = (Dom[Lineage[node][1]].type = "document-node()")
       /\ FoldLeft(LAMBDA nodes, step : UNION {StepFrom(n, step) : n \in nodes},
                   {Lineage[node][1]}, path.steps) = {node}

\* The parts of a duration, put together again, are the duration, below zero too.
PartsMakeTheDuration ==
  call = Idle /\ Len(held) = 1 /\ isSubtypeOf(held[1].type, "xs:duration") =>
    LET Part(F(_)) == F(held).value[1].value.n \div 2
        d == held[1].value
    IN /\ 12 * Part(fnYearsFromDuration) + Part(fnMonthsFromDuration) = d.months
       /\ Part(fnDaysFromDuration) * Day + Part(fnHoursFromDuration) * Hour + Part(fnMinutesFromDuration) * Minute
            + (fnSecondsFromDuration(held).value[1].value.n * Second) \div 2 = d.ticks

-----------------------------------------------------------------------------
(* The same, by what they are about. *)

\* Numbers stay exact: what is called an integer is whole, and rounding is to the
\* nearest (fn:avg, fn:round and the numeric functions).
NumbersStayExact == IntegersAreWhole /\ RoundsToNearest

\* A call gives the same whichever way its arguments arrive: as nodes or as their
\* text, at once or some of them later (performFunctionConversion, FunctionCall).
CallsAgree == []NodesCountAsTheirText /\ [][Proceed => PartialApplication]_vars

\* What a function takes by position is what is at those positions, and as many
\* as it says (fn:subsequence, array:remove, fn:substring).
ByPosition == LengthAsPredicted /\ RemovesThosePositions /\ SubstringByPosition

\* What a function decides by equality or order neither loses nor repeats a value
\* (fn:distinct-values, array:sort, map:merge, permute, fn:deep-equal).
ByEquality ==
  [][Proceed => /\ DistinctAndComplete /\ SortedPermutation
                /\ MergedByKey /\ PermutesItems /\ DeepEqualIsCanonical]_vars

\* What is taken apart can be put together again (fn:format-integer, fn:tokenize,
\* fn:path, the parts of durations).
TakenApartAndJoined == NumeralsReadBack /\ TokensJoinAgain /\ PathLeadsBack /\ PartsMakeTheDuration
=============================================================================
