-------------------------- MODULE SequenceFunctions ---------------------------
(***************************************************************************)
(* The functions on sequences.  Every operator takes its arguments after   *)
(* the function conversion rules have been applied.                        *)
(***************************************************************************)
EXTENDS FunctionCalls

RoundedInt(x) == (x.n + 1) \div 2      \* Math.round, of a number of halves

(***************************************************************************)
(* Taking a part.                                                          *)
(***************************************************************************)
\* Up to a length, or to the end.
subSequence(seq, start, length) ==
  LET last == IF length = <<>> THEN Len(seq) ELSE Min({Len(seq), start + length[1] - 1})
  IN SubSeq(seq, Max({start, 1}), last)

\* How many items the part is predicted to have, when n are known to be there.
PredictedLength(n, start, length) ==
  LET end == IF length = <<>> THEN n ELSE Max({0, Min({n, length[1] + start - 1})})
  IN Max({0, end - Max({start - 1, 0})})

fnHead(seq) == Ok(subSequence(seq, 1, <<1>>))
fnTail(seq) == Ok(subSequence(seq, 2, <<>>))

\* A length that is not given is to the end.  From minus infinity everything
\* is returned, whatever the length, unless that is infinite.
fnSubsequence(seq, start, length) ==
  LET len == IF length = <<>> \/ length = <<INF>> THEN <<>> ELSE length
      rounded == [i \in DOMAIN len |-> RoundedInt(len[i])]
  IN Ok(CASE start = INF \/ (start = MinusINF /\ length = <<INF>>) -> <<>>
          [] start = MinusINF                                      -> seq
          [] start = NaN \/ len \in {<<NaN>>, <<MinusINF>>}         -> <<>>
          [] OTHER -> subSequence(seq, RoundedInt(start), rounded))

fnInsertBefore(seq, position, inserts) ==
  LET before == Min({Max({position - 1, 0}), Len(seq)})
  IN Ok(CASE seq = <<>>     -> inserts
          [] inserts = <<>> -> seq
          [] OTHER -> SubSeq(seq, 1, before) \o inserts \o SubSeq(seq, before + 1, Len(seq)))

fnRemove(seq, position) ==
  Ok(IF position \in DOMAIN seq THEN RemoveAt(seq, position) ELSE seq)
fnReverse(seq) == Ok(Reverse(seq))
fnUnordered(seq) == Ok(seq)
opTo(from, to) ==
  Ok(IF from = <<>> \/ to = <<>> THEN <<>>
     ELSE [i \in 1 .. Max({0, ToInt(to[1]) - ToInt(from[1]) + 1}) |-> Integer(ToInt(from[1]) + i - 1)])

(***************************************************************************)
(* Counting, cardinality and equality.                                     *)
(***************************************************************************)
fnEmpty(seq) == Ok(<<Boolean(seq = <<>>)>>)
fnExists(seq) == Ok(<<Boolean(seq # <<>>)>>)
fnCount(seq) == Ok(<<Integer(Len(seq))>>)
fnZeroOrOne(seq) == IF Len(seq) > 1 THEN Err("FORG0003") ELSE Ok(seq)
fnOneOrMore(seq) == IF seq = <<>> THEN Err("FORG0004") ELSE Ok(seq)
fnExactlyOne(seq) == IF Len(seq) # 1 THEN Err("FORG0005") ELSE Ok(seq)
fnDeepEqual(seq1, seq2) == Ok(<<Boolean(sequenceDeepEqual(seq1, seq2))>>)

\* An item is kept when no item before it is equal, kept or not.
ItemsAt(xs, positions) == [k \in DOMAIN positions |-> xs[positions[k]]]
FirstOfEach(xs) ==
  SelectSeq([i \in DOMAIN xs |-> i], LAMBDA i : \A j \in 1 .. i - 1 : ~anyAtomicTypeDeepEqual(xs[i], xs[j]))
Distinct(atoms) == IF IsOk(atoms) THEN Ok(ItemsAt(atoms.value, FirstOfEach(atoms.value))) ELSE atoms
fnDistinctValues(seq) == Distinct(atomize(seq))

\* One item that cannot be compared makes the whole search fail.
IndicesOf(matches) == SelectSeq([i \in DOMAIN matches |-> i], LAMBDA i : matches[i])
EqualTo(search, xs) ==
  IF IsOk(xs) THEN Collected([i \in DOMAIN xs.value |-> valueCompare("eq", xs.value[i], search)]) ELSE xs
Numbered(positions) == Ok([k \in DOMAIN positions |-> Integer(positions[k])])
WhereTrue(matches) == IF IsOk(matches) THEN Numbered(IndicesOf(matches.value)) ELSE matches
fnIndexOf(seq, search) == WhereTrue(EqualTo(search, atomize(seq)))

(***************************************************************************)
(* Aggregates.  The items, each of which may be missing, are converted to  *)
(* a common type, or there is none.                                        *)
(***************************************************************************)
castUntypedItemsToDouble(items) ==
  Collected([i \in DOMAIN items |->
               IF IsUntyped(items[i]) THEN castToType(items[i], "xs:double") ELSE Ok(items[i])])

\* One type all of them have.  A first item that is missing has no type, and
\* then there is none.
CommonTypeName(items) ==
  LET TypeOf(item) == IF item = <<>> THEN None ELSE getPrimitiveTypeName(item[1].type)
  IN FoldLeft(LAMBDA name, item : IF TypeOf(item) \in {None, name} THEN name ELSE None,
              TypeOf(items[1]), Tail(items))

AllOf(items, types) ==
  \A i \in DOMAIN items : items[i] = <<>> \/ \E t \in types : isSubtypeOf(items[i][1].type, t)

AsSequence(result) == IF IsOk(result) THEN Ok(<<result.value>>) ELSE result
CastAll(items, to) ==
  IF to = None THEN Err("FORG0006")
  ELSE Collected([i \in DOMAIN items |->
                   IF items[i] = <<>> THEN Ok(<<>>) ELSE AsSequence(castToType(items[i][1], to))])

TypeInCommon(items) ==
  CASE AllOf(items, {"xs:string", "xs:anyURI"})              -> "xs:string"
    [] AllOf(items, {"xs:decimal", "xs:float"})              -> "xs:float"
    [] AllOf(items, {"xs:decimal", "xs:float", "xs:double"}) -> "xs:double"
    [] OTHER                                                 -> None

convertItemsToCommonType(items) ==
  IF AllOf(items, {"xs:integer", "xs:decimal"}) \/ CommonTypeName(items) # None THEN Ok(items)
  ELSE CastAll(items, TypeInCommon(items))

CommonItems(seq) == Flattened(convertItemsToCommonType([i \in DOMAIN seq |-> <<seq[i]>>]))

HasNaN(items) == \E i \in DOMAIN items : JsKind(items[i].type) = "number" /\ items[i].value = NaN
Extremes == {"max", "min"}

\* The numbers that are added up, and what is compared, which NaN decides.
OnlyNumbers(common) ==
  IF IsOk(common) => \A i \in DOMAIN common.value : isSubtypeOf(common.value[i].type, "xs:numeric")
  THEN common ELSE Err("FORG0006")
castItemsForMinMax(items, common) == IF HasNaN(items) THEN Ok(<<Value("xs:double", NaN)>>) ELSE common
CommonFor(name, items, common) ==
  IF name \in Extremes THEN castItemsForMinMax(items, common) ELSE OnlyNumbers(common)

\* Objects are compared as the texts they are written as.
IsBetter(max, item, best) == StrictlyLess(IF max THEN best ELSE item, IF max THEN item ELSE best)
Extreme(items, max) ==
  FoldLeft(LAMBDA best, item : IF IsBetter(max, item, best) THEN item ELSE best, items[1], Tail(items))
fnMax(items) == Extreme(items, TRUE)
fnMin(items) == Extreme(items, FALSE)

Total(items) == FoldLeft(LAMBDA sum, item : SumOf(sum, item.value), Number(0), items)
AllAre(items, types) == \A i \in DOMAIN items : \E t \in types : isSubtypeOf(items[i].type, t)

fnSum(items) ==
  Value(CASE AllAre(items, {"xs:integer"}) -> "xs:integer"
          [] AllAre(items, {"xs:double"})  -> "xs:double"
          [] AllAre(items, {"xs:decimal"}) -> "xs:decimal"
          [] OTHER                         -> "xs:float", Total(items))

\* The average of integers is a double.
fnAvg(items) ==
  Value(CASE AllAre(items, {"xs:integer", "xs:double"}) -> "xs:double"
          [] AllAre(items, {"xs:decimal"})              -> "xs:decimal"
          [] OTHER                                      -> "xs:float",
        QuotientOf(Total(items), Number(2 * Len(items))))

\* What is aggregated: the items once the untyped are doubles, then all of one type.
Aggregated(name, items) ==
  CASE ~IsOk(items)   -> items
    [] name = "max"   -> Ok(<<fnMax(items.value)>>)
    [] name = "min"   -> Ok(<<fnMin(items.value)>>)
    [] name = "sum"   -> Ok(<<fnSum(items.value)>>)
    [] name = "avg"   -> Ok(<<fnAvg(items.value)>>)
AfterCasting(name, items) ==
  IF IsOk(items) THEN Aggregated(name, CommonFor(name, items.value, CommonItems(items.value))) ELSE items
Aggregate(name, seq, empty) ==
  IF seq = <<>> THEN Ok(empty) ELSE AfterCasting(name, castUntypedItemsToDouble(seq))

(***************************************************************************)
(* Text.                                                                   *)
(***************************************************************************)
\* Needs the serializer of the evaluation, and nodes only.
fnSerialize(hasSerializer, seq) ==
  IF ~hasSerializer \/ \E i \in DOMAIN seq : ~IsNode(seq[i]) THEN Err("error")
  ELSE Ok(<<Value("xs:string", Text("serialized", 0, [i \in DOMAIN seq |-> seq[i].value], "none"))>>)

(***************************************************************************)
(* What is declared, and what each declaration does.                       *)
(***************************************************************************)
Items == ZeroOrMore("item()")
Atoms == ZeroOrMore("xs:anyAtomicType")
OneInteger == ExactlyOne("xs:integer")
OneString == ExactlyOne("xs:string")
OneBoolean == ExactlyOne("xs:boolean")
OneDouble == ExactlyOne("xs:double")
OneFunction == ExactlyOne("function(*)")
MaybeAtom == ZeroOrOne("xs:anyAtomicType")

PartDeclarations ==
  <<Declaration("empty", <<Items>>, OneBoolean), Declaration("exists", <<Items>>, OneBoolean),
    Declaration("head", <<Items>>, ZeroOrOne("item()")), Declaration("tail", <<Items>>, Items),
    Declaration("insert-before", <<Items, OneInteger, Items>>, Items),
    Declaration("remove", <<Items, OneInteger>>, Items), Declaration("reverse", <<Items>>, Items),
    Declaration("subsequence", <<Items, OneDouble>>, Items),
    Declaration("subsequence", <<Items, OneDouble, OneDouble>>, Items),
    Declaration("unordered", <<Items>>, Items), Declaration("distinct-values", <<Atoms>>, Atoms),
    Declaration("index-of", <<Atoms, ExactlyOne("xs:anyAtomicType")>>, ZeroOrMore("xs:integer")),
    Declaration("deep-equal", <<Items, Items>>, OneBoolean)>>

AggregateDeclarations ==
  <<Declaration("count", <<Items>>, OneInteger), Declaration("avg", <<Atoms>>, MaybeAtom),
    Declaration("max", <<Atoms>>, MaybeAtom), Declaration("min", <<Atoms>>, MaybeAtom),
    Declaration("sum", <<Atoms>>, ExactlyOne("xs:anyAtomicType")),
    Declaration("sum", <<Atoms, MaybeAtom>>, MaybeAtom),
    Declaration("zero-or-one", <<Items>>, ZeroOrOne("item()")),
    Declaration("one-or-more", <<Items>>, OneOrMore("item()")),
    Declaration("exactly-one", <<Items>>, ExactlyOne("item()")),
    Declaration("filter", <<Items, OneFunction>>, Items),
    Declaration("for-each", <<Items, OneFunction>>, Items),
    Declaration("fold-left", <<Items, Items, OneFunction>>, Items),
    Declaration("fold-right", <<Items, Items, OneFunction>>, Items),
    Declaration("serialize", <<Items>>, OneString)>>

\* With a collation there is a declaration for each that only fails.
CollationDeclarations ==
  <<Declaration("distinct-values", <<Atoms, OneString>>, Atoms),
    Declaration("index-of", <<Atoms, ExactlyOne("xs:anyAtomicType"), OneString>>, ZeroOrMore("xs:integer")),
    Declaration("deep-equal", <<Items, Items, OneString>>, OneBoolean),
    Declaration("max", <<Atoms, OneString>>, MaybeAtom),
    Declaration("min", <<Atoms, OneString>>, MaybeAtom)>>
collationError == Err("FOCH0002")

OpToDeclaration ==
  <<Declaration("to", <<ZeroOrOne("xs:integer"), ZeroOrOne("xs:integer")>>, ZeroOrMore("xs:integer"))>>

PartFunction(name, a) ==
  CASE name = "empty"         -> fnEmpty(a[1])
    [] name = "exists"        -> fnExists(a[1])
    [] name = "head"          -> fnHead(a[1])
    [] name = "tail"          -> fnTail(a[1])
    [] name = "insert-before" -> fnInsertBefore(a[1], ToInt(a[2][1]), a[3])
    [] name = "remove"        -> fnRemove(a[1], ToInt(a[2][1]))
    [] name = "reverse"       -> fnReverse(a[1])
    [] name = "subsequence"   ->
         fnSubsequence(a[1], a[2][1].value, IF Len(a) = 2 THEN <<>> ELSE <<a[3][1].value>>)
    [] name = "unordered"     -> fnUnordered(a[1])
    [] name = "distinct-values" -> IF Len(a) = 2 THEN collationError ELSE fnDistinctValues(a[1])
    [] name = "index-of"      -> IF Len(a) = 3 THEN collationError ELSE fnIndexOf(a[1], a[2][1])
    [] name = "deep-equal"    -> IF Len(a) = 3 THEN collationError ELSE fnDeepEqual(a[1], a[2])

AggregateFunction(name, a) ==
  CASE name = "count"       -> fnCount(a[1])
    [] name \in Extremes /\ Len(a) = 2 -> collationError
    [] name \in Extremes \cup {"avg", "sum"} ->
         Aggregate(name, a[1], IF name # "sum" THEN <<>> ELSE IF Len(a) = 1 THEN <<Integer(0)>> ELSE a[2])
    [] name = "zero-or-one" -> fnZeroOrOne(a[1])
    [] name = "one-or-more" -> fnOneOrMore(a[1])
    [] name = "exactly-one" -> fnExactlyOne(a[1])
    [] name = "serialize"   -> fnSerialize(TRUE, a[1])
    [] name = "to"          -> opTo(a[1], a[2])
=============================================================================
