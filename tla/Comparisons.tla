----------------------------- MODULE Comparisons -----------------------------
(***************************************************************************)
(* Comparing: value comparisons, general comparisons, comparisons of       *)
(* nodes, the effective boolean value, and fn:deep-equal.                  *)
(*                                                                         *)
(* An item is an atomic value, or a node, an array (a sequence of          *)
(* sequences), a map (a sequence of entries) or a function with its type.  *)
(* The nodes are those of one document, given by the constants.            *)
(***************************************************************************)
EXTENDS Casting

CONSTANTS
  Dom,               \* node -> [type, name, namespace, data, children, attributes]
  NodePositions,     \* the nodes in document order
  TextLess(_, _),    \* the order of two texts by their UTF-16 units
  ImplicitTimezone   \* of the dynamic context, in ticks

ASSUME DomAssumption ==
  /\ \A node \in DOMAIN Dom : \A i \in DOMAIN Dom[node].children : Dom[node].children[i] \in DOMAIN Dom
  /\ {NodePositions[i] : i \in DOMAIN NodePositions} = DOMAIN Dom

Node(node) == [type |-> Dom[node].type, value |-> node]
IsNode(item) == isSubtypeOf(item.type, "node()")
IndexIn(seq, x) == CHOOSE i \in DOMAIN seq : seq[i] = x

(***************************************************************************)
(* Atomizing.  The text of an element is that of the text nodes in it, in  *)
(* order; a text is the data of text nodes next to each other.             *)
(***************************************************************************)
RECURSIVE TextNodesOf(_)
TextNodesOf(node) ==
  IF Dom[node].type = "text()" THEN <<node>>
  ELSE FlattenSeq([i \in DOMAIN Dom[node].children |-> TextNodesOf(Dom[node].children[i])])

EmptyText == Word("empty")

\* One text node has the text of its data; several are made of characters.
JoinedText(nodes) ==
  LET characters == FlattenSeq([i \in DOMAIN nodes |-> Dom[nodes[i]].data.at])
  IN IF Len(nodes) = 1 THEN Dom[nodes[1]].data
     ELSE IF characters = <<>> THEN EmptyText ELSE Text("chars", 0, characters, "none")

StringValue[node \in DOMAIN Dom] ==
  IF Dom[node].type \in {"element()", "document-node()"} THEN JoinedText(TextNodesOf(node))
  ELSE Dom[node].data

RECURSIVE atomizeSingleValue(_), atomize(_)
atomizeSingleValue(item) ==
  CASE isSubtypeOf(item.type, "xs:anyAtomicType") -> Ok(<<item>>)
    [] IsNode(item) ->
         Ok(<<Value(IF item.type \in {"comment()", "processing-instruction()"} THEN "xs:string"
                    ELSE "xs:untypedAtomic", StringValue[item.value])>>)
    [] item.type = "array(*)" -> atomize(FlattenSeq(item.value))
    [] OTHER -> Err("FOTY0013")

atomize(seq) ==
  LET upTo[i \in 0 .. Len(seq)] ==
        IF i = 0 THEN Ok(<<>>)
        ELSE Then(upTo[i - 1], LAMBDA atoms :
               Then(atomizeSingleValue(seq[i]), LAMBDA more : Ok(atoms \o more)))
  IN upTo[Len(seq)]

\* The same one by one, as a reader comes to them: each atom, or the error in its
\* place.
RECURSIVE AtomsInTurn(_)
AtomsInTurn(seq) ==
  FlattenSeq([i \in DOMAIN seq |->
    IF seq[i].type = "array(*)" THEN AtomsInTurn(FlattenSeq(seq[i].value))
    ELSE LET single == atomizeSingleValue(seq[i])
         IN <<IF IsOk(single) THEN Ok(single.value[1]) ELSE single>>])

(***************************************************************************)
(* Comparing two values of JavaScript.                                     *)
(***************************************************************************)
JsKind(type) ==
  CASE isSubtypeOf(type, "xs:numeric") -> "number"
    [] type = "xs:boolean" -> "boolean"
    [] \E t \in {"xs:string", "xs:untypedAtomic", "xs:anyURI", "xs:hexBinary", "xs:base64Binary"} :
         isSubtypeOf(type, t) -> "string"
    [] OTHER -> "object"

AsText(item) == castToStringLikeType(PrimitiveOf(item.type), item.value).value

\* ===: objects are equal when they are one object; the values here never are.
EqualAs(kind, a, b) ==
  CASE kind = "number"  -> a.value = b.value /\ a.value # NaN
    [] kind = "boolean" -> a.value = b.value
    [] kind = "string"  -> AsText(a) = AsText(b)
    [] OTHER            -> FALSE
StrictlyEqual(a, b) == JsKind(a.type) = JsKind(b.type) /\ EqualAs(JsKind(a.type), a, b)

NumberLess(x, y) ==
  /\ NaN \notin {x, y} /\ x # y
  /\ IF IsFinite(x) /\ IsFinite(y) THEN x.n < y.n ELSE x = MinusINF \/ y = INF

\* <: of two numbers, two booleans or two texts; nodes, maps and functions are
\* written like each other.
StrictlyLess(a, b) ==
  CASE ~isSubtypeOf(a.type, "xs:anyAtomicType") -> FALSE
    [] JsKind(a.type) = "number"  -> NumberLess(a.value, b.value)
    [] JsKind(a.type) = "boolean" -> ~a.value /\ b.value
    [] OTHER -> TextLess(AsText(a), AsText(b))

(***************************************************************************)
(* Value comparison: which comparison there is for two types.              *)
(***************************************************************************)
Operators == {"eq", "ne", "lt", "le", "gt", "ge"}
Equalities == {"eq", "ne"}

ComparisonFor(op, A, B) ==
  LET Both(types) == \E t \in types : isSubtypeOf(A, t) /\ isSubtypeOf(B, t)
      BothOfOne(types) == (\E t \in types : isSubtypeOf(A, t)) /\ (\E t \in types : isSubtypeOf(B, t))
  IN CASE Both({"xs:QName"}) -> IF op \in Equalities THEN "name" ELSE None
       [] Both({"xs:boolean", "xs:hexBinary", "xs:base64Binary", "xs:numeric"})
            \/ BothOfOne({"xs:string", "xs:anyURI"}) -> "plain"
       [] Both({"xs:yearMonthDuration"}) /\ op \notin Equalities -> "months"
       [] Both({"xs:dayTimeDuration"}) /\ op # "ne" -> "ticks"
       [] Both({"xs:duration"}) /\ op \in Equalities -> "object"
       [] Both({"xs:dateTime", "xs:date", "xs:time"}) -> "instant"
       [] Both({"xs:gYearMonth", "xs:gYear", "xs:gMonthDay", "xs:gMonth", "xs:gDay"})
            /\ op \in Equalities -> "instant"
       [] OTHER -> None

\* The prefix of a QName does not count.
EqualBy(kind, a, b) ==
  CASE kind = "plain"   -> StrictlyEqual(a, b)
    [] kind = "name"    -> a.value.uri = b.value.uri /\ a.value.local = b.value.local
    [] kind = "instant" -> compareDates(a.value, b.value, ImplicitTimezone) = 0
    [] OTHER            -> a.value = b.value

LessBy(kind, a, b) ==
  CASE kind = "plain"   -> StrictlyLess(a, b)
    [] kind = "instant" -> compareDates(a.value, b.value, ImplicitTimezone) < 0
    [] kind = "months"  -> a.value.months < b.value.months
    [] kind = "ticks"   -> a.value.ticks < b.value.ticks

Holds(op, kind, a, b) ==
  \/ op \in {"eq", "ne", "le", "ge"} /\ EqualBy(kind, a, b) = (op # "ne")
  \/ op \in {"lt", "le", "gt", "ge"}
     /\ LessBy(kind, IF op \in {"lt", "le"} THEN a ELSE b, IF op \in {"lt", "le"} THEN b ELSE a)

IsUntyped(item) == item.type = "xs:untypedAtomic"

OneIsUntyped(a, b) == IsUntyped(a) # IsUntyped(b)

\* The untyped one of two values, cast to the type of the other.
UntypedCast(a, b) == castToType(IF IsUntyped(a) THEN a ELSE b, IF IsUntyped(a) THEN b.type ELSE a.type)

\* Comparing, with what a cast of the untyped one of the two came to.
CompareBy(op, kind, a, b, cast) ==
  CASE kind = None  -> Err("XPTY0004")
    [] ~IsOk(cast)  -> cast
    [] OTHER        -> Ok(Holds(op, kind, IF OneIsUntyped(a, b) /\ IsUntyped(a) THEN cast.value ELSE a,
                                          IF OneIsUntyped(a, b) /\ IsUntyped(b) THEN cast.value ELSE b))

\* An untyped value is cast to the type of the other; two of them are strings.
valueCompare(op, a, b) ==
  LET A == IF IsUntyped(a) THEN IF IsUntyped(b) THEN "xs:string" ELSE b.type ELSE a.type
      B == IF IsUntyped(b) THEN IF IsUntyped(a) THEN "xs:string" ELSE a.type ELSE b.type
  IN CompareBy(op, ComparisonFor(op, A, B), a, b,
               IF OneIsUntyped(a, b) THEN UntypedCast(a, b) ELSE Ok(a))

\* Of two atomized sequences: nothing when one of them is empty.  The second is
\* not looked at when the first decides.
Single(atoms) == IsOk(atoms) /\ Len(atoms.value) = 1
OfSingles(as, bs, result) ==
  CASE ~Single(as) -> IF IsOk(as) /\ as.value # <<>> THEN Err("XPTY0004") ELSE as
    [] ~Single(bs) -> IF IsOk(bs) /\ bs.value # <<>> THEN Err("XPTY0004") ELSE bs
    [] OTHER       -> Then(result, LAMBDA holds : Ok(<<Value("xs:boolean", holds)>>))

CompareAtoms(op, as, bs) == OfSingles(as, bs, valueCompare(op, as.value[1], bs.value[1]))
ValueCompare(op, first, second) == CompareAtoms(op, atomize(first), atomize(second))

(***************************************************************************)
(* General comparison: some item of the one to some item of the other.     *)
(***************************************************************************)
TargetFor(other) ==
  CASE isSubtypeOf(other, "xs:numeric")           -> "xs:double"
    [] isSubtypeOf(other, "xs:dayTimeDuration")   -> "xs:dayTimeDuration"
    [] isSubtypeOf(other, "xs:yearMonthDuration") -> "xs:yearMonthDuration"
    [] OTHER                                      -> other

\* What each of two types is to be cast to, none or one of them.
determineTargetType(A, B) ==
  CASE A = "xs:untypedAtomic"                      -> <<TargetFor(B), None>>
    [] B = "xs:untypedAtomic"                      -> <<None, TargetFor(A)>>
    [] OTHER                                       -> <<None, None>>

\* At most one of two items is cast: what that cast came to is given.
CastOne(targets, a, b) ==
  CASE targets[1] # None -> castToType(a, targets[1])
    [] targets[2] # None -> castToType(b, targets[2])
    [] OTHER             -> Ok(a)

CompareCast(op, targets, a, b, cast) ==
  IF ~IsOk(cast) THEN cast
  ELSE valueCompare(op, IF targets[2] = None THEN cast.value ELSE a,
                        IF targets[2] = None THEN b ELSE cast.value)

\* The first item after a comparison, and the outcome: none when it does not hold.
Outcome(result) == IF IsOk(result) /\ ~result.value THEN <<>> ELSE <<result>>
AfterComparing(op, targets, a, b, cast) ==
  [first |-> IF targets[2] = None /\ IsOk(cast) THEN cast.value ELSE a,
   result |-> Outcome(CompareCast(op, targets, a, b, cast))]
CompareItems(op, targets, a, b) == AfterComparing(op, targets, a, b, CastOne(targets, a, b))

\* One item to all items of the second sequence, until one matches or fails.
\* Once the first item has been cast it stays so for the items after it.
Compared(op, s, second) ==
  IF s.result # <<>> THEN s
  ELSE CompareItems(op, determineTargetType(s.first.type, second.type), s.first, second)
ComparedToAll(op, first, seconds) ==
  LET after[i \in 0 .. Len(seconds)] ==
        IF i = 0 THEN [first |-> first, result |-> <<>>] ELSE Compared(op, after[i - 1], seconds[i])
  IN after[Len(seconds)].result

Decided(outcome) == IF outcome = <<>> THEN Ok(FALSE) ELSE outcome[1]

\* Mutant: only the first item of the one is compared.
ComparedFromTheFirst(op, firsts, seconds) ==
  Then(firsts[1], LAMBDA first : Decided(ComparedToAll(op, first, seconds)))

\* The items that match are counted: the sequence of them is asked first whether
\* it is empty and then whether it is one item, so the items are read up to the
\* second match, and one that cannot be read or compared fails until then.
generalCompare(op, firsts, seconds) ==
  LET Matches(first) ==
        Then(first, LAMBDA item : Decided(ComparedToAll(op, item, seconds)))
      matched[i \in 0 .. Len(firsts)] ==
        IF i = 0 THEN Ok(0)
        ELSE Then(matched[i - 1], LAMBDA n :
               IF n = 2 THEN Ok(2)
               ELSE Then(Matches(firsts[i]), LAMBDA holds : Ok(IF holds THEN n + 1 ELSE n)))
  IN Then(matched[Len(firsts)], LAMBDA n : Ok(n > 0))

\* The second sequence is atomized as a whole first, the first one as it is read.
GeneralCompare(op, first, second) ==
  IF first = <<>> \/ second = <<>> THEN Ok(FALSE)
  ELSE Then(atomize(second), LAMBDA seconds : generalCompare(op, AtomsInTurn(first), seconds))

(***************************************************************************)
(* Comparison of nodes, and the effective boolean value.                   *)
(***************************************************************************)
nodeCompare(op, a, b) ==
  IF ~IsNode(a) \/ ~IsNode(b) THEN Err("XPTY0004")
  ELSE Ok(CASE op = "is"     -> a.type = b.type /\ a.value = b.value
            [] op = "before" -> IndexIn(NodePositions, a.value) < IndexIn(NodePositions, b.value)
            [] op = "after"  -> IndexIn(NodePositions, a.value) > IndexIn(NodePositions, b.value))

NodeCompare(op, first, second) ==
  IF first = <<>> THEN Ok(<<>>)
  ELSE IF Len(first) > 1 THEN Err("XPTY0004")
  ELSE IF second = <<>> THEN Ok(<<>>)
  ELSE IF Len(second) > 1 THEN Err("XPTY0004")
  ELSE Then(nodeCompare(op, first[1], second[1]), LAMBDA holds : Ok(<<Value("xs:boolean", holds)>>))

getEffectiveBooleanValue(item) ==
  CASE IsNode(item)                          -> Ok(TRUE)
    [] isSubtypeOf(item.type, "xs:boolean")  -> Ok(item.value)
    [] \E t \in {"xs:string", "xs:anyURI", "xs:untypedAtomic"} : isSubtypeOf(item.type, t) ->
         Ok(item.value # EmptyText)
    [] isSubtypeOf(item.type, "xs:numeric")  -> Ok(item.value \notin {NaN, Number(0)})
    [] OTHER                                 -> Err("FORG0006")

EffectiveBooleanValueOf(seq) ==
  CASE seq = <<>>       -> Ok(FALSE)
    [] IsNode(seq[1])   -> Ok(TRUE)
    [] Len(seq) > 1     -> Err("FORG0006")
    [] OTHER            -> getEffectiveBooleanValue(seq[1])

(***************************************************************************)
(* fn:deep-equal.                                                          *)
(***************************************************************************)
SomeDate(type) == \E t \in DateTypes : isSubtypeOf(type, t)

\* Dates are compared without the time zone of the context, and of two
\* durations the second is not looked at when it is a plain xs:duration.
anyAtomicTypeDeepEqual(a, b) ==
  LET SomeNumber(type) == isSubtypeOf(type, "xs:numeric")
      kinds == {"xs:yearMonthDuration", "xs:dayTimeDuration"}
  IN CASE SomeNumber(a.type) /\ SomeNumber(b.type) -> a.value = b.value
       [] SomeDate(a.type) /\ SomeDate(b.type) -> compareDates(a.value, b.value, 0) = 0
       [] isSubtypeOf(a.type, "xs:duration") /\ b.type \in kinds -> a.value = b.value
       [] OTHER -> StrictlyEqual(a, b)

IsText(item) == item.type = "text()"
HasOtherSibling(node) ==
  \E parent \in DOMAIN Dom : LET children == Dom[parent].children IN
    \E i \in DOMAIN children :
      children[i] = node /\ i < Len(children) /\ Dom[children[i + 1]].type # "text()"

\* How many text nodes at the front of the sequence are taken together: up to
\* the first that is followed in its parent by a node of another kind.
takeConsecutiveTextValues(seq) ==
  LET ends == {i \in DOMAIN seq : ~IsText(seq[i]) \/ HasOtherSibling(seq[i].value)}
  IN IF ends = {} THEN Len(seq)
     ELSE IF IsText(seq[Min(ends)]) THEN Min(ends) ELSE Min(ends) - 1

compareNormalizedTextNodes(texts1, texts2) ==
  LET Joined(texts) == JoinedText([i \in DOMAIN texts |-> texts[i].value])
  IN Joined(texts1) = Joined(texts2)

\* The nodes of an element or a document that count: elements and texts.
ChildItems(node) ==
  LET children == SelectSeq(Dom[node].children,
                            LAMBDA child : Dom[child].type \in {"element()", "text()"})
  IN [i \in DOMAIN children |-> Node(children[i])]

SortedAttributes(node) ==
  LET attributes == Dom[node].attributes
  IN [i \in DOMAIN attributes |-> Node(attributes[i])]

SameName(m, n) == Dom[m].name = Dom[n].name /\ Dom[m].namespace = Dom[n].namespace

RECURSIVE sequenceDeepEqual(_, _), itemDeepEqual(_, _)

\* The entries of the one with, for each, the positions of its key in the other.
MatchedBy(entries, others) ==
  [i \in DOMAIN entries |->
     {j \in DOMAIN others : anyAtomicTypeDeepEqual(others[j].key, entries[i].key)}]

atomicTypeNodeDeepEqual(m, n) == SameName(m, n) /\ Dom[m].data = Dom[n].data

\* The sequences that are compared for two maps, arrays, documents or elements.
mapTypeDeepEqual(a, b, matched) ==
  [i \in DOMAIN a.value |-> <<a.value[i].value, b.value[Min(matched[i])].value>>]
arrayTypeDeepEqual(a, b) == [i \in DOMAIN a.value |-> <<a.value[i], b.value[i]>>]
nodeDeepEqual(m, n) == <<<<ChildItems(m), ChildItems(n)>>>>
elementNodeDeepEqual(m, n) == <<<<SortedAttributes(m), SortedAttributes(n)>>>> \o nodeDeepEqual(m, n)

HaveSameShape(a, b, matched) ==
  CASE a.type = "map(*)"   -> Len(a.value) = Len(b.value) /\ {} \notin Range(matched)
    [] a.type = "array(*)" -> Len(a.value) = Len(b.value)
    [] OTHER               -> a.type = "element()" => SameName(a.value, b.value)
PartsToCompare(a, b, matched) ==
  CASE a.type = "map(*)"          -> mapTypeDeepEqual(a, b, matched)
    [] a.type = "array(*)"        -> arrayTypeDeepEqual(a, b)
    [] a.type = "document-node()" -> nodeDeepEqual(a.value, b.value)
    [] a.type = "element()"       -> elementNodeDeepEqual(a.value, b.value)
AllEqual(parts) == \A i \in DOMAIN parts : sequenceDeepEqual(parts[i][1], parts[i][2])
ShapeAndPartsEqual(a, b, matched) ==
  HaveSameShape(a, b, matched) /\ AllEqual(PartsToCompare(a, b, matched))

itemDeepEqual(a, b) ==
  CASE isSubtypeOf(a.type, "xs:anyAtomicType") /\ isSubtypeOf(b.type, "xs:anyAtomicType") ->
         anyAtomicTypeDeepEqual(a, b)
    [] a.type # b.type     -> FALSE
    [] a.type \in {"attribute()", "processing-instruction()", "comment()"} ->
         atomicTypeNodeDeepEqual(a.value, b.value)
    [] a.type \in {"map(*)", "array(*)", "document-node()", "element()"} ->
         ShapeAndPartsEqual(a, b, IF a.type = "map(*)" THEN MatchedBy(a.value, b.value) ELSE <<>>)
    [] OTHER               -> FALSE

\* Text nodes at the front of both are compared as one text each; when there
\* are none, the items at the front are compared.  Texts of the one against
\* none of the other are compared to nothing.
sequenceDeepEqual(seq1, seq2) ==
  LET t1 == takeConsecutiveTextValues(seq1)
      t2 == takeConsecutiveTextValues(seq2)
  IN IF t1 > 0 \/ t2 > 0
     THEN /\ compareNormalizedTextNodes(SubSeq(seq1, 1, t1), SubSeq(seq2, 1, t2))
          /\ sequenceDeepEqual(SubSeq(seq1, t1 + 1, Len(seq1)), SubSeq(seq2, t2 + 1, Len(seq2)))
     ELSE IF seq1 = <<>> \/ seq2 = <<>> THEN seq1 = seq2
     ELSE itemDeepEqual(seq1[1], seq2[1]) /\ sequenceDeepEqual(Tail(seq1), Tail(seq2))
=============================================================================
