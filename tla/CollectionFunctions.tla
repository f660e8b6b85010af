------------------------- MODULE CollectionFunctions --------------------------
(***************************************************************************)
(* Arrays and maps: their constructors, the lookup operator and the        *)
(* functions on them.  An array is a sequence of members, each a sequence; *)
(* a map is a sequence of entries, each a key and a sequence.              *)
(***************************************************************************)
EXTENDS SequenceFunctions

Array(members) == Value("array(*)", members)
Map(entries) == Value("map(*)", entries)
keyValuePair(key, value) == [key |-> key, value |-> value]
ArrayOk(members) == Ok(<<Array(members)>>)
MapOk(entries) == Ok(<<Map(entries)>>)
OutOfBounds == Err("FOAY0001")

(***************************************************************************)
(* Constructors and lookup.                                                *)
(***************************************************************************)
SquareArrayConstructor(members) == ArrayOk(members)
CurlyArrayConstructor(seq) == ArrayOk([i \in DOMAIN seq |-> <<seq[i]>>])

\* A key is one atomic value; the same key may come more than once.
MapOf(keys, values) ==
  CASE ~IsOk(keys) -> keys
    [] \E i \in DOMAIN keys.value : Len(keys.value[i]) # 1 -> Err("XPTY0004")
    [] OTHER -> MapOk([i \in DOMAIN keys.value |-> keyValuePair(keys.value[i][1], values[i])])
MapConstructor(keys, values) == MapOf(Collected([i \in DOMAIN keys |-> atomize(keys[i])]), values)

\* What a key, or every key, finds in one item.
performLookup(item, all, key) ==
  CASE item.type = "array(*)" ->
         IF all THEN Ok(FlattenSeq(item.value))
         ELSE IF ~isSubtypeOf(key.type, "xs:integer") THEN Err("XPTY0004")
         ELSE arrayGet(item, ToInt(key))
    [] item.type = "map(*)" ->
         IF all THEN Ok(FlattenSeq([i \in DOMAIN item.value |-> item.value[i].value]))
         ELSE mapGet(item, key)
    [] OTHER -> Err("XPTY0004")

Lookup(items, all, keys) ==
  Concatenated([i \in DOMAIN items |->
    IF all THEN performLookup(items[i], TRUE, items[i])
    ELSE Concatenated([k \in DOMAIN keys |-> performLookup(items[i], FALSE, keys[k])])])

(***************************************************************************)
(* Functions on arrays.                                                    *)
(***************************************************************************)
arraySize(array) == Ok(<<Integer(Len(array.value))>>)

arrayPut(array, position, item) ==
  IF position \notin DOMAIN array.value THEN OutOfBounds
  ELSE ArrayOk([array.value EXCEPT ![position] = item])

arrayAppend(array, item) == ArrayOk(Append(array.value, item))

arraySubarray(array, start, length) ==
  CASE start \notin DOMAIN array.value         -> OutOfBounds
    [] length < 0                              -> Err("FOAY0002")
    [] start + length > Len(array.value) + 1   -> OutOfBounds
    [] OTHER -> ArrayOk(SubSeq(array.value, start, start + length - 1))

\* Without a length: what is counted is the parameters of the JavaScript
\* function an array is, always four, and not its members.
ArrayFunctionLength == 4
arraySubarrayToEnd(array, start) == arraySubarray(array, start, ArrayFunctionLength - start + 1)

\* The highest position first, so that the others stay where they are.
WithoutPositions(members, positions) ==
  FoldLeft(LAMBDA rest, p : RemoveAt(rest, p), members,
           SetToSortSeq({positions[i] : i \in DOMAIN positions}, LAMBDA p, q : p > q))

arrayRemove(array, positions) ==
  IF \E i \in DOMAIN positions : positions[i] \notin DOMAIN array.value THEN OutOfBounds
  ELSE ArrayOk(WithoutPositions(array.value, positions))

arrayInsertBefore(array, position, item) ==
  IF position \notin 1 .. Len(array.value) + 1 THEN OutOfBounds
  ELSE ArrayOk(SubSeq(array.value, 1, position - 1) \o <<item>>
               \o SubSeq(array.value, position, Len(array.value)))

arrayReverse(array) == ArrayOk(Reverse(array.value))
arrayJoin(arrays) == ArrayOk(FlattenSeq([i \in DOMAIN arrays |-> arrays[i].value]))

\* The first position at which two sequences differ: one may have ended there.
Differ(as, bs) ==
  {i \in 1 .. Min({Len(as), Len(bs)}) : ~itemDeepEqual(as[i], bs[i])} \cup {Min({Len(as), Len(bs)}) + 1}

\* The first items that differ decide; NaN is before everything.
LessAt(as, bs, i) ==
  CASE i > Len(as) -> i <= Len(bs)
    [] i <= Len(as) /\ JsKind(as[i].type) = "number" /\ as[i].value = NaN -> TRUE
    [] i > Len(bs) -> FALSE
    [] OTHER -> StrictlyLess(as[i], bs[i])

deepLessThan(as, bs) == LessAt(as, bs, Min(Differ(as, bs)))

\* The stable sort of JavaScript with the comparison of the program.
GoesBefore(as, bs) == ~sequenceDeepEqual(as, bs) /\ deepLessThan(as, bs)
arraySort(array) == ArrayOk(SortSeq(array.value, GoesBefore))

\* Arrays in arrays too, member by member.
RECURSIVE flattenItem(_)
flattenItem(item) ==
  IF item.type # "array(*)" THEN <<item>>
  ELSE LET items == FlattenSeq(item.value)
       IN FlattenSeq([i \in DOMAIN items |-> flattenItem(items[i])])
arrayFlatten(items) == Ok(FlattenSeq([i \in DOMAIN items |-> flattenItem(items[i])]))

(***************************************************************************)
(* Functions on maps.                                                      *)
(***************************************************************************)
\* Mutant: what came last is kept, and goes to the end.
AddedLast(entries, entry, strategy) ==
  Ok(Append(SelectSeq(entries, LAMBDA e : ~isSameMapKey(e.key, entry.key)), entry))

\* An entry added to those of a map that is being merged.
AddedAt(entries, found, entry, strategy) ==
  CASE found = {}              -> Ok(Append(entries, entry))
    [] strategy = "reject"     -> Err("FOJS0003")
    [] strategy = "use-last"   -> Ok([entries EXCEPT ![Min(found)] = entry])
    [] strategy = "combine"    ->
         Ok([entries EXCEPT ![Min(found)] = keyValuePair(entry.key, @.value \o entry.value)])
    [] OTHER                   -> Ok(entries)
MergedEntry(entries, entry, strategy) == AddedAt(entries, EntriesFor(entries, entry.key), entry, strategy)

DuplicatesKey == Value("xs:string", Word("duplicates"))
StrategyIn(asked) == IF asked = <<>> THEN "use-first" ELSE asked[1].value.kind
AlsoMerged(done, entry, strategy) ==
  IF IsOk(done) THEN MergedEntry(done.value, entry, strategy) ELSE done
Merged(entries, strategy) ==
  LET first[i \in 0 .. Len(entries)] ==
        IF i = 0 THEN Ok(<<>>) ELSE AlsoMerged(first[i - 1], entries[i], strategy)
  IN first[Len(entries)]
AsMap(entries) == IF IsOk(entries) THEN MapOk(entries.value) ELSE entries
mapMerge(maps, options) ==
  AsMap(Merged(FlattenSeq([i \in DOMAIN maps |-> maps[i].value]), StrategyIn(mapGet(options, DuplicatesKey).value)))

PutAt(entries, found, entry) ==
  MapOk(IF found = {} THEN Append(entries, entry) ELSE [entries EXCEPT ![Min(found)] = entry])
mapPut(map, key, value) == PutAt(map.value, EntriesFor(map.value, key), keyValuePair(key, value))

mapEntry(key, value) == MapOk(<<keyValuePair(key, value)>>)
mapSize(map) == Ok(<<Integer(Len(map.value))>>)
mapKeys(map) == Ok([i \in DOMAIN map.value |-> map.value[i].key])
mapContains(map, key) == Ok(<<Boolean(EntriesFor(map.value, key) # {})>>)

\* Of each key the first entry is removed.
WithoutFirst(entries, found) == IF found = {} THEN entries ELSE RemoveAt(entries, Min(found))
Without(entries, key) == WithoutFirst(entries, EntriesFor(entries, key))
mapRemove(map, keys) ==
  LET after[i \in 0 .. Len(keys)] ==
        IF i = 0 THEN map.value ELSE Without(after[i - 1], keys[i])
  IN MapOk(after[Len(keys)])

(***************************************************************************)
(* What is declared, and what each declaration does.                       *)
(***************************************************************************)
OneArray == ExactlyOne("array(*)")
OneMap == ExactlyOne("map(*)")
OneAtom == ExactlyOne("xs:anyAtomicType")

ArrayDeclarations ==
  <<Declaration("array:size", <<OneArray>>, OneInteger),
    Declaration("array:get", <<OneArray, OneInteger>>, Items),
    Declaration("array:put", <<OneArray, OneInteger, Items>>, OneArray),
    Declaration("array:append", <<OneArray, Items>>, OneArray),
    Declaration("array:subarray", <<OneArray, OneInteger, OneInteger>>, OneArray),
    Declaration("array:subarray", <<OneArray, OneInteger>>, OneArray),
    Declaration("array:remove", <<OneArray, ZeroOrMore("xs:integer")>>, OneArray),
    Declaration("array:insert-before", <<OneArray, OneInteger, Items>>, OneArray),
    Declaration("array:head", <<OneArray>>, Items), Declaration("array:tail", <<OneArray>>, Items)>>

MoreArrayDeclarations ==
  <<Declaration("array:reverse", <<OneArray>>, OneArray),
    Declaration("array:join", <<ZeroOrMore("array(*)")>>, OneArray),
    Declaration("array:for-each", <<OneArray, OneFunction>>, OneArray),
    Declaration("array:filter", <<OneArray, OneFunction>>, OneArray),
    Declaration("array:fold-left", <<OneArray, Items, OneFunction>>, Items),
    Declaration("array:fold-right", <<OneArray, Items, OneFunction>>, Items),
    Declaration("array:for-each-pair", <<OneArray, OneArray, OneFunction>>, OneArray),
    Declaration("array:sort", <<OneArray>>, OneArray), Declaration("array:flatten", <<Items>>, Items)>>

MapDeclarations ==
  <<Declaration("map:contains", <<OneMap, OneAtom>>, OneBoolean),
    Declaration("map:entry", <<OneAtom, Items>>, OneMap),
    Declaration("map:for-each", <<OneMap, Items>>, Items),
    Declaration("map:get", <<OneMap, OneAtom>>, Items), Declaration("map:keys", <<OneMap>>, Atoms),
    Declaration("map:merge", <<ZeroOrMore("map(*)"), OneMap>>, OneMap),
    Declaration("map:merge", <<ZeroOrMore("map(*)")>>, OneMap),
    Declaration("map:put", <<OneMap, OneAtom, Items>>, OneMap),
    Declaration("map:remove", <<OneMap, Atoms>>, OneMap), Declaration("map:size", <<OneMap>>, OneInteger)>>

ArrayFunction(name, a) ==
  CASE name = "array:size"     -> arraySize(a[1][1])
    [] name = "array:get"      -> arrayGet(a[1][1], ToInt(a[2][1]))
    [] name = "array:put"      -> arrayPut(a[1][1], ToInt(a[2][1]), a[3])
    [] name = "array:append"   -> arrayAppend(a[1][1], a[2])
    [] name = "array:subarray" ->
         IF Len(a) = 2 THEN arraySubarrayToEnd(a[1][1], ToInt(a[2][1]))
         ELSE arraySubarray(a[1][1], ToInt(a[2][1]), ToInt(a[3][1]))
    [] name = "array:remove"   -> arrayRemove(a[1][1], [i \in DOMAIN a[2] |-> ToInt(a[2][i])])
    [] name = "array:insert-before" -> arrayInsertBefore(a[1][1], ToInt(a[2][1]), a[3])
    [] name = "array:head"     -> arrayGet(a[1][1], 1)
    [] name = "array:tail"     -> arrayRemove(a[1][1], <<1>>)
    [] name = "array:reverse"  -> arrayReverse(a[1][1])
    [] name = "array:join"     -> arrayJoin(a[1])
    [] name = "array:sort"     -> arraySort(a[1][1])
    [] name = "array:flatten"  -> arrayFlatten(a[1])

MapFunction(name, a) ==
  CASE name = "map:contains" -> mapContains(a[1][1], a[2][1])
    [] name = "map:entry"    -> mapEntry(a[1][1], a[2])
    [] name = "map:get"      -> mapGet(a[1][1], a[2][1])
    [] name = "map:keys"     -> mapKeys(a[1][1])
    [] name = "map:merge"    -> mapMerge(a[1], IF Len(a) = 1 THEN Map(<<>>) ELSE a[2][1])
    [] name = "map:put"      -> mapPut(a[1][1], a[2][1], a[3])
    [] name = "map:remove"   -> mapRemove(a[1][1], a[2])
    [] name = "map:size"     -> mapSize(a[1][1])
=============================================================================
