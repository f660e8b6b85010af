---------------------------- MODULE FunctionCalls -----------------------------
(***************************************************************************)
(* Function items: the conversion of arguments, partial application, and   *)
(* the registry of functions.                                              *)
(*                                                                         *)
(* A function item is a name with its signature and the arguments it       *)
(* already has; maps and arrays are functions of one argument.             *)
(***************************************************************************)
EXTENDS Arithmetic

ExactlyOne(type) == [type |-> type, mult |-> "1"]
ZeroOrOne(type) == [type |-> type, mult |-> "?"]
ZeroOrMore(type) == [type |-> type, mult |-> "*"]
OneOrMore(type) == [type |-> type, mult |-> "+"]
Ellipsis == [type |-> None, mult |-> "..."]

Declaration(name, params, result) == [name |-> name, params |-> params, result |-> result]

\* An argument, or the place of one that is still to come.
Given(seq) == [gap |-> FALSE, value |-> seq]
Gap == [gap |-> TRUE, value |-> <<>>]

\* A function item, and whether it was made by applying another to arguments.
FunctionItem(name, params, result, bound, applied) ==
  Value("function(*)", [name |-> name, params |-> params, result |-> result, bound |-> bound,
                        applied |-> applied])

\* What some results come to together: their values, or the first error.
Collected(results) ==
  LET failed == {i \in DOMAIN results : ~IsOk(results[i])}
  IN IF failed = {} THEN Ok([i \in DOMAIN results |-> results[i].value]) ELSE results[Min(failed)]
Flattened(result) == IF IsOk(result) THEN Ok(FlattenSeq(result.value)) ELSE result
Concatenated(results) == Flattened(Collected(results))

(***************************************************************************)
(* The function conversion rules.                                          *)
(***************************************************************************)

AtomFor(item, type) ==
  IF isSubtypeOf(type, "xs:anyAtomicType") /\ IsNode(item) THEN atomizeSingleValue(item).value[1] ELSE item
mapAtom(atom, type) ==
  CASE isSubtypeOf(atom.type, type) \/ type = "xs:anyAtomicType" -> Ok(atom)
    [] OTHER -> IF IsUntyped(atom) THEN castToType(atom, type) ELSE promoteToType(atom, type)
mapItem(item, type) ==
  IF isSubtypeOf(item.type, type) THEN Ok(item) ELSE mapAtom(AtomFor(item, type), type)

performFunctionConversion(type, argument) ==
  IF ~AllowsLength(type.mult, Len(argument)) THEN Err("XPTY0004")
  ELSE Collected([i \in DOMAIN argument |-> mapItem(argument[i], type.type)])

AsArgument(result) == IF IsOk(result) THEN Ok(Given(result.value)) ELSE result
transformArgumentList(types, arguments) ==
  Collected([i \in DOMAIN arguments |->
               IF arguments[i].gap THEN Ok(Gap)
               ELSE AsArgument(performFunctionConversion(types[i], arguments[i].value))])

(***************************************************************************)
(* Function items.                                                         *)
(***************************************************************************)
isSameMapKey(k1, k2) ==
  LET Both(types) == (\E t \in types : isSubtypeOf(k1.type, t)) /\ (\E t \in types : isSubtypeOf(k2.type, t))
      texts == {"xs:string", "xs:anyURI", "xs:untypedAtomic"}
      numbers == {"xs:decimal", "xs:double", "xs:float"}
      others == {"xs:boolean", "xs:hexBinary", "xs:duration", "xs:QName", "xs:NOTATION"}
  IN \/ Both(texts) /\ k1.value = k2.value
     \/ Both(numbers) /\ k1.value = k2.value     \* NaN is the same key as NaN
     \/ Both(others) /\ StrictlyEqual(k1, k2)

\* The positions of a key in the entries of a map: the first is the one used.
EntriesFor(entries, key) == {i \in DOMAIN entries : isSameMapKey(entries[i].key, key)}

ValueAt(map, found) == IF found = {} THEN <<>> ELSE map.value[Min(found)].value
mapGet(map, key) == Ok(ValueAt(map, EntriesFor(map.value, key)))

ToInt(item) == item.value.n \div 2
Integer(n) == Value("xs:integer", Number(2 * n))
Boolean(b) == Value("xs:boolean", b)

arrayGet(array, position) ==
  IF position \in DOMAIN array.value THEN Ok(array.value[position]) ELSE Err("FOAY0001")

IsFunction(item) == isSubtypeOf(item.type, "function(*)")

\* The parameters of a function item, the last one repeated for an ellipsis.
expandParameterTypeToArity(params, arity) ==
  IF Ellipsis \notin Range(params) THEN params
  ELSE [i \in 1 .. arity |-> IF i < Len(params) THEN params[i] ELSE params[Len(params) - 1]]

getArgumentTypes(f) ==
  CASE f.type = "map(*)"   -> <<ExactlyOne("item()")>>
    [] f.type = "array(*)" -> <<ExactlyOne("xs:integer")>>
    [] OTHER -> LET gaps == SelectSeq([i \in DOMAIN f.value.bound |-> i], LAMBDA i : f.value.bound[i].gap)
                IN [k \in DOMAIN gaps |-> f.value.params[gaps[k]]]

getArity(f) == Len(getArgumentTypes(f))
getReturnType(f) == IF f.type = "function(*)" THEN f.value.result ELSE ZeroOrMore("item()")

\* Mutant: after a partial application the arguments are taken from the last.
FilledFromTheEnd(bound, arguments) ==
  LET Gaps(places) == Cardinality({j \in places : bound[j].gap})
      partial == Gaps(DOMAIN bound) < Len(bound)
  IN [i \in DOMAIN bound |->
        IF bound[i].gap THEN arguments[Gaps(IF partial THEN i .. Len(bound) ELSE 1 .. i)] ELSE bound[i]]

\* Every gap takes the next of the arguments.
Filled(bound, arguments) ==
  [i \in DOMAIN bound |->
     IF bound[i].gap THEN arguments[Cardinality({j \in 1 .. i : bound[j].gap})] ELSE bound[i]]

applyArguments(f, arguments) ==
  IF f.type = "function(*)" THEN Value(f.type, [f.value EXCEPT !.bound = Filled(@, arguments), !.applied = TRUE])
  ELSE FunctionItem("get", <<ExactlyOne(f.type)>> \o getArgumentTypes(f), getReturnType(f),
                    <<Given(<<f>>)>> \o arguments, TRUE)

\* The value of a function item, called with converted arguments.
ValueIn(collection, key) ==
  IF collection.type = "map(*)" THEN mapGet(collection, key) ELSE arrayGet(collection, ToInt(key))

\* The name of what a function item calls, and all the arguments that gets.
CalledBy(f) == IF f.type = "function(*)" THEN f.value.name ELSE "get"
AllArguments(f, arguments) ==
  IF f.type # "function(*)" THEN <<<<f>>>> \o arguments
  ELSE LET all == Filled(f.value.bound, [i \in DOMAIN arguments |-> Given(arguments[i])])
       IN [i \in DOMAIN all |-> all[i].value]

ConvertResult(type, result) == IF IsOk(result) THEN performFunctionConversion(type, result.value) ELSE result

HasArity(f, n) == getArity(f) = n
validateFunctionItem(item, arity) == IsFunction(item) /\ HasArity(item, arity)

(***************************************************************************)
(* The registry: of the functions declared under a name, the first whose   *)
(* parameters fit the arity.                                               *)
(***************************************************************************)
Accepts(declaration, arity) ==
  IF Ellipsis \in Range(declaration.params) THEN Len(declaration.params) - 1 <= arity
  ELSE Len(declaration.params) = arity

getFunctionByArity(declarations, name, arity) ==
  SelectSeq(declarations, LAMBDA d : d.name = name /\ Accepts(d, arity))

\* A name with an arity, as a function item.
NamedFunctionRef(declarations, name, arity) ==
  LET found == getFunctionByArity(declarations, name, arity)
  IN IF found = <<>> THEN Err("XPST0017")
     ELSE Ok(<<FunctionItem(name, expandParameterTypeToArity(found[1].params, arity),
                            found[1].result, [i \in 1 .. arity |-> Gap], FALSE)>>)
=============================================================================
