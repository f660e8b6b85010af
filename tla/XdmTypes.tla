------------------------------ MODULE XdmTypes ------------------------------
(***************************************************************************)
(* The built-in types: what each is derived from, the restrictions it puts *)
(* on its values, and the questions the rest of the program asks of them.  *)
(* A type is named by the string the program writes for it.                *)
(***************************************************************************)
EXTENDS Integers, Sequences, FiniteSets, SequencesExt, TLC

CONSTANTS
  ByteBits, ShortBits, IntBits, LongBits  \* widths of the bounded integer types

ASSUME WidthsAssumption ==
  /\ {ByteBits, ShortBits, IntBits, LongBits} \subseteq Nat \ {0}
  /\ ByteBits < ShortBits /\ ShortBits < IntBits /\ IntBits < LongBits

None == "none"

\* The types by how they are made: a type, followed by the ones directly below it.
PrimitiveFamilies ==
  {<<"item()", "xs:anyAtomicType", "node()">>,
   <<"xs:anyAtomicType", "xs:untypedAtomic", "xs:string", "xs:boolean", "xs:decimal", "xs:float",
     "xs:double", "xs:duration", "xs:dateTime", "xs:time", "xs:date", "xs:gYearMonth", "xs:gYear",
     "xs:gMonthDay", "xs:gDay", "xs:gMonth", "xs:hexBinary", "xs:base64Binary", "xs:anyURI",
     "xs:QName", "xs:NOTATION">>,
   <<"xs:decimal", "xs:integer">>}

\* The derived types, and the list types, which are below their member type.
ListTypes == {"xs:NMTOKENS", "xs:IDREFS", "xs:ENTITIES"}
OtherFamilies ==
  {<<"xs:string", "xs:normalizedString">>, <<"xs:normalizedString", "xs:token">>,
   <<"xs:token", "xs:language", "xs:NMTOKEN", "xs:Name">>, <<"xs:NMTOKEN", "xs:NMTOKENS">>,
   <<"xs:Name", "xs:NCName">>, <<"xs:NCName", "xs:ID", "xs:IDREF", "xs:ENTITY">>,
   <<"xs:IDREF", "xs:IDREFS">>, <<"xs:ENTITY", "xs:ENTITIES">>,
   <<"xs:integer", "xs:nonPositiveInteger", "xs:long", "xs:nonNegativeInteger">>,
   <<"xs:nonPositiveInteger", "xs:negativeInteger">>,
   <<"xs:long", "xs:int">>, <<"xs:int", "xs:short">>, <<"xs:short", "xs:byte">>,
   <<"xs:nonNegativeInteger", "xs:unsignedLong", "xs:positiveInteger">>,
   <<"xs:unsignedLong", "xs:unsignedInt">>, <<"xs:unsignedInt", "xs:unsignedShort">>,
   <<"xs:unsignedShort", "xs:unsignedByte">>, <<"xs:dateTime", "xs:dateTimeStamp">>,
   <<"xs:duration", "xs:yearMonthDuration", "xs:dayTimeDuration">>,
   <<"item()", "function(*)">>, <<"function(*)", "map(*)", "array(*)">>,
   <<"node()", "element()", "comment()", "attribute()", "text()", "processing-instruction()",
     "document-node()">>}

\* A union has member types, and is not below any type.
MemberTypes == "xs:numeric" :> {"xs:decimal", "xs:integer", "xs:float", "xs:double"}
               @@ "xs:error" :> {} @@ None :> {}

FamiliesOf(t, families) == {f \in families : t \in ToSet(Tail(f))}
IsList(t) == t \in ListTypes
IsPrimitive(t) == t = "item()" \/ FamiliesOf(t, PrimitiveFamilies) # {}

\* Every type that has a model, with itself and the types it is derived from.
AncestryIn(families, unions) ==
  LET upwards[t \in UNION {ToSet(f) : f \in families} \cup unions] ==
        {t} \cup UNION {upwards[f[1]] : f \in FamiliesOf(t, families)}
  IN upwards
Table(f) == [t \in DOMAIN f |-> f[t]]
Ancestry == Table(AncestryIn(PrimitiveFamilies \cup OtherFamilies, {"xs:numeric", "xs:error", None}))

\* All but xs:anySimpleType have a model.
ValueType == DOMAIN Ancestry \cup {"xs:anySimpleType"}

IsBelow(sub, super) == super \in Ancestry[sub]

\* A union is above what one of its members is above, and below what one of
\* its members is below.
SupertypesIn(ancestry, members) ==
  LET Parts(t) == IF t \in DOMAIN members THEN members[t] ELSE {t}
  IN [sub \in DOMAIN ancestry |->
        {super \in DOMAIN ancestry :
           sub = super \/ \E s \in Parts(sub), p \in Parts(super) : p \in ancestry[s]}]
Supertypes == SupertypesIn(Ancestry, MemberTypes)
isSubtypeOf(sub, super) == super \in Supertypes[sub]

\* The first of the types from t upwards for which P holds, or none.
NearestOf(types) == IF types = {} THEN None ELSE CHOOSE t \in types : types \subseteq Ancestry[t]
Nearest(t, P(_)) == NearestOf({u \in Ancestry[t] : P(u)})

getPrimitiveTypeName(t) == Nearest(t, IsPrimitive)

(***************************************************************************)
(* Restrictions.                                                           *)
(***************************************************************************)
WhiteSpace(t) ==
  CASE ~IsBelow(t, "xs:anyAtomicType") \/ t \in {"xs:untypedAtomic", "xs:string"} -> None
    [] t = "xs:anyAtomicType"    -> "preserve"
    [] t = "xs:normalizedString" -> "replace"
    [] OTHER                     -> "collapse"

\* The white space restriction that applies: the type's own, or the nearest above it.
WhiteSpaceOf(t) == WhiteSpace(Nearest(t, LAMBDA u : WhiteSpace(u) # None))

\* The bounds a bounded integer type gives, both included.
SignedBounds(bits) == [minInclusive |-> -(2 ^ (bits - 1)), maxInclusive |-> 2 ^ (bits - 1) - 1]
UnsignedBounds(bits) == [minInclusive |-> 0, maxInclusive |-> 2 ^ bits - 1]

Bounds ==
  "xs:nonPositiveInteger" :> [maxInclusive |-> 0] @@ "xs:negativeInteger" :> [maxInclusive |-> -1]
  @@ "xs:long" :> SignedBounds(LongBits) @@ "xs:int" :> SignedBounds(IntBits)
  @@ "xs:short" :> SignedBounds(ShortBits) @@ "xs:byte" :> SignedBounds(ByteBits)

MoreBounds ==
  "xs:nonNegativeInteger" :> [minInclusive |-> 0] @@ "xs:positiveInteger" :> [minInclusive |-> 1]
  @@ "xs:unsignedLong" :> UnsignedBounds(LongBits) @@ "xs:unsignedInt" :> UnsignedBounds(IntBits)
  @@ "xs:unsignedShort" :> UnsignedBounds(ShortBits)
  @@ "xs:unsignedByte" :> UnsignedBounds(ByteBits)

restrictionsByName(t) ==
  CASE t \in DOMAIN Bounds     -> Bounds[t]
    [] t \in DOMAIN MoreBounds -> MoreBounds[t]
    [] OTHER                   -> <<>>

(***************************************************************************)
(* Sequence types: a type and how many items of it.                        *)
(***************************************************************************)
SequenceMultiplicity == {"?", "+", "*", "1"}

doesTypeAllowEmpty(mult) == mult \in {"*", "?"}
doesTypeAllowMultiple(mult) == mult \in {"*", "+"}

\* May a sequence of this many items have this multiplicity?
AllowsLength(mult, n) ==
  (n = 0 => doesTypeAllowEmpty(mult)) /\ (n > 1 => doesTypeAllowMultiple(mult))
=============================================================================
