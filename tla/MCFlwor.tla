-------------------------------- MODULE MCFlwor --------------------------------
(***************************************************************************)
(* All expressions of up to three clauses out of some of each kind.         *)
(***************************************************************************)
EXTENDS Flwor

All == {"number", "NaN", "numeral", "word", "date"}
Var(name) == [var |-> name, kinds |-> All]
Only(name, kinds) == [var |-> name, kinds |-> kinds]
Literal(item) == [item |-> item]
Number(n) == Item("number", n)

MCFocus == "given" :> <<Number(2), Number(1)>>

Literals(items) == [i \in DOMAIN items |-> Literal(items[i])]
NumbersAndNaN == Literals(<<Number(2), Item("NaN", 0), Number(1)>>)
Strings == Literals(<<Item("word", 2), Item("word", 1), Item("numeral", 0)>>)
Words == Literals(<<Item("word", 2), Item("word", 1)>>)
Dates == Literals(<<Item("date", 3), Item("date", 1), Item("date", 2)>>)
Mixed == Literals(<<Item("date", 1), Number(1)>>)

For_(var, positional, source) == [type |-> "for", var |-> var, positional |-> positional, source |-> source]
Let_(var, source) == [type |-> "let", var |-> var, source |-> source]
Where_(test) == [type |-> "where", test |-> test]
OrderBy_(key, isAscending, isEmptyLeast) ==
  [type |-> "order by", key |-> key, isAscending |-> isAscending, isEmptyLeast |-> isEmptyLeast]
In(var, source) == [var |-> var, source |-> source]
Test(quantifier, in, left, right) == [quantifier |-> quantifier, in |-> in, left |-> left, right |-> right]

Loops ==
  {For_("x", positional, source) :
     positional \in {"", "i"}, source \in {NumbersAndNaN, Strings, Words, Dates, Mixed, <<Var("given")>>}}
  \cup {For_("y", "j", source) : source \in {<<Var("x"), Var("given")>>, <<Var("l")>>}}
Lets == {Let_("l", source) : source \in {<<Var("x"), Var("i")>>, <<Only("x", {"number", "date"})>>}}
Wheres ==
  {Where_(Test("some", <<In("z", <<Var("given")>>)>>, Var("z"), Var("x"))),
   Where_(Test("every", <<In("z", <<Var("l")>>), In("w", <<Var("given")>>)>>, Var("z"), Var("w"))),
   Where_(Test("some", <<In("z", <<Var("x")>>), In("w", <<Var("z")>>)>>, Var("w"), Var("x")))}
Orders ==
  {OrderBy_(<<Var("x")>>, isAscending, isEmptyLeast) : isAscending, isEmptyLeast \in BOOLEAN}
  \cup {OrderBy_(<<Var("l")>>, TRUE, isEmptyLeast) : isEmptyLeast \in BOOLEAN}
  \cup {OrderBy_(<<Var("i")>>, FALSE, TRUE)}
Clauses == Loops \cup Lets \cup Wheres \cup Orders
Returns == {<<Var("x")>>, <<Var("l"), Var("x")>>, <<Var("x"), Var("i")>>, <<Var("y"), Var("j")>>}

\* The names that are in scope after a clause; every name is read in its scope.
Binds(clause) ==
  CASE clause.type = "for" -> {clause.var, clause.positional} \ {""}
    [] clause.type = "let" -> {clause.var}
    [] OTHER -> {}
Free(clause) == ReadBy(clause) \ (IF clause.type = "where" THEN {"z", "w"} ELSE {})
Scope(chain) == DOMAIN Focus \cup UNION {Binds(chain[j]) : j \in DOMAIN chain}
MaxClauses == 3
Chains[n \in 0 .. MaxClauses] ==
  IF n = 0 THEN {<<>>}
  ELSE {Append(chain, c) : <<chain, c>> \in
          {p \in Chains[n - 1] \X (IF n = 1 THEN Loops ELSE Clauses) :
             Free(p[2]) \subseteq Scope(p[1]) /\ Binds(p[2]) \cap Scope(p[1]) = {}}}
MCQueries ==
  {[clauses |-> p[1], return |-> p[2]] : p \in
     {q \in (UNION {Chains[n] : n \in 1 .. MaxClauses}) \X Returns : NamesIn(q[2]) \subseteq Scope(q[1])}}
=============================================================================
