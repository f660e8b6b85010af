-------------------------- MODULE MCExpressionCache --------------------------
(***************************************************************************)
(* Four texts: p:e, a name test; p:f(), a call with a prefix; f(), a call  *)
(* without, that also reads $v; and a query with a variable in its prolog, *)
(* in new syntax.  Calls that differ from a plain one in one or two ways.  *)
(***************************************************************************)
EXTENDS ExpressionCache

pf == [prefix |-> "p", local |-> "f"]
f == [prefix |-> "", local |-> "f"]
Text(prefixes, functions, variables, newSyntax, prolog) ==
  [prefixes |-> prefixes, functions |-> functions, variables |-> variables,
   newSyntax |-> newSyntax, prolog |-> prolog]
MCSource ==
  {Text({"p"}, {}, {}, FALSE, FALSE), Text({}, {pf}, {}, FALSE, FALSE),
   Text({}, {f}, {"v"}, FALSE, FALSE), Text({}, {}, {}, TRUE, TRUE)}

Name(uri, local) == [uri |-> uri, local |-> local]
MCRegistered ==
  {Name(uri, "f") : uri \in {"one", "two", "fn", "module", "generated"}} \cup {Name("one", "g")}

NoImports == [p \in {} |-> None]
Imports == [p \in {"p"} |-> "module"]
Plain ==
  [language |-> "XQuery", version |-> 4, debug |-> FALSE, disableCache |-> FALSE,
   namespaces |-> [p \in {"p"} |-> "one"], variables |-> {"v"}, imports |-> NoImports,
   functionNamespace |-> "fn", functions |-> [g \in {f, pf} |-> None], item |-> "first"]

MCCall ==
  LET namespaces == {[c EXCEPT !.namespaces["p"] = uri] : c \in {Plain}, uri \in {"one", "two", None}}
      functions == {[c EXCEPT !.functions = [g \in {f, pf} |-> answer]] :
                      c \in namespaces, answer \in {None, Name("one", "f"), Name("one", "g")}}
      imports == {[c EXCEPT !.imports = i] : c \in functions, i \in {NoImports, Imports}}
  IN imports
       \cup {[Plain EXCEPT !.variables = {}], [Plain EXCEPT !.functionNamespace = "two"],
             [Plain EXCEPT !.language = "XPath"], [Plain EXCEPT !.version = 3],
             [Plain EXCEPT !.debug = TRUE], [Plain EXCEPT !.disableCache = TRUE],
             [Plain EXCEPT !.item = "second"]}
=============================================================================
