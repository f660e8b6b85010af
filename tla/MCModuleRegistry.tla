--------------------------- MODULE MCModuleRegistry ---------------------------
(***************************************************************************)
(* Two namespaces.  Texts for "a": one with a private helper, one that     *)
(* declares the same function again, and one that calls into the first and *)
(* into "b".  Texts for "b": one that imports "a", two that import it and  *)
(* call the same function, and one that calls what is not there.           *)
(***************************************************************************)
EXTENDS ModuleRegistry

Call(uri, name) == [uri |-> uri, name |-> name]
Function(name, public, calls) == [name |-> name, public |-> public, calls |-> calls]
Text(uri, imports, functions) == [uri |-> uri, imports |-> imports, functions |-> functions]

MCModule ==
  {Text("a", {}, <<Function("f", TRUE, {Call("a", "h")}), Function("h", FALSE, {})>>),
   Text("a", {}, <<Function("f", TRUE, {})>>),
   Text("a", {"b"}, <<Function("g", TRUE, {Call("a", "f"), Call("b", "f")})>>),
   Text("b", {"a"}, <<Function("f", TRUE, {Call("a", "f")})>>),
   Text("b", {"a"}, <<Function("g", TRUE, {Call("a", "f")}), Function("h", TRUE, {Call("a", "h")})>>),
   Text("b", {}, <<>>)}
MCQuery ==
  {[imports |-> {"a"}, calls |-> {Call("a", "f")}],
   [imports |-> {"b"}, calls |-> {Call("b", "f")}],
   [imports |-> {"a", "b"}, calls |-> {Call("a", "g"), Call("b", "g")}],
   [imports |-> {}, calls |-> {}]}
=============================================================================
