-------------------------- MODULE MCPendingUpdates --------------------------
(***************************************************************************)
(* A document with a root element that has two children, one of them with  *)
(* a text, a processing instruction and an attribute, and an element that  *)
(* is not in a document:                                                   *)
(*   D( R( A @y:p ( T, I ), B ) )   X                                      *)
(* Two prefixes are bound in A, and X has a default namespace.             *)
(***************************************************************************)
EXTENDS PendingUpdatesProps

Named(label) == <<label, 0, 0>>
D == Named("D")
R == Named("R")
A == Named("A")
B == Named("B")
T == Named("T")
I == Named("I")
X == Named("X")
P == Named("@p")

p == [prefix |-> "", uri |-> "", local |-> "p"]
yp == [prefix |-> "y", uri |-> "three", local |-> "p"]
xa == [prefix |-> "x", uri |-> "one", local |-> "a"]
xb == [prefix |-> "x", uri |-> "two", local |-> "b"]

MCKindOf ==
  [n \in {D, R, A, B, T, I, X, P} |->
     CASE n = D -> "document" [] n = T -> "text" [] n = P -> "attribute"
       [] n = I -> "processing-instruction" [] OTHER -> "element"]
MCKids ==
  [n \in {D, R, A, B, X} |->
     CASE n = D -> <<R>> [] n = R -> <<A, B>> [] n = A -> <<T, I>> [] OTHER -> <<>>]
MCAttrs ==
  [n \in {D, R, A, B, X} |-> IF n = A THEN {Attribute(P, yp, <<"initial", 0, 0>>)} ELSE {}]
MCBindings ==
  [n \in DOMAIN MCKindOf |->
     [prefix \in {"", "x", "y"} |->
        CASE n = X /\ prefix = "" -> "default"
          [] n \in {A, T, I, P} /\ prefix = "x" -> "one"
          [] n \in {A, T, I, P} /\ prefix = "y" -> "three"
          [] OTHER -> ""]]
MCNames == <<p, yp, xa, xb>>
MCContents ==
  {[attributes |-> <<>>, nodes |-> 2], [attributes |-> <<yp>>, nodes |-> 1],
   [attributes |-> <<xa>>, nodes |-> 0], [attributes |-> <<xb>>, nodes |-> 0],
   [attributes |-> <<p, xa, xb>>, nodes |-> 0], [attributes |-> <<>>, nodes |-> 0]}
=============================================================================
