-------------------------- MODULE MCDetachedOrder --------------------------
(* Five trees: three of a lone element, one with a child and one with two   *)
(* attributes on its root.                                                  *)
EXTENDS DetachedOrder

Node(tree, at, local) == [tree |-> tree, at |-> at, local |-> local, ns |-> 0]

FiveTrees == {Node(t, <<>>, 0) : t \in 1 .. 5}
               \cup {Node(1, <<1>>, 0), Node(2, <<>>, 1), Node(2, <<>>, 2)}
=============================================================================
