------------------------- MODULE MCNodeSetOperators -------------------------
(* An element, two attributes of it with different local names, a child.    *)
EXTENDS NodeSetOperators

Node(at, local, ns) == [tree |-> 1, at |-> at, local |-> local, ns |-> ns]

FourNodes == {Node(<<1>>, 0, 0), Node(<<1>>, 1, 1), Node(<<1>>, 2, 1), Node(<<1, 1>>, 0, 0)}
=============================================================================
