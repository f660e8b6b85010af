--------------------------- MODULE DetachedOrder ---------------------------
(***************************************************************************)
(* The order of nodes that are in different trees.  XPath leaves it open   *)
(* but asks that it is stable: a DomFacade remembers, for as long as it    *)
(* lives, the roots of the trees it compared, and every comparison made    *)
(* through it, by whichever sort or merge, both reads and extends that     *)
(* list.                                                                   *)
(***************************************************************************)
EXTENDS DocumentOrder

CONSTANT Nodes   \* the nodes that are compared

Trees == {n.tree : n \in Nodes}

\* Only an attribute has a namespace of its own.
ASSUME NodesAreNodes ==
  /\ Nodes \subseteq [tree : Trees, at : Seq(Int), local : Nat, ns : Nat]
  /\ \A n \in Nodes : IsAttribute(n) \/ n.ns = 0

VARIABLE orderOfDetachedNodes   \* the roots compared so far, in the order they were first seen

Init == orderOfDetachedNodes = <<>>

CompareNodePositions(a, b) ==
  orderOfDetachedNodes' = SeenAfter(orderOfDetachedNodes, a, b)

Next == \E a, b \in Nodes : CompareNodePositions(a, b)

Spec == Init /\ [][Next]_orderOfDetachedNodes

-----------------------------------------------------------------------------
\* A list of roots, none of them twice.
TypeOK ==
  /\ orderOfDetachedNodes \in Seq(Trees)
  /\ \A i, j \in DOMAIN orderOfDetachedNodes :
       orderOfDetachedNodes[i] = orderOfDetachedNodes[j] => i = j

Known(n) == \E i \in DOMAIN orderOfDetachedNodes : orderOfDetachedNodes[i] = n.tree

Before(a, b) == Compare(orderOfDetachedNodes, a, b) < 0

\* The nodes of the trees seen so far are totally ordered: of two nodes each
\* comparison puts the same one first, and the comparisons have no cycle. A
\* merge sort and a binary search give nonsense otherwise.
OrderIsTotal ==
  LET K == {n \in Nodes : Known(n)}
  IN /\ TypeOK
     /\ \A a, b \in K : a # b => (Before(a, b) <=> ~Before(b, a))
     /\ \A a, b, c \in K : a # b /\ b # c /\ Before(a, b) /\ Before(b, c) => Before(a, c)

\* The answer a comparison gives while it adds roots to the list is the answer
\* the longer list gives: what a sort decided, the next merge will find again.
AnswerStands ==
  \A a, b \in Nodes :
    LET after == SeenAfter(orderOfDetachedNodes, a, b)
    IN Before(a, b) <=> Compare(after, a, b) < 0

\* No comparison changes the order of nodes that are known already: "to ensure
\* stable sorting of unrelated nodes".
OrderIsKept ==
  [][\A a, b \in Nodes : Known(a) /\ Known(b) => (Before(a, b) <=> Before(a, b)')]_orderOfDetachedNodes
=============================================================================
