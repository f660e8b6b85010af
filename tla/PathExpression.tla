--------------------------- MODULE PathExpression ---------------------------
(***************************************************************************)
(* Evaluation of a path expression E1/E2/...: each step is evaluated for   *)
(* every node the steps before it returned, and the results are combined   *)
(* by concatenation, by a merge or by a full sort, depending on what the   *)
(* step claims of its results and on whether the nodes so far are known to *)
(* be peers (none an ancestor of another).                                 *)
(*                                                                         *)
(* A step is an axis, a test (the set of nodes it accepts) and possibly    *)
(* the predicate [1].  "union" stands for the parenthesised step           *)
(* (. | child::test): a step that is not an axis and claims nothing of     *)
(* its results.                                                            *)
(***************************************************************************)
EXTENDS DocumentOrder

CONSTANTS
  Documents,  \* the documents: records [elements: paths, attributes: {<<path, local, ns>>}]
  Axes,       \* the axes steps may use
  MaxSteps    \* bound on the number of steps

Sorted == "sorted"
ReverseSorted == "reverse-sorted"
Unsorted == "unsorted"

\* What the constructor of an axis passes on to that of Expression (nothing, for
\* a union): the order of the results for one context node, whether they are in
\* its subtree, whether they are peers.
Claims(axis) ==
  CASE axis \in {"self", "child"} -> [order |-> Sorted, subtree |-> TRUE, peer |-> TRUE]
    [] axis \in {"descendant", "descendant-or-self"} ->
         [order |-> Sorted, subtree |-> TRUE, peer |-> FALSE]
    [] axis = "parent" -> [order |-> ReverseSorted, subtree |-> TRUE, peer |-> TRUE]
    [] axis \in {"ancestor", "ancestor-or-self"} ->
         [order |-> ReverseSorted, subtree |-> FALSE, peer |-> FALSE]
    [] axis \in {"following", "following-sibling"} ->
         [order |-> Sorted, subtree |-> FALSE, peer |-> TRUE]
    [] axis \in {"preceding", "preceding-sibling"} ->
         [order |-> ReverseSorted, subtree |-> FALSE, peer |-> TRUE]
    [] axis = "attribute" -> [order |-> Unsorted, subtree |-> TRUE, peer |-> TRUE]
    [] axis = "union" -> [order |-> Unsorted, subtree |-> FALSE, peer |-> FALSE]

\* The steps after which the nodes so far may be taken for peers wrongly: two
\* axes claim too much, and after an unsorted step the property is not updated.
Unsound == {"following", "preceding", "union"}

VARIABLES
  document,        \* the document, which no step changes
  result,          \* the nodes the steps so far return, in order
  sequenceHasPeerProperty,
  steps,           \* the number of steps evaluated
  reached,         \* the nodes the path denotes so far, as a set
  sound            \* history: no step so far left the peer property true wrongly

vars == <<document, result, sequenceHasPeerProperty, steps, reached, sound>>

Element(path) == [tree |-> 1, at |-> path, local |-> 0, ns |-> 0]
Elements(doc) == {Element(path) : path \in doc.elements}
Attributes(doc) ==
  {[tree |-> 1, at |-> a[1], local |-> a[2], ns |-> a[3]] : a \in doc.attributes}
AllNodes(doc) == Elements(doc) \cup Attributes(doc)

ASSUME DocumentsAreTrees ==
  \A doc \in Documents :
    /\ doc.elements \subseteq Seq(Int)
    /\ doc.attributes \subseteq Seq(Int) \X (Nat \ {0}) \X Nat
    /\ IsFiniteSet(AllNodes(doc))

ASSUME AxesAreAxes ==
  Axes \subseteq {"self", "child", "descendant", "descendant-or-self", "parent", "ancestor",
                 "ancestor-or-self", "following-sibling", "preceding-sibling", "following",
                 "preceding", "attribute", "union"}

ASSUME MaxStepsIsNumber == MaxSteps \in Nat

(***************************************************************************)
(* The axes.  The siblings, the following and the preceding nodes of an    *)
(* attribute are those the DOM reports for it: no siblings, and what       *)
(* follows or precedes its element.                                        *)
(***************************************************************************)
IsChild(n, c) == c.at # <<>> /\ Front(c.at) = n.at
IsSibling(n, m) ==
  /\ ~IsAttribute(n) /\ n.at # <<>> /\ m.at # <<>>
  /\ Front(n.at) = Front(m.at)

SelfAxis(doc, n) == {n}
ChildAxis(doc, n) == {m \in Elements(doc) : ~IsAttribute(n) /\ IsChild(n, m)}
DescendantAxis(doc, n) == {m \in Elements(doc) : ~IsAttribute(n) /\ IsAncestor(n, m)}
AncestorAxis(doc, n) == {m \in Elements(doc) : IsAncestor(m, n)}
ParentAxis(doc, n) ==
  {m \in AncestorAxis(doc, n) : IF IsAttribute(n) THEN m = Owner(n) ELSE IsChild(m, n)}
FollowingSiblingAxis(doc, n) == {m \in Elements(doc) : IsSibling(n, m) /\ Precedes(n, m)}
PrecedingSiblingAxis(doc, n) == {m \in Elements(doc) : IsSibling(n, m) /\ Precedes(m, n)}
FollowingAxis(doc, n) ==
  {m \in Elements(doc) : Precedes(Owner(n), m) /\ ~IsAncestor(Owner(n), m)}
PrecedingAxis(doc, n) ==
  {m \in Elements(doc) : Precedes(m, Owner(n)) /\ ~IsAncestor(m, Owner(n))}
AttributeAxis(doc, n) == {m \in Attributes(doc) : ~IsAttribute(n) /\ m.at = n.at}

OnAxis(doc, axis, n) ==
  CASE axis = "self" -> SelfAxis(doc, n)
    [] axis = "child" -> ChildAxis(doc, n)
    [] axis = "descendant" -> DescendantAxis(doc, n)
    [] axis = "descendant-or-self" -> DescendantAxis(doc, n) \cup {n}
    [] axis = "parent" -> ParentAxis(doc, n)
    [] axis = "ancestor" -> AncestorAxis(doc, n)
    [] axis = "ancestor-or-self" -> AncestorAxis(doc, n) \cup {n}
    [] axis = "following-sibling" -> FollowingSiblingAxis(doc, n)
    [] axis = "preceding-sibling" -> PrecedingSiblingAxis(doc, n)
    [] axis = "following" -> FollowingAxis(doc, n)
    [] axis = "preceding" -> PrecedingAxis(doc, n)
    [] axis = "attribute" -> AttributeAxis(doc, n)
    [] axis = "union" -> {n} \cup ChildAxis(doc, n)

AxisNodes ==
  [doc \in Documents |-> [axis \in Axes |->
     [n \in AllNodes(doc) |-> InDocumentOrderOf(OnAxis(doc, axis, n))]]]

\* The nodes of s that are in S, in their order.
Filtered(s, S) ==
  LET kept[k \in 0 .. Len(s)] ==
        IF k = 0 THEN <<>>
        ELSE IF s[k] \in S THEN Append(kept[k - 1], s[k])
        ELSE kept[k - 1]
  IN kept[Len(s)]

\* What one step returns for one context node, in the order of its axis.
Evaluate(selector, n) ==
  LET accepted == selector.test \cup (IF selector.axis = "union" THEN {n} ELSE {})
      inOrder == Filtered(AxisNodes[document][selector.axis][n], accepted)
      axisOrder == IF Claims(selector.axis).order = ReverseSorted THEN Reverse(inOrder)
                                                                  ELSE inOrder
  IN IF selector.first /\ axisOrder # <<>> THEN <<axisOrder[1]>> ELSE axisOrder

Init ==
  /\ document \in Documents
  /\ \E n \in AllNodes(document) : result = <<n>> /\ reached = {n}
  /\ sequenceHasPeerProperty = TRUE
  /\ steps = 0
  /\ sound = TRUE

\* Mutant: results in the subtrees of their context nodes are concatenated.
HowBySubtree(claims) ==
  CASE claims.order = Unsorted -> "sort"
    [] claims.order # Unsorted /\ claims.subtree -> "concat"
    [] OTHER -> "merge"

\* How the results for the context nodes are combined.
How(claims) ==
  CASE claims.order = Unsorted -> "sort"
    [] claims.order # Unsorted /\ claims.subtree /\ sequenceHasPeerProperty -> "concat"
    [] OTHER -> "merge"

\* Results in reverse document order are reversed before they are combined.
ToCombine(selector) ==
  [i \in DOMAIN result |->
     LET found == Evaluate(selector, result[i])
     IN IF Claims(selector.axis).order = ReverseSorted THEN Reverse(found) ELSE found]

Combine(how, sequences) ==
  CASE how = "concat" -> {ConcatSortedSequences(sequences)}
    [] how = "merge" -> MergeSortedSequences(<<>>, sequences)
    [] how = "sort" -> {SortNodeValues(<<>>, ConcatSortedSequences(sequences))}

\* Mutant: only the last step counts.
PeersOfStep(claims) == claims.peer

\* The branch for unsorted results returns before the peer property is updated.
PeersAfter(claims) ==
  IF claims.order = Unsorted THEN sequenceHasPeerProperty
                             ELSE sequenceHasPeerProperty /\ claims.peer

Step(selector) ==
  LET claims == Claims(selector.axis)
  IN /\ steps < MaxSteps
     /\ result' \in Combine(How(claims), ToCombine(selector))
     /\ sequenceHasPeerProperty' = PeersAfter(claims)
     /\ steps' = steps + 1
     /\ reached' = UNION {ToSet(Evaluate(selector, n)) : n \in reached}
     /\ sound' = (sound /\ selector.axis \notin Unsound)
     /\ UNCHANGED document

\* Only what a test says of the nodes it is asked about matters.
Selectors ==
  UNION {[axis : {axis}, first : BOOLEAN,
          test : SUBSET UNION {ToSet(AxisNodes[document][axis][n]) : n \in ToSet(result)}] : axis \in Axes}

Next == \E selector \in Selectors : Step(selector)

Spec == Init /\ [][Next]_vars

-----------------------------------------------------------------------------
TypeOK ==
  /\ document \in Documents
  /\ ToSet(result) \subseteq AllNodes(document)
  /\ sound => Len(result) <= Cardinality(AllNodes(document))
  /\ sequenceHasPeerProperty \in BOOLEAN
  /\ steps \in 0 .. MaxSteps
  /\ reached \subseteq AllNodes(document)
  /\ sound \in BOOLEAN

\* The result of a path without an unsound step is in document order and holds
\* no node twice, whichever of the three ways combined the results of its
\* steps: the code takes the cheap ways on the word of the flags alone.
InDocumentOrder == sound => IsInDocumentOrder(result)

\* None in another, and all at one depth: the parents of nodes at different
\* depths may come in any order, though the parent axis claims to stay in the
\* subtree.
ArePeers(nodes) ==
  \A m, n \in nodes : ~IsAncestor(m, n) /\ Len(m.at) = Len(n.at)

\* Every step, on any axis, turns nodes in document order into nodes in
\* document order, as long as the nodes it starts from are peers if it takes
\* them for peers.
StepKeepsOrder ==
  [][IsInDocumentOrder(result) /\ (sequenceHasPeerProperty => ArePeers(reached))
       => IsInDocumentOrder(result')]_vars

\* Combining loses no node and adds none: the result holds exactly the nodes
\* the path denotes.  A binary search that puts a sequence back in the wrong
\* place, or a duplicate that swallows its neighbour, would break it.
ExactlyTheNodesReached == TypeOK /\ ToSet(result) = reached

\* While the code takes the nodes so far to be peers, none of them is an
\* ancestor of another: the reason the comment in evaluate gives for when
\* concatenation is allowed.  Unsound steps are the only exception.
PeersAreDisjoint ==
  sound /\ sequenceHasPeerProperty => ArePeers(reached)

\* What the comment on concatSortedSequences demands: "Sequences here MUST be
\* globally sorted: the last item of sequence n must be equal to or before
\* the first item of sequence n + 1".
ConcatIsGloballySorted ==
  \A selector \in Selectors :
    How(Claims(selector.axis)) = "concat" =>
      LET filled == SelectSeq(ToCombine(selector), LAMBDA s : s # <<>>)
      IN \A i \in 1 .. Len(filled) - 1 :
           \/ Last(filled[i]) = filled[i + 1][1]
           \/ Precedes(Last(filled[i]), filled[i + 1][1])
=============================================================================
